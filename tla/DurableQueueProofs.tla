------------------------- MODULE DurableQueueProofs -------------------------
(***************************************************************************)
(* Theorems about DurableQueue, for every value of its constants.          *)
(*                                                                         *)
(* The first part is of the protocol by itself: types, exclusion, evidence *)
(* and claims.  From "A user of the lock service" on it is what the        *)
(* transfer lock gives the queue, for any number of consumers and          *)
(* producers: the lock is used as a lock service allows, the transitions   *)
(* made under it find the names as their tests left them, and, while the   *)
(* power stays on, no enqueued entry is lost.                              *)
(*                                                                         *)
(* From "One worker" on, there is one delivery worker, which closes only   *)
(* entries it has loaded, and any number of producers.  The files          *)
(* implement QueueEntry and a load returns durable claims, under every     *)
(* fault; what was settled stays gone while the power stays on.            *)
(***************************************************************************)
EXTENDS DurableQueueImpl, TLAPS


LEMMA NamesDiffer ==
  /\ Names = {"json", "processing", "delivered", "entry", "failed", "record"}
  /\ FileNames = {"json", "processing", "delivered", "entry", "failed"}
BY DEF Names, FileNames, QueueNames, RecordNames, FailedNames, RootNames

-----------------------------------------------------------------------------
(* Type correctness.                                                       *)

\* Renaming, linking or unlinking one file name keeps the type of fs.
LEMMA EntriesExcept ==
  ASSUME NEW f \in Entries, NEW n \in FileNames, NEW i \in Inodes \cup {None}
  PROVE  [f EXCEPT ![n] = i] \in Entries
<1>1. Directory \notin Inodes \cup {None}
  BY QueueAssumption
<1> QED BY <1>1, NamesDiffer DEF Entries

LEMMA EntryValue ==
  ASSUME NEW f \in Entries, NEW n \in FileNames
  PROVE  f[n] \in Inodes \cup {None}
BY NamesDiffer DEF Entries

LEMMA HoldsType ==
  ASSUME content \in [Inodes -> Gens \cup {0}], NEW i \in Inodes \cup {None}
  PROVE  Holds(i) \in Gens \cup {0}
BY DEF Holds

LEMMA TypeInit == Init => TypeOK
<1> SUFFICES ASSUME Init PROVE TypeOK OBVIOUS
<1>1. FilesOK
  BY QueueAssumption, NamesDiffer DEF Init, FilesOK, Entries, Gens
<1>2. ControlOK /\ LocalsOK /\ HistoryOK
  BY DEF Init, ControlOK, Steps, LocalsOK, HistoryOK
<1>3. BudgetOK
  BY QueueAssumption DEF Init, BudgetOK
<1> QED BY <1>1, <1>2, <1>3 DEF TypeOK

\* The frames most steps are made of.
LEMMA GotoType ==
  ASSUME ControlOK, NEW p \in Procs, NEW l \in Steps, Goto(p, l)
  PROVE  pc' \in [Procs -> Steps]
BY DEF ControlOK, Goto

LEMMA StepType ==
  ASSUME TypeOK, NEW p \in Procs, NEW l \in Steps, Step(p, l)
  PROVE  TypeOK'
<1>1. pc' \in [Procs -> Steps]
  BY GotoType DEF TypeOK, Step
<1>2. FilesOK' /\ LocalsOK' /\ BudgetOK' /\ HistoryOK'
  BY DEF TypeOK, Step, FilesOK, LocalsOK, BudgetOK, HistoryOK, files, locals, budget, history
<1>3. ControlOK'
  BY <1>1 DEF TypeOK, Step, ControlOK
<1> QED BY <1>2, <1>3 DEF TypeOK

LEMMA FinishType ==
  ASSUME TypeOK, NEW c \in Consumers, Finish(c)
  PROVE  ControlOK' /\ LocalsOK'
<1>1. c \in Procs /\ "idle" \in Steps
  BY DEF Procs, Steps
<1>2. pc' \in [Procs -> Steps]
  BY <1>1, GotoType DEF TypeOK, Finish
<1>3. ControlOK'
  BY <1>1, <1>2 DEF TypeOK, Finish, ControlOK, Unpin, Unlock
<1>4. LocalsOK'
  BY DEF TypeOK, Finish, LocalsOK
<1> QED BY <1>3, <1>4

LEMMA ThrowType ==
  ASSUME TypeOK, NEW c \in Consumers, Throw(c)
  PROVE  TypeOK'
<1>1. FilesOK' /\ BudgetOK' /\ HistoryOK'
  BY DEF TypeOK, Throw, FilesOK, BudgetOK, HistoryOK, files, budget, history
<1> QED BY <1>1, FinishType DEF TypeOK, Throw

LEMMA ChangeType ==
  ASSUME TypeOK, NEW c \in Consumers, NEW l \in Steps, NEW f \in Entries, Change(c, f, l)
  PROVE  /\ FilesOK' /\ ControlOK' /\ BudgetOK'
         /\ op' = op /\ got' = got /\ verdict' = verdict
<1>1. pc' \in [Procs -> Steps]
  BY GotoType DEF TypeOK, Change, Procs
<1>2. ControlOK'
  BY <1>1 DEF TypeOK, Change, ControlOK
<1> QED BY <1>2 DEF TypeOK, Change, FilesOK, BudgetOK, budget

LEMMA ChangeOnlyType ==
  ASSUME TypeOK, NEW c \in Consumers, NEW l \in Steps, NEW f \in Entries,
         Change(c, f, l), UNCHANGED <<ret, history>>
  PROVE  TypeOK'
<1>1. LocalsOK' /\ HistoryOK'
  BY ChangeType DEF TypeOK, LocalsOK, HistoryOK, history
<1> QED BY <1>1, ChangeType DEF TypeOK

LEMMA FaultType ==
  ASSUME BudgetOK, NEW kind, Fault(kind)
  PROVE  faults' \in 0..MaxFaults /\ boots \in 0..faults'
BY QueueAssumption DEF BudgetOK, Fault

LEMMA SyncType ==
  ASSUME FilesOK, NEW D, Sync(D)
  PROVE  disk' \in Entries
<1>1. \A n \in Names : disk'[n] \in {fs[n], disk[n]}
  BY DEF Sync
<1> QED BY <1>1, NamesDiffer DEF FilesOK, Entries, Sync

LEMMA CrashImageType ==
  ASSUME FilesOK
  PROVE  CrashImages \subseteq Entries
<1> SUFFICES ASSUME NEW K PROVE Kept(K) \in Entries
  BY DEF CrashImages
<1> QED BY NamesDiffer DEF FilesOK, Entries, Kept

\* The producers, who change neither the lock nor the state of a consumer.
LEMMA EndWriteType ==
  ASSUME TypeOK, NEW p \in Producers, EndWrite(p),
         enqueued' \subseteq Gens \cup {0},
         faults' \in 0..MaxFaults, boots \in 0..faults'
  PROVE  TypeOK'
<1>1. p \in Procs /\ "idle" \in Steps
  BY DEF Procs, Steps
<1>2. ControlOK'
  BY <1>1, GotoType DEF TypeOK, EndWrite, ControlOK, Unpin
<1>3. FilesOK' /\ LocalsOK'
  BY DEF TypeOK, EndWrite, FilesOK, LocalsOK, files, locals
<1>4. BudgetOK' /\ HistoryOK'
  BY DEF TypeOK, EndWrite, BudgetOK, HistoryOK
<1> QED BY <1>2, <1>3, <1>4 DEF TypeOK

LEMMA PublishType ==
  ASSUME TypeOK, NEW p \in Producers, Publish(p)
  PROVE  TypeOK'
<1>1. p \in Procs /\ "assertPublished" \in Steps
  BY DEF Procs, Steps
<1>2. PICK i \in Unused :
        /\ fs' = [fs EXCEPT !["json"] = i]
        /\ content' = [content EXCEPT ![i] = nextGen]
        /\ pin' = [pin EXCEPT ![p] = i]
  BY DEF Publish
<1>3. i \in Inodes /\ nextGen \in Gens
  BY QueueAssumption DEF Unused, Publish, TypeOK, BudgetOK, Gens
<1>4. FilesOK'
  BY <1>2, <1>3, EntriesExcept, NamesDiffer DEF TypeOK, FilesOK, Publish
<1>5. ControlOK'
  BY <1>1, <1>2, <1>3, GotoType DEF TypeOK, ControlOK, Publish
<1>6. LocalsOK'
  BY DEF TypeOK, LocalsOK, Publish, locals
<1>7. BudgetOK'
  BY QueueAssumption DEF TypeOK, BudgetOK, Publish
<1>8. HistoryOK'
  BY <1>3 DEF TypeOK, HistoryOK, Publish
<1> QED BY <1>4, <1>5, <1>6, <1>7, <1>8 DEF TypeOK

LEMMA ProducerType ==
  ASSUME TypeOK, NEW p \in Producers,
         Publish(p) \/ ProducerStep(p) \/ ProducerCrash(p)
  PROVE  TypeOK'
<1>1. p \in Procs /\ {"syncParent", "assertSynced"} \subseteq Steps
  BY DEF Procs, Steps
<1>2. Holds(pin[p]) \in Gens \cup {0}
  BY <1>1, HoldsType DEF TypeOK, FilesOK, ControlOK
<1>3. CASE Publish(p)
  BY <1>3, PublishType
<1>4. CASE AssertPublished(p)
  <2>1. CASE At(p, "assertPublished")
    BY <1>1, <1>4, <2>1, StepType DEF AssertPublished
  <2>2. CASE ~At(p, "assertPublished")
    BY <1>2, <1>4, <2>2, EndWriteType DEF AssertPublished, TypeOK, HistoryOK, BudgetOK
  <2> QED BY <2>1, <2>2
<1>5. CASE WriteRejected(p)
  BY <1>5, EndWriteType DEF WriteRejected, TypeOK, HistoryOK, BudgetOK
<1>6. CASE SyncParent(p)
  <2>1. FilesOK'
    BY <1>6, SyncType DEF SyncParent, TypeOK, FilesOK
  <2>2. ControlOK'
    BY <1>1, <1>6, GotoType DEF SyncParent, TypeOK, ControlOK
  <2>3. LocalsOK' /\ BudgetOK' /\ HistoryOK'
    BY <1>6 DEF SyncParent, TypeOK, LocalsOK, BudgetOK, HistoryOK, locals, budget, history
  <2> QED BY <2>1, <2>2, <2>3 DEF TypeOK
<1>7. CASE SyncParentFails(p)
  BY <1>7, EndWriteType, FaultType DEF SyncParentFails, TypeOK, HistoryOK
<1>8. CASE ProducerCrash(p)
  BY <1>8, EndWriteType, FaultType DEF ProducerCrash, TypeOK, HistoryOK
<1> QED BY <1>3, <1>4, <1>5, <1>6, <1>7, <1>8 DEF ProducerStep

\* The steps of a consumer that change only its program counter, or throw.
LEMMA NextStepType ==
  ASSUME NEW c \in Consumers
  PROVE  /\ c \in Procs
         /\ Returned(c) \in Steps /\ AfterSync(c) \in Steps /\ FirstStep(c) \in Steps
BY DEF Procs, Returned, AfterSync, FirstStep, Steps, SyncSteps

LEMMA TestType ==
  ASSUME TypeOK, NEW c \in Consumers,
         \/ Recover(c) \/ RecoverRejects(c) \/ Claim(c) \/ ClaimNothing(c) \/ LockTimeout(c)
         \/ OpenRejects(c) \/ Read(c) \/ CallbackMigrates(c) \/ CallbackThrows(c)
         \/ MigrateAssert(c) \/ AckVerify(c) \/ Fail(c)
  PROVE  TypeOK'
<1>1. Throw(c) \/ \E l \in Steps : Step(c, l)
  <2> DEFINE Go == \E l \in Steps : Step(c, l)
  <2>1. Recover(c) => Go
    BY NextStepType DEF Recover, EmptyRecord, PutBack, Steps, SyncSteps
  <2>2. Claim(c) => Go
    BY DEF Claim, ClaimExisting, Steps, SyncSteps
  <2>3. Fail(c) => Go
    BY DEF Fail, Steps, SyncSteps
  <2>4. Read(c) \/ CallbackMigrates(c) \/ MigrateAssert(c) \/ AckVerify(c) => Go \/ Throw(c)
    BY DEF Read, CallbackMigrates, MigrateAssert, AckVerify, Steps
  <2>5. RecoverRejects(c) \/ ClaimNothing(c) \/ LockTimeout(c) \/ OpenRejects(c) \/ CallbackThrows(c)
          => Throw(c)
    BY DEF RecoverRejects, ClaimNothing, LockTimeout, OpenRejects, CallbackThrows
  <2> QED BY <2>1, <2>2, <2>3, <2>4, <2>5
<1> QED BY <1>1, StepType, ThrowType, NextStepType

LEMMA FaultStepType ==
  ASSUME TypeOK, NEW c \in Consumers, SyncFails(c) \/ LinkRefused(c)
  PROVE  TypeOK'
<1>1. ControlOK' /\ LocalsOK'
  BY FinishType DEF SyncFails, LinkRefused
<1>2. BudgetOK'
  BY FaultType DEF SyncFails, LinkRefused, TypeOK, BudgetOK
<1>3. FilesOK' /\ HistoryOK'
  BY DEF SyncFails, LinkRefused, TypeOK, FilesOK, HistoryOK, files, history
<1> QED BY <1>1, <1>2, <1>3 DEF TypeOK

LEMMA SyncStepType ==
  ASSUME TypeOK, NEW c \in Consumers, SyncStep(c)
  PROVE  TypeOK'
<1>1. FilesOK'
  BY SyncType DEF SyncStep, TypeOK, FilesOK
<1>2. ControlOK'
  BY NextStepType, GotoType DEF SyncStep, TypeOK, ControlOK
<1>3. LocalsOK' /\ BudgetOK' /\ HistoryOK'
  BY DEF SyncStep, TypeOK, LocalsOK, BudgetOK, HistoryOK, locals, budget, history
<1> QED BY <1>1, <1>2, <1>3 DEF TypeOK

\* The steps that change one or two names.
LEMMA RenameType ==
  ASSUME TypeOK, NEW c \in Consumers,
         \/ Relink(c) \/ UnlinkEntry(c) \/ RmdirRecord(c) \/ Link(c) \/ MkdirRecord(c)
         \/ AckStart(c) \/ AckUnlink(c) \/ Sweep(c) \/ FailLink(c) \/ FailUnlink(c)
  PROVE  TypeOK'
<1> DEFINE Renamed == \E f \in Entries, l \in Steps :
                        Change(c, f, l) /\ UNCHANGED <<ret, history>>
<1>1. \A n \in FileNames : fs[n] \in Inodes \cup {None}
  BY EntryValue DEF TypeOK, FilesOK
<1>2. \A n \in FileNames, i \in Inodes \cup {None} : [fs EXCEPT ![n] = i] \in Entries
  BY EntriesExcept DEF TypeOK, FilesOK
<1>3. \A d \in {None, Directory} : [fs EXCEPT !["record"] = d] \in Entries
  BY NamesDiffer DEF TypeOK, FilesOK, Entries
<1>4. (\E l \in Steps : Step(c, l)) \/ Throw(c) \/ Renamed
  <2>1. Relink(c) => Renamed \/ Throw(c)
    BY <1>1, <1>2, NamesDiffer DEF Relink, Steps, SyncSteps
  <2>2. UnlinkEntry(c) => Renamed
    BY <1>2, NamesDiffer DEF UnlinkEntry, Steps, SyncSteps
  <2>3. RmdirRecord(c) \/ MkdirRecord(c) => Renamed
    BY <1>3 DEF RmdirRecord, MkdirRecord, Steps, SyncSteps
  <2>4. Link(c) => Renamed
    BY <1>1, <1>2, NamesDiffer DEF Link, Steps, SyncSteps
  <2>5. AckStart(c) \/ AckUnlink(c) => Renamed
    BY <1>2, NamesDiffer DEF AckStart, AckUnlink, Steps, SyncSteps
  <2>6. Sweep(c) => Renamed \/ \E l \in Steps : Step(c, l)
    BY <1>2, NamesDiffer DEF Sweep, Steps, SyncSteps
  <2>7. FailLink(c) => Renamed \/ Throw(c) \/ \E l \in Steps : Step(c, l)
    BY <1>1, <1>2, NamesDiffer DEF FailLink, Steps, SyncSteps
  <2>8. FailUnlink(c) => Renamed
    BY <1>2, NamesDiffer DEF FailUnlink, Steps, SyncSteps
  <2> QED BY <2>1, <2>2, <2>3, <2>4, <2>5, <2>6, <2>7, <2>8
<1>5. CASE Renamed
  BY <1>5, ChangeOnlyType
<1> QED BY <1>4, <1>5, StepType, ThrowType, NextStepType

LEMMA TakePendingType ==
  ASSUME TypeOK, NEW c \in Consumers, TakePending(c)
  PROVE  TypeOK'
<1>1. PICK f \in Entries, l \in Steps : Change(c, f, l)
  <2>1. CASE fs["json"] # None
    <3> DEFINE g == [fs EXCEPT !["json"] = None]
    <3>1. g \in Entries /\ fs["json"] \in Inodes \cup {None}
      BY EntriesExcept, EntryValue, NamesDiffer DEF TypeOK, FilesOK
    <3>2. [g EXCEPT !["entry"] = fs["json"]] \in Entries
      BY <3>1, EntriesExcept, NamesDiffer
    <3> QED BY <2>1, <3>2 DEF TakePending, Steps, SyncSteps
  <2>2. CASE fs["json"] = None
    BY <2>2 DEF TakePending, TypeOK, FilesOK, Steps
  <2> QED BY <2>1, <2>2
<1>2. FilesOK' /\ ControlOK' /\ BudgetOK' /\ op' = op /\ got' = got /\ verdict' = verdict
  BY <1>1, ChangeType
<1>3. LocalsOK' /\ HistoryOK'
  BY <1>2 DEF TakePending, TypeOK, LocalsOK, HistoryOK, history
<1> QED BY <1>2, <1>3 DEF TypeOK

LEMMA AckRenameType ==
  ASSUME TypeOK, NEW c \in Consumers, AckRename(c)
  PROVE  TypeOK'
<1> DEFINE g == [fs EXCEPT !["delivered"] = fs["processing"]]
           f == [g EXCEPT !["processing"] = None]
<1>1. fs["processing"] \in Inodes \cup {None}
  BY EntryValue, NamesDiffer DEF TypeOK, FilesOK
<1>2. f \in Entries
  <2>1. g \in Entries
    BY <1>1, EntriesExcept, NamesDiffer DEF TypeOK, FilesOK
  <2> QED BY <2>1, EntriesExcept, NamesDiffer
<1>3. Change(c, f, "ackSync") /\ "ackSync" \in Steps
  BY DEF AckRename, Steps, SyncSteps
<1>4. FilesOK' /\ ControlOK' /\ BudgetOK' /\ op' = op /\ got' = got /\ verdict' = verdict
  BY <1>2, <1>3, ChangeType
<1>5. LocalsOK'
  BY <1>4 DEF AckRename, TypeOK, LocalsOK
<1>6. Gen("processing") \in Gens \cup {0}
  BY <1>1, HoldsType DEF Gen, TypeOK, FilesOK
<1>7. HistoryOK'
  BY <1>6 DEF AckRename, TypeOK, HistoryOK
<1> QED BY <1>4, <1>5, <1>7 DEF TypeOK

\* The steps that take or release the lock, or change a descriptor.
LEMMA LockStepType ==
  ASSUME TypeOK, NEW c \in Consumers,
         AcquireLock(c) \/ Claimed(c) \/ Open(c) \/ Retire(c) \/ SweepDone(c)
  PROVE  TypeOK'
<1>1. /\ c \in Procs
      /\ FirstStep(c) \in Steps
      /\ {"failLink", "open", "read", "recover", "lock"} \subseteq Steps
  BY NextStepType DEF Steps
<1>2. fs["processing"] \in Inodes \cup {None}
  BY EntryValue, NamesDiffer DEF TypeOK, FilesOK
<1>3. CASE AcquireLock(c)
  <2>1. ControlOK'
    BY <1>1, <1>3, GotoType DEF AcquireLock, TypeOK, ControlOK
  <2>2. FilesOK' /\ LocalsOK' /\ BudgetOK' /\ HistoryOK'
    BY <1>3 DEF AcquireLock, TypeOK, FilesOK, LocalsOK, BudgetOK, HistoryOK, files, budget, history
  <2> QED BY <2>1, <2>2 DEF TypeOK
<1>4. CASE Claimed(c)
  <2>1. CASE op[c] = "fail"
    BY <1>1, <1>4, <2>1, StepType DEF Claimed
  <2>2. CASE op[c] # "fail"
    <3>1. ControlOK'
      BY <1>1, <1>4, <2>2, GotoType DEF Claimed, TypeOK, ControlOK, Unlock
    <3>2. FilesOK' /\ LocalsOK' /\ BudgetOK' /\ HistoryOK'
      BY <1>4, <2>2
         DEF Claimed, TypeOK, FilesOK, LocalsOK, BudgetOK, HistoryOK, files, locals, budget, history
    <3> QED BY <3>1, <3>2 DEF TypeOK
  <2> QED BY <2>1, <2>2
<1>5. CASE Open(c)
  <2>1. ControlOK'
    BY <1>1, <1>2, <1>5, GotoType DEF Open, TypeOK, ControlOK
  <2>2. FilesOK' /\ LocalsOK' /\ BudgetOK' /\ HistoryOK'
    BY <1>5
       DEF Open, TypeOK, FilesOK, LocalsOK, BudgetOK, HistoryOK, files, locals, budget, history
  <2> QED BY <2>1, <2>2 DEF TypeOK
<1>6. CASE Retire(c)
  <2>1. ControlOK'
    BY <1>1, <1>6, GotoType DEF Retire, TypeOK, ControlOK
  <2>2. FilesOK' /\ LocalsOK' /\ BudgetOK' /\ HistoryOK'
    BY <1>6 DEF Retire, TypeOK, FilesOK, LocalsOK, BudgetOK, HistoryOK, files, budget, history
  <2> QED BY <2>1, <2>2 DEF TypeOK
<1>7. CASE SweepDone(c)
  <2>1. CASE op[c] = "sweep"
    BY <1>7, <2>1, ThrowType DEF SweepDone
  <2>2. CASE op[c] # "sweep"
    <3>1. ControlOK'
      BY <1>1, <1>7, <2>2, GotoType DEF SweepDone, TypeOK, ControlOK, Unlock
    <3>2. FilesOK' /\ LocalsOK' /\ BudgetOK' /\ HistoryOK'
      BY <1>7, <2>2
         DEF SweepDone, TypeOK, FilesOK, LocalsOK, BudgetOK, HistoryOK, files, budget, history
    <3> QED BY <3>1, <3>2 DEF TypeOK
  <2> QED BY <2>1, <2>2
<1> QED BY <1>3, <1>4, <1>5, <1>6, <1>7

\* The steps that end an operation with a result.
LEMMA ReturnType ==
  ASSUME TypeOK, NEW c \in Consumers, CallbackReturns(c) \/ Migrated(c)
  PROVE  TypeOK'
<1>1. c \in Procs /\ "idle" \in Steps /\ Return(c)
  BY DEF Procs, Steps, CallbackReturns, Migrated
<1>2. Holds(pin[c]) \in Gens \cup {0}
  BY <1>1, HoldsType DEF TypeOK, FilesOK, ControlOK
<1>3. ControlOK'
  BY <1>1, GotoType DEF Return, TypeOK, ControlOK, Unpin, Unlock
<1>4. LocalsOK'
  BY <1>1, <1>2 DEF Return, TypeOK, LocalsOK, Decide
<1>5. HistoryOK'
  BY <1>1, <1>2 DEF Return, TypeOK, HistoryOK
<1>6. FilesOK' /\ BudgetOK'
  BY <1>1 DEF Return, TypeOK, FilesOK, BudgetOK, files, budget
<1> QED BY <1>3, <1>4, <1>5, <1>6 DEF TypeOK

LEMMA SettleType ==
  ASSUME TypeOK, NEW c \in Consumers, AckDone(c) \/ FailVerify(c) \/ FailDone(c)
  PROVE  TypeOK'
<1>1. CASE Throw(c)
  BY <1>1, ThrowType
<1>2. ASSUME NEW g \in Gens \cup {0}, Settle(c, g)
      PROVE  TypeOK'
  <2>1. c \in Procs /\ "idle" \in Steps
    BY DEF Procs, Steps
  <2>2. ControlOK'
    BY <1>2, <2>1, GotoType DEF Settle, TypeOK, ControlOK, Unlock
  <2>3. LocalsOK'
    BY <1>2 DEF Settle, TypeOK, LocalsOK, Decide
  <2>4. HistoryOK'
    BY <1>2 DEF Settle, TypeOK, HistoryOK
  <2>5. FilesOK' /\ BudgetOK'
    BY <1>2 DEF Settle, TypeOK, FilesOK, BudgetOK, files, budget
  <2> QED BY <2>2, <2>3, <2>4, <2>5 DEF TypeOK
<1>3. got[c] \in Gens \cup {0} /\ Gen("failed") \in Gens \cup {0}
  BY EntryValue, HoldsType, NamesDiffer DEF TypeOK, LocalsOK, FilesOK, Gen
<1> QED BY <1>1, <1>2, <1>3 DEF AckDone, FailVerify, FailDone

LEMMA MigratePublishType ==
  ASSUME TypeOK, NEW c \in Consumers, MigratePublish(c)
  PROVE  TypeOK'
<1>1. PICK i \in Inodes :
        /\ fs' = [fs EXCEPT !["processing"] = i]
        /\ content' = [content EXCEPT ![i] = Holds(pin[c])]
  BY DEF MigratePublish, Unused
<1>2. Holds(pin[c]) \in Gens \cup {0}
  BY HoldsType DEF TypeOK, FilesOK, ControlOK, Procs
<1>3. FilesOK'
  BY <1>1, <1>2, EntriesExcept, NamesDiffer DEF TypeOK, FilesOK, MigratePublish
<1>4. c \in Procs /\ "migrateSync" \in Steps
  BY DEF Procs, Steps, SyncSteps
<1>5. ControlOK'
  BY <1>4, GotoType DEF TypeOK, ControlOK, MigratePublish
<1>6. LocalsOK' /\ BudgetOK' /\ HistoryOK'
  BY DEF MigratePublish, TypeOK, LocalsOK, BudgetOK, HistoryOK, locals, budget, history
<1> QED BY <1>3, <1>5, <1>6 DEF TypeOK

LEMMA CallType ==
  ASSUME TypeOK, NEW c \in Consumers, ConsumerCall(c)
  PROVE  TypeOK'
<1>1. PICK o \in {"load", "batch", "sweep", "sweepThenClaim", "ack", "fail"},
           g \in Gens \cup {0}, v \in {"none", "ack", "fail"} :
        Call(c, o) /\ Decide(c, g, v)
  BY DEF ConsumerCall, Load, LoadPending, Ack, MoveToFailed, TypeOK, LocalsOK
<1>2. c \in Procs /\ {"lock", "ensureFailed"} \subseteq Steps
  BY DEF Procs, Steps, SyncSteps
<1>3. ControlOK'
  BY <1>1, <1>2, GotoType DEF Call, TypeOK, ControlOK
<1>4. LocalsOK'
  BY <1>1 DEF Call, Decide, TypeOK, LocalsOK
<1>5. FilesOK' /\ BudgetOK' /\ HistoryOK'
  BY <1>1 DEF Call, TypeOK, FilesOK, BudgetOK, HistoryOK, files, budget, history
<1> QED BY <1>3, <1>4, <1>5 DEF TypeOK

LEMMA CrashType ==
  ASSUME TypeOK, NEW c \in Consumers, Crash(c)
  PROVE  TypeOK'
<1>1. c \in Procs /\ "idle" \in Steps
  BY DEF Procs, Steps
<1>2. ControlOK'
  BY <1>1, GotoType DEF Crash, TypeOK, ControlOK, Unpin
<1>3. LocalsOK'
  BY DEF Crash, TypeOK, LocalsOK, Decide
<1>4. BudgetOK'
  BY FaultType DEF Crash, TypeOK, BudgetOK
<1>5. FilesOK' /\ HistoryOK'
  BY DEF Crash, TypeOK, FilesOK, HistoryOK, files, history
<1> QED BY <1>2, <1>3, <1>4, <1>5 DEF TypeOK

LEMMA PowerLossType ==
  ASSUME TypeOK, PowerLoss
  PROVE  TypeOK'
<1>1. FilesOK'
  BY CrashImageType DEF PowerLoss, TypeOK, FilesOK
<1>2. ControlOK'
  BY DEF PowerLoss, TypeOK, ControlOK, Steps
<1>3. LocalsOK'
  BY DEF PowerLoss, TypeOK, LocalsOK
<1>4. BudgetOK'
  BY QueueAssumption DEF PowerLoss, Fault, TypeOK, BudgetOK
<1>5. HistoryOK'
  BY DEF PowerLoss, TypeOK, HistoryOK, history
<1> QED BY <1>1, <1>2, <1>3, <1>4, <1>5 DEF TypeOK

LEMMA TypeNext == TypeOK /\ [Next]_vars => TypeOK'
<1> SUFFICES ASSUME TypeOK, [Next]_vars PROVE TypeOK'
  OBVIOUS
<1>1. ASSUME NEW c \in Consumers, ConsumerStep(c)
      PROVE  TypeOK'
  BY <1>1, SyncStepType, FaultStepType, TestType, RenameType, TakePendingType, AckRenameType,
     LockStepType, ReturnType, SettleType, MigratePublishType
     DEF ConsumerStep
<1>2. CASE RemoveStaleLock
  BY <1>2
     DEF RemoveStaleLock, TypeOK, FilesOK, ControlOK, LocalsOK, BudgetOK, HistoryOK,
         files, locals, budget, history
<1>3. CASE UNCHANGED vars
  BY <1>3
     DEF vars, TypeOK, FilesOK, ControlOK, LocalsOK, BudgetOK, HistoryOK,
         files, locals, budget, history
<1> QED BY <1>1, <1>2, <1>3, ProducerType, CallType, CrashType, PowerLossType DEF Next

\* Every variable keeps its type, for any number of producers, consumers,
\* file identities, generations and faults.
THEOREM TypeCorrect == Spec => []TypeOK
BY TypeInit, TypeNext, PTL DEF Spec

-----------------------------------------------------------------------------
(* Mutual exclusion.                                                       *)

\* What a step of the owner does to the lock and to the other consumers.
LEMMA OwnerKeepsExclusion ==
  ASSUME TypeOK, TransferExclusion, NEW c \in Consumers, lock = c, lock' = c,
         \A d \in Consumers \ {c} : pc'[d] = pc[d]
  PROVE  TransferExclusion'
BY DEF TransferExclusion

\* A step that releases the lock or never needed it ends outside a transition.
LEMMA LeaveKeepsExclusion ==
  ASSUME TypeOK, TransferExclusion, NEW c \in Consumers,
         pc'[c] \in Unlocked, lock' = lock \/ lock = c,
         \A d \in Consumers \ {c} : pc'[d] = pc[d]
  PROVE  TransferExclusion'
BY DEF TransferExclusion

\* Every step of a consumer but AcquireLock either is made under the lock and
\* keeps it, or ends outside a transition and at most gives up its own lock.
UnderLock(c) == pc[c] \notin Unlocked /\ lock' = lock /\ \E l \in Steps : Goto(c, l)
Leaves(c) == (\E l \in Unlocked : Goto(c, l)) /\ (lock' = lock \/ lock = c)

LEMMA FinishLeaves == ASSUME NEW c, Finish(c) PROVE Leaves(c)
BY DEF Finish, Leaves, Unlocked, Unlock

LEMMA StepUnderLock ==
  ASSUME TypeOK, NEW c \in Consumers, ConsumerStep(c)
  PROVE  UnderLock(c) \/ Leaves(c) \/ AcquireLock(c)
<1> USE NextStepType DEF At, Step, Change, Unlocked, Steps, SyncSteps, UnderLock
<1>1. SyncStep(c) => UnderLock(c) \/ Leaves(c)
  BY DEF SyncStep, AfterSync, Leaves
<1>2. SyncFails(c) \/ LinkRefused(c) \/ LockTimeout(c) \/ RecoverRejects(c) \/ ClaimNothing(c)
        \/ OpenRejects(c) \/ CallbackThrows(c) => Leaves(c)
  BY FinishLeaves
     DEF SyncFails, LinkRefused, LockTimeout, RecoverRejects, ClaimNothing, OpenRejects,
         CallbackThrows, Throw
<1>3. Recover(c) => UnderLock(c)
  BY DEF Recover, EmptyRecord, PutBack
<1>4. Relink(c) => UnderLock(c) \/ Leaves(c)
  BY FinishLeaves DEF Relink, Throw
<1>5. UnlinkEntry(c) \/ RmdirRecord(c) \/ Link(c) \/ Retire(c) \/ MkdirRecord(c) => UnderLock(c)
  BY DEF UnlinkEntry, RmdirRecord, Link, Retire, MkdirRecord
<1>6. Claim(c) \/ TakePending(c) => UnderLock(c)
  BY DEF Claim, ClaimExisting, TakePending
<1>7. Claimed(c) => UnderLock(c) \/ Leaves(c)
  BY DEF Claimed, Leaves, Unlock
<1>8. Open(c) \/ CallbackMigrates(c) => Leaves(c)
  BY DEF Open, CallbackMigrates, Leaves
<1>9. Read(c) => Leaves(c)
  BY FinishLeaves DEF Read, Throw, Leaves
<1>10. CallbackReturns(c) \/ Migrated(c) => Leaves(c)
  BY DEF CallbackReturns, Migrated, Return, Leaves, Unlock
<1>11. MigrateAssert(c) \/ AckVerify(c) => UnderLock(c) \/ Leaves(c)
  BY FinishLeaves DEF MigrateAssert, AckVerify, Throw
<1>12. MigratePublish(c) \/ AckStart(c) \/ AckRename(c) \/ AckUnlink(c) => UnderLock(c)
  BY DEF MigratePublish, AckStart, AckRename, AckUnlink
<1>13. AckDone(c) \/ FailDone(c) => Leaves(c)
  BY DEF AckDone, FailDone, Settle, Leaves, Unlock
<1>14. FailVerify(c) => Leaves(c)
  BY FinishLeaves DEF FailVerify, Throw, Settle, Leaves, Unlock
<1>15. Sweep(c) \/ Fail(c) \/ FailUnlink(c) => UnderLock(c)
  BY DEF Sweep, Fail, FailUnlink
<1>16. SweepDone(c) => Leaves(c)
  BY FinishLeaves DEF SweepDone, Throw, Leaves, Unlock
<1>17. FailLink(c) => UnderLock(c) \/ Leaves(c)
  BY FinishLeaves DEF FailLink, Throw
<1> QED
  BY <1>1, <1>2, <1>3, <1>4, <1>5, <1>6, <1>7, <1>8, <1>9, <1>10, <1>11, <1>12, <1>13, <1>14,
     <1>15, <1>16, <1>17
     DEF ConsumerStep

LEMMA ExclusionNext == TypeOK /\ TransferExclusion /\ [Next]_vars => TransferExclusion'
<1> SUFFICES ASSUME TypeOK, TransferExclusion, [Next]_vars PROVE TransferExclusion'
  OBVIOUS
<1>1. ASSUME NEW c \in Consumers, UnderLock(c)
      PROVE  TransferExclusion'
  BY <1>1, OwnerKeepsExclusion
     DEF UnderLock, Goto, TransferExclusion, TypeOK, ControlOK, Procs
<1>2. ASSUME NEW c \in Consumers, Leaves(c)
      PROVE  TransferExclusion'
  BY <1>2, LeaveKeepsExclusion DEF Leaves, Goto, TypeOK, ControlOK, Procs
<1>3. ASSUME NEW c \in Consumers, AcquireLock(c)
      PROVE  TransferExclusion'
  <2>1. \A d \in Consumers : lock # d
    BY <1>3, QueueAssumption DEF AcquireLock
  <2> QED BY <1>3, <2>1 DEF AcquireLock, TransferExclusion, TypeOK, ControlOK, Goto, Procs
<1>4. ASSUME NEW c \in Consumers, ConsumerCall(c) \/ Crash(c)
      PROVE  Leaves(c)
  BY <1>4 DEF ConsumerCall, Load, LoadPending, Ack, MoveToFailed, Call, Crash, Leaves, Unlocked
<1>5. ASSUME NEW p \in Producers, Publish(p) \/ ProducerStep(p) \/ ProducerCrash(p)
      PROVE  TransferExclusion'
  <2>1. lock' = lock /\ \E l : Goto(p, l)
    BY <1>5
       DEF Publish, ProducerStep, ProducerCrash, AssertPublished, WriteRejected, SyncParent,
           SyncParentFails, EndWrite, Step
  <2> QED BY <2>1, QueueAssumption DEF TransferExclusion, Goto, TypeOK, ControlOK, Procs
<1>6. CASE PowerLoss
  BY <1>6 DEF PowerLoss, TransferExclusion, Unlocked, Procs
<1>7. CASE RemoveStaleLock
  <2>1. \A c \in Consumers : lock # c
    BY <1>7, QueueAssumption DEF RemoveStaleLock
  <2> QED BY <1>7, <2>1 DEF RemoveStaleLock, TransferExclusion
<1>8. CASE UNCHANGED vars
  BY <1>8 DEF vars, TransferExclusion
<1> QED BY <1>1, <1>2, <1>3, <1>4, <1>5, <1>6, <1>7, <1>8, StepUnderLock DEF Next

\* Two consumers are never inside a transition together, whatever crashes,
\* power losses and removals of stale locks come between their steps.
THEOREM Exclusion == Spec => []TransferExclusion
<1>1. Init => TransferExclusion
  BY DEF Init, TransferExclusion, Unlocked, Procs
<1> QED BY <1>1, ExclusionNext, TypeCorrect, PTL DEF Spec

-----------------------------------------------------------------------------
(* What each step may do to the claim, the evidence and the contents.      *)

LEMMA ConsumerFrame ==
  ASSUME TypeOK, NEW c \in Consumers, ConsumerStep(c)
  PROVE  /\ boots' = boots
         /\ content' = content \/ MigratePublish(c)
         /\ \/ fs'["processing"] = fs["processing"]
            \/ fs'["processing"] = None
            \/ Link(c)
            \/ MigratePublish(c)
         /\ fs'["failed"] = fs["failed"] \/ fs["failed"] = None
         /\ disk'["failed"] = disk["failed"] \/ SyncStep(c)
<1> USE NamesDiffer DEF Step, Change, Throw, Finish, files, budget, TypeOK, FilesOK, Entries
<1> DEFINE Same == boots' = boots /\ fs' = fs /\ disk' = disk /\ content' = content
<1>1. SyncStep(c) => boots' = boots /\ fs' = fs /\ content' = content
  BY DEF SyncStep
<1>2. SyncFails(c) \/ LinkRefused(c) \/ AcquireLock(c) \/ LockTimeout(c) \/ Recover(c)
        \/ RecoverRejects(c) \/ Claim(c) \/ ClaimNothing(c) \/ Retire(c) \/ Claimed(c) => Same
  BY DEF SyncFails, LinkRefused, AcquireLock, LockTimeout, Recover, EmptyRecord, PutBack,
         RecoverRejects, Claim, ClaimExisting, ClaimNothing, Retire, Claimed
<1>3. Open(c) \/ OpenRejects(c) \/ Read(c) \/ CallbackReturns(c) \/ CallbackMigrates(c)
        \/ CallbackThrows(c) \/ MigrateAssert(c) \/ Migrated(c) => Same
  BY DEF Open, OpenRejects, Read, CallbackReturns, CallbackMigrates, CallbackThrows,
         MigrateAssert, Migrated, Return
<1>4. AckVerify(c) \/ AckDone(c) \/ SweepDone(c) \/ Fail(c) \/ FailVerify(c) \/ FailDone(c)
        => Same
  BY DEF AckVerify, AckDone, SweepDone, Fail, FailVerify, FailDone, Settle
<1>5. Relink(c) \/ UnlinkEntry(c) \/ RmdirRecord(c) \/ MkdirRecord(c) \/ TakePending(c)
        \/ AckStart(c) \/ AckUnlink(c) \/ Sweep(c)
        => /\ boots' = boots /\ disk' = disk /\ content' = content
           /\ fs'["processing"] = fs["processing"] /\ fs'["failed"] = fs["failed"]
  BY DEF Relink, UnlinkEntry, RmdirRecord, MkdirRecord, TakePending, AckStart, AckUnlink, Sweep
<1>6. AckRename(c) \/ FailUnlink(c)
        => /\ boots' = boots /\ disk' = disk /\ content' = content
           /\ fs'["processing"] = None /\ fs'["failed"] = fs["failed"]
  BY DEF AckRename, FailUnlink
<1>7. Link(c)
        => boots' = boots /\ disk' = disk /\ content' = content /\ fs'["failed"] = fs["failed"]
  BY DEF Link
<1>8. FailLink(c)
        => /\ boots' = boots /\ disk' = disk /\ content' = content
           /\ fs'["processing"] = fs["processing"]
           /\ fs'["failed"] = fs["failed"] \/ fs["failed"] = None
  BY DEF FailLink
<1>9. MigratePublish(c) => boots' = boots /\ disk' = disk /\ fs'["failed"] = fs["failed"]
  BY DEF MigratePublish
<1> HIDE NamesDiffer DEF Step, Change, Throw, Finish, files, budget, TypeOK, FilesOK, Entries
<1> QED
  BY <1>1, <1>2, <1>3, <1>4, <1>5, <1>6, <1>7, <1>8, <1>9 DEF ConsumerStep

LEMMA ProducerFrame ==
  ASSUME TypeOK, NEW p \in Producers, Publish(p) \/ ProducerStep(p) \/ ProducerCrash(p)
  PROVE  /\ boots' = boots
         /\ content' = content
              \/ \E i \in Unused : content' = [content EXCEPT ![i] = nextGen]
         /\ fs'["processing"] = fs["processing"]
         /\ fs'["failed"] = fs["failed"]
         /\ disk'["failed"] = disk["failed"]
<1> USE NamesDiffer DEF TypeOK, FilesOK, Entries, files, budget
<1>1. CASE Publish(p)
  BY <1>1 DEF Publish
<1>2. CASE SyncParent(p)
  BY <1>2 DEF SyncParent, Sync, QueueNames
<1>3. CASE AssertPublished(p) \/ WriteRejected(p) \/ SyncParentFails(p) \/ ProducerCrash(p)
  BY <1>3 DEF AssertPublished, WriteRejected, SyncParentFails, ProducerCrash, EndWrite, Step
<1> QED BY <1>1, <1>2, <1>3 DEF ProducerStep

\* The steps that touch no file.
LEMMA QuietFrame ==
  ASSUME \/ \E c \in Consumers : ConsumerCall(c) \/ Crash(c)
         \/ RemoveStaleLock
         \/ UNCHANGED vars
  PROVE  fs' = fs /\ disk' = disk /\ content' = content /\ boots' = boots
BY DEF ConsumerCall, Load, LoadPending, Ack, MoveToFailed, Call, Crash, RemoveStaleLock, vars,
       files, budget

-----------------------------------------------------------------------------
(* Quarantined evidence.                                                   *)

\* Durable evidence is what the name in the failed directory refers to: the
\* strengthening that makes EvidenceKept inductive.
EvidenceStands == disk["failed"] # None => fs["failed"] = disk["failed"]

LEMMA EvidenceNext ==
  ASSUME TypeOK, EvidenceStands, [Next]_vars
  PROVE  EvidenceStands' /\ (disk["failed"] # None => fs'["failed"] = disk["failed"])
<1>1. ASSUME NEW c \in Consumers, ConsumerStep(c)
      PROVE  EvidenceStands' /\ (disk["failed"] # None => fs'["failed"] = disk["failed"])
  <2>1. CASE SyncStep(c)
    BY <2>1, NamesDiffer DEF SyncStep, Sync, EvidenceStands
  <2>2. CASE ~SyncStep(c)
    BY <1>1, <2>2, ConsumerFrame DEF EvidenceStands
  <2> QED BY <2>1, <2>2
<1>2. ASSUME NEW p \in Producers, Publish(p) \/ ProducerStep(p) \/ ProducerCrash(p)
      PROVE  EvidenceStands' /\ (disk["failed"] # None => fs'["failed"] = disk["failed"])
  BY <1>2, ProducerFrame DEF EvidenceStands
<1>3. CASE PowerLoss
  <2>1. PICK K : fs' = Kept(K) /\ disk' = Kept(K)
    BY <1>3 DEF PowerLoss, CrashImages
  <2> QED BY <2>1, NamesDiffer DEF Kept, EvidenceStands
<1> QED BY <1>1, <1>2, <1>3, QuietFrame DEF Next, EvidenceStands

\* Evidence that reached the disk is never replaced or removed again: not by
\* a later quarantine, not by a migration, not by a power loss.
THEOREM EvidenceIsKept == Spec => EvidenceKept
<1>1. Init => EvidenceStands
  BY NamesDiffer DEF Init, EvidenceStands
<1>2. TypeOK /\ EvidenceStands /\ [Next]_vars
        => [\A i \in Inodes : disk["failed"] = i => fs'["failed"] = i]_vars
  BY EvidenceNext, QueueAssumption
<1> QED BY <1>1, <1>2, EvidenceNext, TypeCorrect, PTL DEF Spec, EvidenceKept

-----------------------------------------------------------------------------
(* The claim.                                                              *)

\* The claim's name is free from the test that it is to the link that takes it.
ClaimTargetFree == \A c \in Consumers : At(c, "link") => fs["processing"] = None

\* Only Claim leads to the link of a claim, and it has found the name free.
LEMMA OnlyClaimLinks ==
  ASSUME TypeOK, NEW c \in Consumers, ConsumerStep(c), pc'[c] = "link"
  PROVE  fs["processing"] = None /\ fs' = fs
<1> DEFINE Elsewhere == \E l \in Steps \ {"link"} : Goto(c, l)
<1>1. ~Elsewhere
  BY NextStepType DEF Goto, TypeOK, ControlOK, Steps
<1>2. /\ Returned(c) \in Steps \ {"link"}
      /\ AfterSync(c) \in Steps \ {"link"}
      /\ FirstStep(c) \in Steps \ {"link"}
  BY DEF Returned, AfterSync, FirstStep, Steps, SyncSteps
<1>3. Finish(c) => Elsewhere
  BY DEF Finish, Steps
<1>4. SyncStep(c) \/ AcquireLock(c) => Elsewhere
  BY <1>2 DEF SyncStep, AcquireLock
<1>5. SyncFails(c) \/ LinkRefused(c) \/ LockTimeout(c) \/ RecoverRejects(c) \/ ClaimNothing(c)
        \/ OpenRejects(c) \/ CallbackThrows(c) => Elsewhere
  BY <1>3
     DEF SyncFails, LinkRefused, LockTimeout, RecoverRejects, ClaimNothing, OpenRejects,
         CallbackThrows, Throw
<1>6. Recover(c) => Elsewhere
  BY <1>2 DEF Recover, EmptyRecord, PutBack, Step, Steps, SyncSteps
<1>7. Relink(c) \/ UnlinkEntry(c) \/ RmdirRecord(c) \/ Link(c) \/ Retire(c) \/ MkdirRecord(c)
        \/ TakePending(c) \/ Claimed(c) => Elsewhere
  BY <1>3
     DEF Relink, UnlinkEntry, RmdirRecord, Link, Retire, MkdirRecord, TakePending, Claimed,
         Change, Step, Throw, Steps, SyncSteps
<1>8. Open(c) \/ Read(c) \/ CallbackMigrates(c) \/ CallbackReturns(c) \/ Migrated(c)
        \/ MigrateAssert(c) \/ MigratePublish(c) => Elsewhere
  BY <1>3
     DEF Open, Read, CallbackMigrates, CallbackReturns, Migrated, Return, MigrateAssert,
         MigratePublish, Step, Throw, Steps, SyncSteps
<1>9. AckStart(c) \/ AckVerify(c) \/ AckRename(c) \/ AckUnlink(c) \/ AckDone(c) => Elsewhere
  BY <1>3
     DEF AckStart, AckVerify, AckRename, AckUnlink, AckDone, Settle, Change, Step, Throw, Steps,
         SyncSteps
<1>10. Sweep(c) \/ SweepDone(c) \/ Fail(c) \/ FailVerify(c) \/ FailLink(c) \/ FailUnlink(c)
         \/ FailDone(c) => Elsewhere
  BY <1>3
     DEF Sweep, SweepDone, Fail, FailVerify, FailLink, FailUnlink, FailDone, Settle, Change, Step,
         Throw, Steps, SyncSteps
<1>11. Claim(c)
  BY <1>1, <1>4, <1>5, <1>6, <1>7, <1>8, <1>9, <1>10 DEF ConsumerStep
<1>12. CASE ClaimExisting(c)
  <2>1. Elsewhere
    BY <1>12 DEF ClaimExisting, Step, Steps, SyncSteps
  <2> QED BY <1>1, <2>1
<1>13. CASE fs["processing"] = None /\ Step(c, "link")
  BY <1>13 DEF Step, files
<1> QED BY <1>11, <1>12, <1>13 DEF Claim

LEMMA ClaimTargetNext ==
  ASSUME TypeOK, TransferExclusion, ClaimTargetFree, [Next]_vars
  PROVE  ClaimTargetFree'
<1> SUFFICES ASSUME NEW d \in Consumers, pc'[d] = "link" PROVE fs'["processing"] = None
  BY DEF ClaimTargetFree, At
<1>1. ASSUME NEW c \in Consumers, ConsumerStep(c)
      PROVE  fs'["processing"] = None
  <2>1. CASE c = d
    BY <1>1, <2>1, OnlyClaimLinks
  <2>2. CASE c # d
    <3>1. pc[d] = "link" /\ fs["processing"] = None
      <4>1. \E l : Goto(c, l)
        BY <1>1, StepUnderLock DEF UnderLock, Leaves, AcquireLock
      <4> QED BY <2>2, <4>1 DEF Goto, TypeOK, ControlOK, ClaimTargetFree, At, Procs
    <3>2. pc[c] \in Unlocked
      BY <2>2, <3>1 DEF TransferExclusion, Unlocked
    <3>3. ~Link(c) /\ ~MigratePublish(c)
      BY <3>2 DEF Link, MigratePublish, At, Unlocked
    <3> QED BY <1>1, <3>1, <3>3, ConsumerFrame
  <2> QED BY <2>1, <2>2
<1>2. ASSUME NEW c \in Consumers, ConsumerCall(c) \/ Crash(c)
      PROVE  fs'["processing"] = None
  <2>1. pc[d] = "link"
    BY <1>2
       DEF ConsumerCall, Load, LoadPending, Ack, MoveToFailed, Call, Crash, Goto, TypeOK,
           ControlOK, Procs
  <2> QED BY <1>2, <2>1, QuietFrame DEF ClaimTargetFree, At
<1>3. ASSUME NEW p \in Producers, Publish(p) \/ ProducerStep(p) \/ ProducerCrash(p)
      PROVE  fs'["processing"] = None
  <2>1. \E l : Goto(p, l)
    BY <1>3
       DEF Publish, ProducerStep, ProducerCrash, AssertPublished, WriteRejected, SyncParent,
           SyncParentFails, EndWrite, Step
  <2>2. pc[d] = "link"
    BY <2>1, QueueAssumption DEF Goto, TypeOK, ControlOK, Procs
  <2> QED BY <1>3, <2>2, ProducerFrame DEF ClaimTargetFree, At
<1>4. CASE PowerLoss
  BY <1>4 DEF PowerLoss, Procs
<1>5. CASE RemoveStaleLock \/ UNCHANGED vars
  <2>1. pc' = pc
    BY <1>5 DEF RemoveStaleLock, vars
  <2> QED BY <1>5, <2>1, QuietFrame DEF ClaimTargetFree, At
<1> QED BY <1>1, <1>2, <1>3, <1>4, <1>5 DEF Next

\* A migration publishes what it read, over the claim it read it from.
LEMMA MigrationKeepsGeneration ==
  ASSUME TypeOK, NEW c \in Consumers, MigratePublish(c), fs["processing"] # None
  PROVE  content'[fs'["processing"]] = content[fs["processing"]]
<1>1. fs["processing"] = pin[c]
  BY DEF MigratePublish, AssertCurrent, Links
<1>2. PICK i \in Inodes :
        /\ fs' = [fs EXCEPT !["processing"] = i]
        /\ content' = [content EXCEPT ![i] = Holds(pin[c])]
  BY DEF MigratePublish, Unused
<1> QED BY <1>1, <1>2, NamesDiffer DEF Holds, TypeOK, FilesOK, Entries

\* Between power losses a claim keeps its generation: neither a migration, nor
\* an enqueue, nor another consumer replaces what .processing holds.
THEOREM ClaimIsStable == Spec => ClaimKeepsGeneration
<1>1. Init => ClaimTargetFree
  BY DEF Init, ClaimTargetFree, At, Procs
<1> DEFINE Kept1 == boots' = boots /\ fs["processing"] # None /\ fs'["processing"] # None
                      => content'[fs'["processing"]] = content[fs["processing"]]
<1>2. TypeOK /\ ClaimTargetFree /\ [Next]_vars => Kept1
  <2> SUFFICES ASSUME TypeOK, ClaimTargetFree, [Next]_vars, boots' = boots,
                      fs["processing"] # None, fs'["processing"] # None
               PROVE  content'[fs'["processing"]] = content[fs["processing"]]
    OBVIOUS
  <2>1. ASSUME NEW c \in Consumers, ConsumerStep(c)
        PROVE  content'[fs'["processing"]] = content[fs["processing"]]
    <3>1. ~Link(c)
      BY DEF Link, ClaimTargetFree
    <3> QED BY <2>1, <3>1, ConsumerFrame, MigrationKeepsGeneration
  <2>2. ASSUME NEW p \in Producers, Publish(p) \/ ProducerStep(p) \/ ProducerCrash(p)
        PROVE  content'[fs'["processing"]] = content[fs["processing"]]
    <3>1. \A i \in Unused : i # fs["processing"]
      BY NamesDiffer DEF Unused, Free
    <3> QED BY <2>2, <3>1, ProducerFrame, EntryValue, NamesDiffer DEF TypeOK, FilesOK
  <2>3. ~PowerLoss
    BY DEF PowerLoss, TypeOK, BudgetOK
  <2> QED BY <2>1, <2>2, <2>3, QuietFrame DEF Next
<1> QED
  BY <1>1, <1>2, ClaimTargetNext, TypeCorrect, Exclusion, PTL DEF Spec, ClaimKeepsGeneration

-----------------------------------------------------------------------------
(* A user of the lock service.                                             *)

\* A step takes the free lock, or gives up its own, or leaves the lock alone.
LEMMA ConsumerLock ==
  ASSUME NEW c \in Consumers, ConsumerStep(c)
  PROVE  \/ lock' = lock
         \/ lock = None /\ lock' = c
         \/ lock = c /\ lock' = None
<1> USE DEF Step, Change, Throw, Finish, Unlock
<1>1. CASE SyncStep(c) \/ SyncFails(c) \/ LinkRefused(c) \/ LockTimeout(c) \/ AcquireLock(c)
  BY <1>1 DEF SyncStep, SyncFails, LinkRefused, LockTimeout, AcquireLock
<1>2. CASE Recover(c) \/ RecoverRejects(c) \/ Relink(c) \/ UnlinkEntry(c) \/ RmdirRecord(c)
  BY <1>2 DEF Recover, EmptyRecord, PutBack, RecoverRejects, Relink, UnlinkEntry, RmdirRecord
<1>3. CASE Claim(c) \/ ClaimNothing(c) \/ Link(c) \/ Retire(c) \/ MkdirRecord(c)
             \/ TakePending(c) \/ Claimed(c)
  BY <1>3 DEF Claim, ClaimExisting, ClaimNothing, Link, Retire, MkdirRecord, TakePending, Claimed
<1>4. CASE Open(c) \/ OpenRejects(c) \/ Read(c) \/ CallbackReturns(c) \/ CallbackMigrates(c)
             \/ CallbackThrows(c) \/ MigrateAssert(c) \/ MigratePublish(c) \/ Migrated(c)
  BY <1>4
     DEF Open, OpenRejects, Read, CallbackReturns, CallbackMigrates, CallbackThrows,
         MigrateAssert, MigratePublish, Migrated, Return
<1>5. CASE AckStart(c) \/ AckVerify(c) \/ AckRename(c) \/ AckUnlink(c) \/ AckDone(c)
             \/ Sweep(c) \/ SweepDone(c)
  BY <1>5 DEF AckStart, AckVerify, AckRename, AckUnlink, AckDone, Sweep, SweepDone, Settle
<1>6. CASE Fail(c) \/ FailVerify(c) \/ FailLink(c) \/ FailUnlink(c) \/ FailDone(c)
  BY <1>6 DEF Fail, FailVerify, FailLink, FailUnlink, FailDone, Settle
<1> HIDE DEF Step, Change, Throw, Finish, Unlock
<1> QED BY <1>1, <1>2, <1>3, <1>4, <1>5, <1>6 DEF ConsumerStep

\* What any step does to the lock.
LEMMA LockSteps ==
  ASSUME TypeOK, [Next]_vars
  PROVE  \/ lock' = lock
         \/ lock = None /\ lock' \in Consumers
         \/ lock \in Consumers /\ lock' \in {None, Stale}
         \/ lock = Stale /\ lock' = None
<1>1. ASSUME NEW p \in Producers, Publish(p) \/ ProducerStep(p) \/ ProducerCrash(p)
      PROVE  lock' = lock
  BY <1>1
     DEF Publish, ProducerStep, ProducerCrash, AssertPublished, WriteRejected, SyncParent,
         SyncParentFails, EndWrite, Step
<1>2. ASSUME NEW c \in Consumers, ConsumerCall(c)
      PROVE  lock' = lock
  BY <1>2 DEF ConsumerCall, Load, LoadPending, Ack, MoveToFailed, Call
<1>3. ASSUME NEW c \in Consumers, Crash(c)
      PROVE  lock' = lock \/ (lock = c /\ lock' = Stale)
  BY <1>3 DEF Crash
<1>4. CASE PowerLoss
  BY <1>4 DEF PowerLoss, TypeOK, ControlOK
<1>5. CASE RemoveStaleLock \/ UNCHANGED vars
  BY <1>5 DEF RemoveStaleLock, vars
<1> QED BY <1>1, <1>2, <1>3, <1>4, <1>5, ConsumerLock DEF Next

\* Exclusion in the terms of the service.
LEMMA InsideIsOwner ==
  ASSUME TypeOK, TransferExclusion
  PROVE  Inside = {} \/ (lock \in Consumers /\ Inside = {lock})
BY DEF Inside, TransferExclusion

\* The consumers use the transfer lock as the lock service allows, whatever
\* fails and crashes: a consumer is inside a transition only as the owner, leaves
\* it before or with the release, and the lock of a dead owner becomes free by
\* its recovery alone (withQueueEntryLock).
THEOREM QueueUsesLock == Spec => UsesLock
<1>1. Init => Service!Init
  BY DEF Init, Service!Init, Inside, Unlocked, Procs
<1>2. /\ TypeOK /\ TypeOK'
      /\ TransferExclusion /\ TransferExclusion'
      /\ [Next]_vars
      => [Service!Next]_<<lock, Inside>>
  <2> SUFFICES ASSUME TypeOK, TypeOK', TransferExclusion, TransferExclusion', [Next]_vars
               PROVE  [Service!Next]_<<lock, Inside>>
    OBVIOUS
  <2>1. Inside = {} \/ (lock \in Consumers /\ Inside = {lock})
    BY InsideIsOwner
  <2>2. Inside' = {} \/ (lock' \in Consumers /\ Inside' = {lock'})
    BY DEF Inside, TransferExclusion
  <2>3. None \notin Consumers /\ Stale \notin Consumers
    BY QueueAssumption
  <2>4. CASE lock' = lock /\ lock \notin Consumers
    BY <2>1, <2>2, <2>4
  <2>5. CASE lock' = lock /\ lock \in Consumers
    BY <2>2, <2>5 DEF Service!Next, Service!Enter, Service!Leave
  <2>6. CASE lock = None /\ lock' \in Consumers
    BY <2>2, <2>6 DEF Service!Next, Service!Take
  <2>7. CASE lock \in Consumers /\ lock' \in {None, Stale}
    BY <2>2, <2>3, <2>7 DEF Service!Next, Service!Release, Service!Die
  <2>8. CASE lock = Stale /\ lock' = None
    BY <2>1, <2>2, <2>3, <2>8 DEF Service!Next, Service!Recover
  <2> QED BY <2>4, <2>5, <2>6, <2>7, <2>8, LockSteps
<1> QED BY <1>1, <1>2, TypeCorrect, Exclusion, PTL DEF Spec, UsesLock, Service!Spec

-----------------------------------------------------------------------------
(* The names a transition finds.                                           *)

\* recoverDurableQueueRetirement, up to its return.
Recovering ==
  {"recover", "relink", "resync", "unlinkEntry", "unlinkSync", "rmdirRecord", "recordSync"}

\* From the hardlink of a claim to the rename that retires its source.
Claiming == {"linkSync", "retire", "ensureRoot", "mkdirRecord", "newRecord", "takePending"}

\* A record that holds an entry exists.
RecordStands == fs["entry"] # None => fs["record"] # None

\* What the owner of the lock has established: a claim starts, and a pending
\* file is renamed into the record, with the record's entry gone; an entry is
\* unlinked while what it holds is pending, claimed or replaced; and a claim is
\* given up after the failed directory has it.
Transfer(c) ==
  /\ pc[c] \in {"unlinkSync", "rmdirRecord", "recordSync", "claim", "link"} \cup Claiming
       => fs["entry"] = None
  /\ pc[c] \in Recovering /\ ret[c] = "retire" => fs["entry"] = None
  /\ pc[c] \in {"newRecord", "takePending"} => fs["record"] # None
  /\ pc[c] \in {"takenSync", "retiredSync"} => ret[c] = "claimed"
  /\ At(c, "fail") => ret[c] = "claim"
  /\ At(c, "relink") => fs["entry"] # None
  /\ At(c, "resync") => fs["json"] # None
  /\ At(c, "unlinkEntry") => fs["json"] # None \/ fs["entry"] = fs["processing"]
  /\ pc[c] \in {"failedSync", "failUnlink"} => fs["failed"] = fs["processing"]

TransferOK == RecordStands /\ \A c \in Consumers : Transfer(c)

\* A step of one consumer is not seen in the locals of the others.
LEMMA OthersLocals ==
  ASSUME TypeOK, NEW c \in Consumers, ConsumerStep(c) \/ ConsumerCall(c) \/ Crash(c),
         NEW d \in Consumers \ {c}
  PROVE  pc'[d] = pc[d] /\ ret'[d] = ret[d] /\ pin'[d] = pin[d]
<1> USE DEF Step, Change, Throw, Finish, Goto, Unpin, locals, TypeOK, ControlOK, LocalsOK, Procs
<1>1. CASE SyncStep(c) \/ SyncFails(c) \/ LinkRefused(c) \/ LockTimeout(c) \/ AcquireLock(c)
  BY <1>1 DEF SyncStep, SyncFails, LinkRefused, LockTimeout, AcquireLock
<1>2. CASE Recover(c) \/ RecoverRejects(c) \/ Relink(c) \/ UnlinkEntry(c) \/ RmdirRecord(c)
  BY <1>2 DEF Recover, EmptyRecord, PutBack, RecoverRejects, Relink, UnlinkEntry, RmdirRecord
<1>3. CASE Claim(c) \/ ClaimNothing(c) \/ Link(c) \/ Retire(c) \/ MkdirRecord(c)
             \/ TakePending(c) \/ Claimed(c)
  BY <1>3 DEF Claim, ClaimExisting, ClaimNothing, Link, Retire, MkdirRecord, TakePending, Claimed
<1>4. CASE Open(c) \/ OpenRejects(c) \/ Read(c) \/ CallbackReturns(c) \/ CallbackMigrates(c)
             \/ CallbackThrows(c) \/ MigrateAssert(c) \/ MigratePublish(c) \/ Migrated(c)
  BY <1>4
     DEF Open, OpenRejects, Read, CallbackReturns, CallbackMigrates, CallbackThrows,
         MigrateAssert, MigratePublish, Migrated, Return
<1>5. CASE AckStart(c) \/ AckVerify(c) \/ AckRename(c) \/ AckUnlink(c) \/ AckDone(c)
             \/ Sweep(c) \/ SweepDone(c)
  BY <1>5 DEF AckStart, AckVerify, AckRename, AckUnlink, AckDone, Sweep, SweepDone, Settle
<1>6. CASE Fail(c) \/ FailVerify(c) \/ FailLink(c) \/ FailUnlink(c) \/ FailDone(c)
  BY <1>6 DEF Fail, FailVerify, FailLink, FailUnlink, FailDone, Settle
<1>7. CASE ConsumerCall(c) \/ Crash(c)
  BY <1>7 DEF ConsumerCall, Load, LoadPending, Ack, MoveToFailed, Call, Crash
<1> HIDE DEF Step, Change, Throw, Finish, Goto, Unpin, locals, TypeOK, ControlOK, LocalsOK, Procs
<1> QED BY <1>1, <1>2, <1>3, <1>4, <1>5, <1>6, <1>7 DEF ConsumerStep

\* Without the lock a consumer changes no name and no content.
LEMMA UnlockedChangesNothing ==
  ASSUME NEW c \in Consumers, ConsumerStep(c), pc[c] \in Unlocked
  PROVE  fs' = fs /\ content' = content
<1> USE DEF At, Step, Throw, files, Unlocked
<1>1. CASE SyncStep(c) \/ SyncFails(c) \/ LinkRefused(c) \/ LockTimeout(c) \/ AcquireLock(c)
  BY <1>1 DEF SyncStep, SyncFails, LinkRefused, LockTimeout, AcquireLock
<1>2. CASE Recover(c) \/ RecoverRejects(c) \/ Relink(c) \/ UnlinkEntry(c) \/ RmdirRecord(c)
  BY <1>2 DEF Recover, RecoverRejects, Relink, UnlinkEntry, RmdirRecord
<1>3. CASE Claim(c) \/ ClaimNothing(c) \/ Link(c) \/ Retire(c) \/ MkdirRecord(c)
             \/ TakePending(c) \/ Claimed(c)
  BY <1>3 DEF Claim, ClaimNothing, Link, Retire, MkdirRecord, TakePending, Claimed
<1>4. CASE Open(c) \/ OpenRejects(c) \/ Read(c) \/ CallbackReturns(c) \/ CallbackMigrates(c)
             \/ CallbackThrows(c) \/ MigrateAssert(c) \/ MigratePublish(c) \/ Migrated(c)
  BY <1>4
     DEF Open, OpenRejects, Read, CallbackReturns, CallbackMigrates, CallbackThrows,
         MigrateAssert, MigratePublish, Migrated, Return
<1>5. CASE AckStart(c) \/ AckVerify(c) \/ AckRename(c) \/ AckUnlink(c) \/ AckDone(c)
             \/ Sweep(c) \/ SweepDone(c)
  BY <1>5 DEF AckStart, AckVerify, AckRename, AckUnlink, AckDone, Sweep, SweepDone
<1>6. CASE Fail(c) \/ FailVerify(c) \/ FailLink(c) \/ FailUnlink(c) \/ FailDone(c)
  BY <1>6 DEF Fail, FailVerify, FailLink, FailUnlink, FailDone
<1> HIDE DEF At, Step, Throw, files, Unlocked
<1> QED BY <1>1, <1>2, <1>3, <1>4, <1>5, <1>6 DEF ConsumerStep

\* While one consumer is inside a transition, the others touch no file.
LEMMA OthersStayOut ==
  ASSUME TypeOK, TransferExclusion, NEW c \in Consumers, NEW d \in Consumers \ {c},
         pc[d] \notin Unlocked, ConsumerStep(c) \/ ConsumerCall(c) \/ Crash(c)
  PROVE  fs' = fs /\ content' = content
<1>1. pc[c] \in Unlocked
  BY DEF TransferExclusion
<1> QED BY <1>1, UnlockedChangesNothing, QuietFrame

\* The step that follows each sync.
LEMMA AfterSyncValue ==
  ASSUME NEW c, NEW l, At(c, l)
  PROVE  /\ l = "resync" => AfterSync(c) = "unlinkEntry"
         /\ l = "unlinkSync" => AfterSync(c) = "rmdirRecord"
         /\ l = "recordSync" => AfterSync(c) = Returned(c)
         /\ l = "claimSync" => AfterSync(c) = "claimed"
         /\ l = "linkSync" => AfterSync(c) = "retire"
         /\ l = "ensureRoot" => AfterSync(c) = "mkdirRecord"
         /\ l = "newRecord" => AfterSync(c) = "takePending"
         /\ l = "takenSync" => AfterSync(c) = "retiredSync"
         /\ l = "retiredSync" => AfterSync(c) = "recover"
         /\ l = "migrateSync" => AfterSync(c) = "migrated"
         /\ l = "markerSync" => AfterSync(c) = "ackVerify"
         /\ l = "ackSync" => AfterSync(c) = "ackUnlink"
         /\ l = "ackedSync" => AfterSync(c) = "ackDone"
         /\ l = "ensureFailed" => AfterSync(c) = "lock"
         /\ l = "evidenceSync" => AfterSync(c) = "repairSync"
         /\ l = "repairSync" => AfterSync(c) = "failVerify"
         /\ l = "failedSync" => AfterSync(c) = "failUnlink"
         /\ l = "movedSync" => AfterSync(c) = "failDone"
         /\ l = "sweptSync" => AfterSync(c) = "sweepDone"
BY DEF AfterSync, At

LEMMA ReturnedValue ==
  ASSUME NEW c
  PROVE  /\ ret[c] = "claim" => Returned(c) = "claim"
         /\ ret[c] = "retire" => Returned(c) = "ensureRoot"
         /\ ret[c] = "claimed" => Returned(c) = "claimed"
BY DEF Returned

LEMMA FirstStepValue ==
  ASSUME NEW c
  PROVE  /\ At(c, "migrateLock") => FirstStep(c) = "migrateAssert"
         /\ ~At(c, "migrateLock") /\ op[c] = "ack" => FirstStep(c) = "ack"
         /\ ~At(c, "migrateLock") /\ op[c] = "fail" => FirstStep(c) = "fail"
         /\ ~At(c, "migrateLock") /\ op[c] \notin {"ack", "fail"} => FirstStep(c) \in {"sweep", "recover"}
BY DEF FirstStep

LEMMA TransferStep ==
  ASSUME TypeOK, RecordStands, NEW c \in Consumers, Transfer(c), ConsumerStep(c)
  PROVE  RecordStands' /\ Transfer(c)'
<1> USE NamesDiffer
    DEF Transfer, RecordStands, At, Goto, Step, Change, Recovering, Claiming, TypeOK, ControlOK,
        LocalsOK, FilesOK, Entries, Procs, files, locals
<1>1. ASSUME Finish(c), fs' = fs
      PROVE  RecordStands' /\ Transfer(c)'
  BY <1>1 DEF Finish
<1>2. CASE SyncStep(c)
  BY <1>2, AfterSyncValue, ReturnedValue DEF SyncStep, SyncSteps
<1>3. CASE SyncFails(c) \/ LinkRefused(c) \/ LockTimeout(c) \/ RecoverRejects(c) \/ ClaimNothing(c)
             \/ OpenRejects(c) \/ CallbackThrows(c)
  BY <1>1, <1>3
     DEF SyncFails, LinkRefused, LockTimeout, RecoverRejects, ClaimNothing, OpenRejects,
         CallbackThrows, Throw
<1>4. CASE AcquireLock(c)
  BY <1>4, FirstStepValue DEF AcquireLock
<1>5. CASE Recover(c)
  BY <1>5, ReturnedValue DEF Recover, EmptyRecord, PutBack
<1>6. CASE Relink(c)
  BY <1>1, <1>6 DEF Relink, Throw
<1>7. CASE UnlinkEntry(c) \/ RmdirRecord(c)
  BY <1>7 DEF UnlinkEntry, RmdirRecord
<1>8. CASE Claim(c) \/ Link(c) \/ Retire(c) \/ MkdirRecord(c)
  BY <1>8, QueueAssumption DEF Claim, ClaimExisting, Link, Retire, MkdirRecord
<1>9. CASE TakePending(c)
  BY <1>9 DEF TakePending
<1>10. CASE Claimed(c) \/ Open(c) \/ CallbackMigrates(c)
  BY <1>10 DEF Claimed, Open, CallbackMigrates
<1>11. CASE Read(c) \/ MigrateAssert(c) \/ AckVerify(c)
  BY <1>1, <1>11 DEF Read, MigrateAssert, AckVerify, Throw
<1>12. CASE CallbackReturns(c) \/ Migrated(c)
  BY <1>12 DEF CallbackReturns, Migrated, Return
<1>13. CASE MigratePublish(c)
  BY <1>13 DEF MigratePublish
<1>14. CASE AckStart(c) \/ AckRename(c) \/ AckUnlink(c)
  BY <1>14 DEF AckStart, AckRename, AckUnlink
<1>15. CASE AckDone(c) \/ FailVerify(c) \/ FailDone(c)
  BY <1>1, <1>15 DEF AckDone, FailVerify, FailDone, Settle, Throw
<1>16. CASE Sweep(c) \/ SweepDone(c)
  BY <1>1, <1>16 DEF Sweep, SweepDone, Throw
<1>17. CASE Fail(c) \/ FailUnlink(c)
  BY <1>17 DEF Fail, FailUnlink
<1>18. CASE FailLink(c)
  BY <1>1, <1>18 DEF FailLink, Throw
<1> HIDE DEF Transfer, RecordStands, At, Goto, Step, Change, Recovering, Claiming, TypeOK,
             ControlOK, LocalsOK, FilesOK, Entries, Procs, files, locals
<1> QED
  BY <1>2, <1>3, <1>4, <1>5, <1>6, <1>7, <1>8, <1>9, <1>10, <1>11, <1>12, <1>13, <1>14, <1>15,
     <1>16, <1>17, <1>18
     DEF ConsumerStep

\* What Transfer says of a consumer depends on its locals and on the names.
LEMMA TransferFrame ==
  ASSUME NEW c \in Consumers, Transfer(c), pc'[c] = pc[c], ret'[c] = ret[c],
         pc[c] \in Unlocked \/ fs' = fs
  PROVE  Transfer(c)'
BY DEF Transfer, Recovering, Claiming, Unlocked, At

LEMMA TransferElsewhere ==
  ASSUME NEW c \in Consumers, pc'[c] \in Unlocked
  PROVE  Transfer(c)'
BY DEF Transfer, Recovering, Claiming, Unlocked, At

\* A producer replaces the pending file and leaves the consumers alone.
LEMMA ProducerNames ==
  ASSUME TypeOK, NEW p \in Producers, Publish(p) \/ ProducerStep(p) \/ ProducerCrash(p)
  PROVE  /\ \A c \in Consumers : pc'[c] = pc[c] /\ pin'[c] = pin[c]
         /\ op' = op /\ ret' = ret /\ got' = got /\ verdict' = verdict
         /\ \/ fs' = fs /\ content' = content /\ nextGen' = nextGen /\ published' = published
            \/ Publish(p) /\ \E i \in Unused :
                 /\ fs' = [fs EXCEPT !["json"] = i]
                 /\ content' = [content EXCEPT ![i] = nextGen]
<1>1. \A c \in Consumers : c # p
  BY QueueAssumption
<1>2. CASE Publish(p)
  BY <1>1, <1>2 DEF Publish, Goto, TypeOK, ControlOK, Procs, locals
<1>3. CASE ProducerStep(p) \/ ProducerCrash(p)
  BY <1>1, <1>3
     DEF ProducerStep, ProducerCrash, AssertPublished, WriteRejected, SyncParent, SyncParentFails,
         EndWrite, Step, Unpin, Goto, Fault, TypeOK, ControlOK, Procs, locals, files, history, budget
<1> QED BY <1>2, <1>3

LEMMA TransferNext ==
  ASSUME TypeOK, TransferExclusion, TransferOK, [Next]_vars
  PROVE  TransferOK'
<1>1. ASSUME NEW c \in Consumers, ConsumerStep(c)
      PROVE  TransferOK'
  <2>1. RecordStands' /\ Transfer(c)'
    BY <1>1, TransferStep DEF TransferOK
  <2>2. ASSUME NEW d \in Consumers \ {c}
        PROVE  Transfer(d)'
    <3>1. pc'[d] = pc[d] /\ ret'[d] = ret[d]
      BY <1>1, OthersLocals
    <3>2. pc[d] \in Unlocked \/ fs' = fs
      BY <1>1, OthersStayOut
    <3> QED BY <3>1, <3>2, TransferFrame DEF TransferOK
  <2> QED BY <2>1, <2>2 DEF TransferOK
<1>2. ASSUME NEW c \in Consumers, ConsumerCall(c) \/ Crash(c)
      PROVE  TransferOK'
  <2>1. pc'[c] \in Unlocked
    BY <1>2
       DEF ConsumerCall, Load, LoadPending, Ack, MoveToFailed, Call, Crash, Goto, Unlocked,
           TypeOK, ControlOK, Procs
  <2>2. \A d \in Consumers \ {c} : pc'[d] = pc[d] /\ ret'[d] = ret[d]
    BY <1>2, OthersLocals
  <2>3. fs' = fs
    BY <1>2, QuietFrame
  <2> QED BY <2>1, <2>2, <2>3, TransferFrame, TransferElsewhere DEF TransferOK, RecordStands
<1>3. ASSUME NEW p \in Producers, Publish(p) \/ ProducerStep(p) \/ ProducerCrash(p)
      PROVE  TransferOK'
  <2>1. \A c \in Consumers : pc'[c] = pc[c]
    BY <1>3, ProducerNames
  <2>2. ret' = ret
    BY <1>3, ProducerNames
  <2>3. CASE fs' = fs
    BY <2>1, <2>2, <2>3, TransferFrame DEF TransferOK, RecordStands
  <2>4. CASE \E i \in Unused : fs' = [fs EXCEPT !["json"] = i]
    <3>1. \A n \in Names \ {"json"} : fs'[n] = fs[n]
      BY <2>4, NamesDiffer DEF TypeOK, FilesOK, Entries
    <3>2. fs'["json"] # None
      BY <2>4, NamesDiffer, QueueAssumption DEF TypeOK, FilesOK, Entries, Unused
    <3> QED
      BY <2>1, <2>2, <3>1, <3>2, NamesDiffer DEF TransferOK, Transfer, RecordStands, At
  <2> QED BY <1>3, <2>3, <2>4, ProducerNames
<1>4. CASE PowerLoss
  <2>1. \A c \in Consumers : pc'[c] \in Unlocked
    BY <1>4 DEF PowerLoss, Unlocked, Procs
  <2>2. fs' \in CrashImages
    BY <1>4 DEF PowerLoss
  <2>3. RecordStands'
    BY <2>2 DEF CrashImages, RecordStands
  <2> QED BY <2>1, <2>3, TransferElsewhere DEF TransferOK
<1>5. CASE RemoveStaleLock \/ UNCHANGED vars
  BY <1>5, TransferFrame DEF RemoveStaleLock, vars, files, locals, TransferOK, RecordStands
<1> QED BY <1>1, <1>2, <1>3, <1>4, <1>5 DEF Next

LEMMA TransferInit == Init => TransferOK
BY NamesDiffer DEF Init, TransferOK, Transfer, RecordStands, Recovering, Claiming, At, Procs

\* Between two steps of a transition the names stay as its tests found them,
\* whatever producers, other consumers and power losses do meanwhile.
THEOREM TransferHolds == Spec => []TransferOK
BY TransferInit, TransferNext, TypeCorrect, Exclusion, PTL DEF Spec

-----------------------------------------------------------------------------
(* No entry is lost while the power stays on.                              *)

PowerStaysOn == "power" \notin FaultKinds

\* From the open of a claim to the return of its callback.
Reading ==
  {"read", "callback", "migrateLock", "migrateAssert", "migratePublish", "migrateSync", "migrated"}

\* A generation some consumer has read, or is about to return.
Seen(g) == g \in loaded \/ \E c \in Consumers : pc[c] \in Reading /\ g = Holds(pin[c])

\* Generations are numbered in the order of the enqueues.
Numbered ==
  /\ published = 1..(nextGen - 1)
  /\ \A g \in enqueued : g < nextGen
  /\ \A i \in Inodes : content[i] < nextGen

\* A file of the queue holds a generation.
Filled == \A n \in FileNames : fs[n] # None => Gen(n) # 0

\* What is pending, or was taken while pending, is one file: no other file has
\* its generation.
Alone ==
  \A n \in {"json", "entry"}, m \in FileNames :
    fs[n] # None /\ fs[m] \notin {None, fs[n]} => Gen(m) # Gen(n)

\* The entry of a record is older than a pending file beside it.
InOrder == fs["entry"] # None /\ fs["json"] \notin {None, fs["entry"]} => Gen("entry") < Gen("json")

\* What a consumer has read never is pending again, and stays until it is
\* acknowledged or is evidence.
SeenKept ==
  \A g \in Gens \cup {0} :
    Seen(g) => /\ g # 0 /\ g < nextGen
               /\ Gen("json") # g /\ Gen("entry") # g
               /\ g \in acked \/ Gen("processing") = g \/ Gen("failed") = g

DeliveredIsAcked == fs["delivered"] # None => Gen("delivered") \in acked

\* The last generation enqueued still has a name, if nobody has read it.
LastIsPresent ==
  \A g \in enqueued : g \in acked \cup loaded \/ Present(g) \/ g < nextGen - 1

EntriesKept ==
  Numbered /\ Filled /\ Alone /\ InOrder /\ SeenKept /\ DeliveredIsAcked /\ LastIsPresent

LEMMA GenType ==
  ASSUME TypeOK
  PROVE  \A n \in FileNames : Gen(n) \in Nat /\ Gen(n) \in Gens \cup {0}
<1> SUFFICES ASSUME NEW n \in FileNames PROVE Gen(n) \in Nat /\ Gen(n) \in Gens \cup {0}
  OBVIOUS
<1>1. fs[n] \in Inodes \cup {None}
  BY EntryValue DEF TypeOK, FilesOK
<1>2. Gen(n) \in Gens \cup {0}
  BY <1>1, HoldsType DEF Gen, TypeOK, FilesOK
<1> QED BY <1>2, QueueAssumption DEF Gens

LEMMA KeptNotLost ==
  ASSUME TypeOK, EntriesKept
  PROVE  NoEntryLost
<1> SUFFICES ASSUME NEW g \in enqueued \ acked
             PROVE  Present(g) \/ (g \notin loaded /\ \E h \in published : h > g)
  BY DEF NoEntryLost
<1>1. g \in Gens \cup {0} /\ g \in Nat
  BY QueueAssumption DEF TypeOK, HistoryOK, Gens
<1>2. CASE g \in loaded
  BY <1>1, <1>2, NamesDiffer DEF EntriesKept, SeenKept, Seen, Present
<1>3. CASE g \notin loaded /\ ~Present(g)
  <2>1. nextGen \in Nat /\ g < nextGen - 1
    BY <1>3, QueueAssumption DEF EntriesKept, LastIsPresent, TypeOK, BudgetOK
  <2>2. nextGen - 1 \in published /\ nextGen - 1 > g
    BY <1>1, <2>1 DEF EntriesKept, Numbered
  <2> QED BY <1>3, <2>2
<1> QED BY <1>2, <1>3

LEMMA KeptInit == Init => EntriesKept
<1> SUFFICES ASSUME Init PROVE EntriesKept
  OBVIOUS
<1>1. \A n \in FileNames : fs[n] = None
  BY NamesDiffer DEF Init
<1>2. Numbered
  BY DEF Init, Numbered
<1>3. \A g : ~Seen(g)
  BY DEF Init, Seen, Reading, Procs
<1>4. Filled /\ Alone /\ InOrder /\ DeliveredIsAcked
  BY <1>1, NamesDiffer DEF Filled, Alone, InOrder, DeliveredIsAcked
<1> QED BY <1>2, <1>3, <1>4 DEF EntriesKept, SeenKept, LastIsPresent, Init

\* What a step has to leave of the names for EntriesKept.
NamesKept ==
  /\ Filled' /\ Alone' /\ InOrder' /\ DeliveredIsAcked'
  /\ \A i \in Inodes : content'[i] < nextGen
  /\ \A g \in Nat \ {0} :
       /\ Present(g) => Present(g)' \/ g \in acked' \/ g < nextGen - 1
       /\ Gen("json")' = g \/ Gen("entry")' = g => Gen("json") = g \/ Gen("entry") = g
       /\ Gen("processing") = g => Gen("processing")' = g \/ Gen("failed")' = g \/ g \in acked'
       /\ Gen("failed") = g => Gen("failed")' = g

\* The names and the contents are what NamesKept depends on.
LEMMA SameNames ==
  ASSUME EntriesKept, \A n \in FileNames : fs'[n] = fs[n], content' = content, acked' = acked
  PROVE  NamesKept
<1>1. \A n \in FileNames : Gen(n)' = Gen(n)
  BY DEF Gen, Holds
<1> QED
  BY <1>1, NamesDiffer
     DEF NamesKept, EntriesKept, Numbered, Filled, Alone, InOrder, DeliveredIsAcked, Present

\* A consumer's step leaves the names alone or is one of those that move them.
LEMMA NameSteps ==
  ASSUME TypeOK, NEW c \in Consumers, ConsumerStep(c)
  PROVE  /\ \/ (\A n \in FileNames : fs'[n] = fs[n]) /\ content' = content /\ acked' = acked
            \/ Relink(c) \/ UnlinkEntry(c) \/ Link(c) \/ TakePending(c) \/ MigratePublish(c)
            \/ AckStart(c) \/ AckRename(c) \/ AckUnlink(c) \/ Sweep(c)
            \/ FailLink(c) \/ FailUnlink(c)
         /\ nextGen' = nextGen /\ published' = published /\ enqueued' = enqueued
<1> USE NamesDiffer
    DEF Step, Change, Throw, Finish, TypeOK, FilesOK, Entries, files, budget, history
<1>1. CASE SyncStep(c) \/ SyncFails(c) \/ LinkRefused(c) \/ LockTimeout(c) \/ AcquireLock(c)
  BY <1>1 DEF SyncStep, SyncFails, LinkRefused, LockTimeout, AcquireLock
<1>2. CASE Recover(c) \/ RecoverRejects(c) \/ RmdirRecord(c)
  BY <1>2 DEF Recover, EmptyRecord, PutBack, RecoverRejects, RmdirRecord
<1>3. CASE Claim(c) \/ ClaimNothing(c) \/ Retire(c) \/ MkdirRecord(c) \/ Claimed(c)
  BY <1>3 DEF Claim, ClaimExisting, ClaimNothing, Retire, MkdirRecord, Claimed
<1>4. CASE Open(c) \/ OpenRejects(c) \/ Read(c) \/ CallbackReturns(c) \/ CallbackMigrates(c)
             \/ CallbackThrows(c) \/ MigrateAssert(c) \/ Migrated(c)
  BY <1>4
     DEF Open, OpenRejects, Read, CallbackReturns, CallbackMigrates, CallbackThrows,
         MigrateAssert, Migrated, Return
<1>5. CASE AckVerify(c) \/ AckDone(c) \/ SweepDone(c) \/ Fail(c) \/ FailVerify(c) \/ FailDone(c)
  BY <1>5 DEF AckVerify, AckDone, SweepDone, Fail, FailVerify, FailDone, Settle
<1>6. CASE Relink(c) \/ UnlinkEntry(c) \/ Link(c) \/ TakePending(c) \/ MigratePublish(c)
  BY <1>6 DEF Relink, UnlinkEntry, Link, TakePending, MigratePublish
<1>7. CASE AckStart(c) \/ AckRename(c) \/ AckUnlink(c) \/ Sweep(c) \/ FailLink(c) \/ FailUnlink(c)
  BY <1>7 DEF AckStart, AckRename, AckUnlink, Sweep, FailLink, FailUnlink
<1> HIDE DEF Step, Change, Throw, Finish, TypeOK, FilesOK, Entries, files, budget, history
<1> QED BY <1>1, <1>2, <1>3, <1>4, <1>5, <1>6, <1>7 DEF ConsumerStep

\* Each of the steps that move names keeps what EntriesKept says of them.
LEMMA MoveKept ==
  ASSUME TypeOK, NEW c \in Consumers, Transfer(c), ClaimTargetFree, EntriesKept,
         \/ Relink(c) \/ UnlinkEntry(c) \/ Link(c) \/ TakePending(c)
         \/ AckStart(c) \/ AckRename(c) \/ AckUnlink(c) \/ Sweep(c)
         \/ FailLink(c) \/ FailUnlink(c)
  PROVE  NamesKept
<1>1. content' = content
  BY DEF Relink, UnlinkEntry, Link, TakePending, AckStart, AckRename, AckUnlink, Sweep, FailLink,
         FailUnlink, Change, Step, Throw, Finish, files
<1>2. /\ \A n, m \in FileNames : fs'[n] = fs[m] => Gen(n)' = Gen(m)
      /\ \A n \in FileNames : fs'[n] = None => Gen(n)' = 0
      /\ \A n \in FileNames : fs[n] = None => Gen(n) = 0
  BY <1>1 DEF Gen, Holds
<1>3. \A n \in FileNames : Gen(n) \in Nat /\ (fs[n] # None => Gen(n) # 0 /\ Gen(n) < nextGen)
  <2>1. \A n \in FileNames : fs[n] # None => fs[n] \in Inodes /\ Gen(n) = content[fs[n]]
    BY EntryValue DEF TypeOK, FilesOK, Gen, Holds
  <2> QED BY <2>1, GenType DEF EntriesKept, Numbered, Filled
<1>4. /\ \A i \in Inodes : content'[i] < nextGen
      /\ nextGen \in Nat
  BY <1>1, QueueAssumption DEF EntriesKept, Numbered, TypeOK, BudgetOK
<1>5. Filled /\ Alone /\ InOrder /\ DeliveredIsAcked
  BY DEF EntriesKept
<1>7. CASE (\A n \in FileNames : fs'[n] = fs[n]) /\ acked' = acked
  BY <1>1, <1>7, SameNames
<1> USE NamesDiffer DEF Change, Step, Throw, Finish, files, history, TypeOK, FilesOK, Entries
<1>8. CASE Relink(c)
  <2>1. CASE fs["json"] # None
    BY <1>7, <1>8, <2>1 DEF Relink
  <2>2. CASE fs["json"] = None
    <3>1. /\ fs'["json"] = fs["entry"] /\ fs'["entry"] = fs["entry"]
          /\ fs'["processing"] = fs["processing"] /\ fs'["delivered"] = fs["delivered"]
          /\ fs'["failed"] = fs["failed"] /\ acked' = acked
      BY <1>8, <2>2 DEF Relink
    <3>2. /\ Gen("json")' = Gen("entry") /\ Gen("entry")' = Gen("entry")
          /\ Gen("processing")' = Gen("processing") /\ Gen("delivered")' = Gen("delivered")
          /\ Gen("failed")' = Gen("failed") /\ Gen("json") = 0
      BY <1>2, <2>2, <3>1
    <3>3. Filled' /\ Alone' /\ InOrder' /\ DeliveredIsAcked'
      BY <1>5, <3>1, <3>2 DEF Filled, Alone, InOrder, DeliveredIsAcked
    <3> QED BY <1>4, <3>2, <3>3 DEF NamesKept, Present
  <2> QED BY <2>1, <2>2
<1>9. CASE UnlinkEntry(c)
  <2>1. /\ fs'["json"] = fs["json"] /\ fs'["processing"] = fs["processing"]
        /\ fs'["delivered"] = fs["delivered"] /\ fs'["entry"] = None
        /\ fs'["failed"] = fs["failed"]
    BY <1>9 DEF UnlinkEntry
  <2>2. /\ Gen("json")' = Gen("json") /\ Gen("processing")' = Gen("processing")
        /\ Gen("delivered")' = Gen("delivered") /\ Gen("entry")' = 0
        /\ Gen("failed")' = Gen("failed")
    BY <1>2, <2>1
  <2>3. acked' = acked /\ (fs["json"] # None \/ fs["entry"] = fs["processing"])
    BY <1>9 DEF UnlinkEntry, Transfer, At
  <2>4. Filled' /\ Alone' /\ InOrder' /\ DeliveredIsAcked'
    BY <1>5, <2>1, <2>2, <2>3 DEF Filled, Alone, InOrder, DeliveredIsAcked
  <2>5. Gen("entry") = 0 \/ Gen("entry") \in {Gen("json"), Gen("processing")} \/ Gen("entry") < nextGen - 1
    <3>1. CASE fs["entry"] \in {fs["json"], fs["processing"]}
      BY <3>1 DEF Gen
    <3>2. CASE fs["entry"] # None /\ fs["json"] \notin {None, fs["entry"]}
      BY <1>3, <1>4, <1>5, <3>2 DEF InOrder
    <3> QED BY <1>2, <2>3, <3>1, <3>2
  <2> QED BY <1>4, <2>2, <2>3, <2>4, <2>5 DEF NamesKept, Present
<1>10. CASE Link(c)
  <2>1. /\ fs'["json"] = fs["json"] /\ fs'["processing"] = fs["json"]
        /\ fs'["delivered"] = fs["delivered"] /\ fs'["entry"] = fs["entry"]
        /\ fs'["failed"] = fs["failed"]
    BY <1>10 DEF Link
  <2>2. /\ Gen("json")' = Gen("json") /\ Gen("processing")' = Gen("json")
        /\ Gen("delivered")' = Gen("delivered") /\ Gen("entry")' = Gen("entry")
        /\ Gen("failed")' = Gen("failed")
    BY <1>2, <2>1
  <2>3. acked' = acked /\ Gen("processing") = 0
    BY <1>2, <1>10 DEF Link, ClaimTargetFree
  <2>4. Filled' /\ Alone' /\ InOrder' /\ DeliveredIsAcked'
    BY <1>5, <2>1, <2>2, <2>3 DEF Filled, Alone, InOrder, DeliveredIsAcked
  <2> QED BY <1>4, <2>2, <2>3, <2>4 DEF NamesKept, Present
<1>11. CASE TakePending(c)
  <2>1. CASE fs["json"] = None
    BY <1>7, <1>11, <2>1 DEF TakePending
  <2>2. CASE fs["json"] # None
    <3>1. /\ fs'["json"] = None /\ fs'["processing"] = fs["processing"]
          /\ fs'["delivered"] = fs["delivered"] /\ fs'["entry"] = fs["json"]
          /\ fs'["failed"] = fs["failed"]
      BY <1>11, <2>2 DEF TakePending
    <3>2. /\ Gen("json")' = 0 /\ Gen("processing")' = Gen("processing")
          /\ Gen("delivered")' = Gen("delivered") /\ Gen("entry")' = Gen("json")
          /\ Gen("failed")' = Gen("failed")
      BY <1>2, <3>1
    <3>3. acked' = acked /\ Gen("entry") = 0
      BY <1>2, <1>11 DEF TakePending, Transfer, Claiming, At
    <3>4. Filled' /\ Alone' /\ InOrder' /\ DeliveredIsAcked'
      BY <1>5, <3>1, <3>2, <3>3 DEF Filled, Alone, InOrder, DeliveredIsAcked
    <3> QED BY <1>4, <3>2, <3>3, <3>4 DEF NamesKept, Present
  <2> QED BY <2>1, <2>2
<1>12. CASE AckStart(c) \/ AckUnlink(c) \/ (Sweep(c) /\ fs["delivered"] # None)
  <2>1. /\ fs'["json"] = fs["json"] /\ fs'["processing"] = fs["processing"]
        /\ fs'["delivered"] = None /\ fs'["entry"] = fs["entry"] /\ fs'["failed"] = fs["failed"]
    BY <1>12 DEF AckStart, AckUnlink, Sweep
  <2>2. /\ Gen("json")' = Gen("json") /\ Gen("processing")' = Gen("processing")
        /\ Gen("delivered")' = 0 /\ Gen("entry")' = Gen("entry")
        /\ Gen("failed")' = Gen("failed")
    BY <1>2, <2>1
  <2>3. acked' = acked
    BY <1>12 DEF AckStart, AckUnlink, Sweep
  <2>4. Filled' /\ Alone' /\ InOrder' /\ DeliveredIsAcked'
    BY <1>5, <2>1, <2>2, <2>3 DEF Filled, Alone, InOrder, DeliveredIsAcked
  <2>5. Gen("delivered") = 0 \/ Gen("delivered") \in acked
    BY <1>2, <1>5 DEF DeliveredIsAcked
  <2> QED BY <1>4, <2>2, <2>3, <2>4, <2>5 DEF NamesKept, Present
<1>13. CASE Sweep(c) /\ fs["delivered"] = None
  BY <1>7, <1>13 DEF Sweep
<1>14. CASE AckRename(c)
  <2>1. /\ fs'["json"] = fs["json"] /\ fs'["processing"] = None
        /\ fs'["delivered"] = fs["processing"] /\ fs'["entry"] = fs["entry"]
        /\ fs'["failed"] = fs["failed"]
    BY <1>14 DEF AckRename
  <2>2. /\ Gen("json")' = Gen("json") /\ Gen("processing")' = 0
        /\ Gen("delivered")' = Gen("processing") /\ Gen("entry")' = Gen("entry")
        /\ Gen("failed")' = Gen("failed")
    BY <1>2, <2>1
  <2>3. acked' = acked \cup {Gen("processing")}
    BY <1>14 DEF AckRename
  <2>4. Filled' /\ Alone' /\ InOrder' /\ DeliveredIsAcked'
    BY <1>5, <2>1, <2>2, <2>3 DEF Filled, Alone, InOrder, DeliveredIsAcked
  <2>5. Gen("delivered") = 0 \/ Gen("delivered") \in acked
    BY <1>2, <1>5 DEF DeliveredIsAcked
  <2> QED BY <1>4, <2>2, <2>3, <2>4, <2>5 DEF NamesKept, Present
<1>15. CASE FailLink(c) /\ fs["failed"] # None
  BY <1>7, <1>15 DEF FailLink
<1>16. CASE FailLink(c) /\ fs["failed"] = None
  <2>1. /\ fs'["json"] = fs["json"] /\ fs'["processing"] = fs["processing"]
        /\ fs'["delivered"] = fs["delivered"] /\ fs'["entry"] = fs["entry"]
        /\ fs'["failed"] = fs["processing"]
    BY <1>16 DEF FailLink
  <2>2. /\ Gen("json")' = Gen("json") /\ Gen("processing")' = Gen("processing")
        /\ Gen("delivered")' = Gen("delivered") /\ Gen("entry")' = Gen("entry")
        /\ Gen("failed")' = Gen("processing")
    BY <1>2, <2>1
  <2>3. acked' = acked /\ Gen("failed") = 0
    BY <1>2, <1>16 DEF FailLink
  <2>4. Filled' /\ Alone' /\ InOrder' /\ DeliveredIsAcked'
    BY <1>5, <2>1, <2>2, <2>3 DEF Filled, Alone, InOrder, DeliveredIsAcked
  <2> QED BY <1>4, <2>2, <2>3, <2>4 DEF NamesKept, Present
<1>17. CASE FailUnlink(c)
  <2>1. /\ fs'["json"] = fs["json"] /\ fs'["processing"] = None
        /\ fs'["delivered"] = fs["delivered"] /\ fs'["entry"] = fs["entry"]
        /\ fs'["failed"] = fs["failed"]
    BY <1>17 DEF FailUnlink
  <2>2. /\ Gen("json")' = Gen("json") /\ Gen("processing")' = 0
        /\ Gen("delivered")' = Gen("delivered") /\ Gen("entry")' = Gen("entry")
        /\ Gen("failed")' = Gen("failed")
    BY <1>2, <2>1
  <2>3. acked' = acked /\ fs["failed"] = fs["processing"] /\ Gen("failed") = Gen("processing")
    BY <1>17 DEF FailUnlink, Transfer, Gen, At
  <2>4. Filled' /\ Alone' /\ InOrder' /\ DeliveredIsAcked'
    BY <1>5, <2>1, <2>2, <2>3 DEF Filled, Alone, InOrder, DeliveredIsAcked
  <2> QED BY <1>4, <2>2, <2>3, <2>4 DEF NamesKept, Present
<1> HIDE DEF Change, Step, Throw, Finish, files, history, TypeOK, FilesOK, Entries
<1> QED BY <1>8, <1>9, <1>10, <1>11, <1>12, <1>13, <1>14, <1>15, <1>16, <1>17

\* What a new file does to the generations of the others, and of descriptors.
LEMMA NewFile ==
  ASSUME TypeOK, NEW i \in Unused, NEW g \in Nat, content' = [content EXCEPT ![i] = g]
  PROVE  /\ i \in Inodes /\ i # None
         /\ content'[i] = g
         /\ \A n, m \in FileNames : fs'[n] = fs[m] => Gen(n)' = Gen(m)
         /\ \A n \in FileNames : fs'[n] = i => Gen(n)' = g
         /\ \A p \in Procs : pin'[p] = pin[p] => Holds(pin[p])' = Holds(pin[p])
<1>1. i \in Inodes /\ i # None /\ \A n \in FileNames : fs[n] # i
  BY QueueAssumption DEF Unused, Free
<1>2. \A p \in Procs : pin[p] # i
  BY DEF Unused
<1>3. \A j : j # i => content'[j] = content[j]
  BY <1>1 DEF TypeOK, FilesOK
<1> QED BY <1>1, <1>2, <1>3 DEF Gen, Holds, TypeOK, FilesOK

LEMMA MigrateKept ==
  ASSUME TypeOK, NEW c \in Consumers, EntriesKept, MigratePublish(c)
  PROVE  NamesKept
<1>1. PICK i \in Unused :
        /\ fs' = [fs EXCEPT !["processing"] = i]
        /\ content' = [content EXCEPT ![i] = Holds(pin[c])]
  BY DEF MigratePublish
<1>2. /\ fs'["processing"] = i /\ fs'["json"] = fs["json"] /\ fs'["entry"] = fs["entry"]
      /\ fs'["delivered"] = fs["delivered"] /\ fs'["failed"] = fs["failed"]
  BY <1>1, NamesDiffer DEF TypeOK, FilesOK, Entries
<1>3. /\ acked' = acked
      /\ fs["processing"] = pin[c] /\ fs["json"] # pin[c] /\ fs["entry"] # pin[c]
      /\ Gen("processing") = Holds(pin[c])
  BY NamesDiffer DEF MigratePublish, AssertCurrent, Links, history, Gen
<1>4. Filled /\ Alone /\ InOrder /\ DeliveredIsAcked /\ \A j \in Inodes : content[j] < nextGen
  BY DEF EntriesKept, Numbered
<1>5. Gen("processing") \in Nat /\ Gen("processing") < nextGen /\ nextGen \in Nat
  <2>1. nextGen \in Nat /\ 0 < nextGen
    BY QueueAssumption DEF TypeOK, BudgetOK
  <2>2. Gen("processing") = 0 \/ Gen("processing") = content[fs["processing"]]
    BY DEF Gen, Holds
  <2>3. fs["processing"] \in Inodes \/ Gen("processing") = 0
    BY NamesDiffer, EntryValue DEF TypeOK, FilesOK, Gen, Holds
  <2> QED BY <1>4, <2>1, <2>2, <2>3, GenType, NamesDiffer
<1>6. /\ i \in Inodes /\ i # None /\ content'[i] = Gen("processing")
      /\ Gen("processing")' = Gen("processing") /\ Gen("json")' = Gen("json")
      /\ Gen("entry")' = Gen("entry") /\ Gen("delivered")' = Gen("delivered")
      /\ Gen("failed")' = Gen("failed")
  BY <1>1, <1>2, <1>3, <1>5, NewFile, NamesDiffer
<1>7. CASE fs["processing"] = None
  <2>1. Seen(Holds(pin[c]))
    BY DEF MigratePublish, At, Seen, Reading
  <2>2. Holds(pin[c]) \in Gens \cup {0}
    BY HoldsType DEF TypeOK, FilesOK, ControlOK, Procs
  <2>3. Holds(pin[c]) # 0
    BY <2>1, <2>2 DEF EntriesKept, SeenKept
  <2> QED BY <1>3, <1>7, <2>3 DEF Holds
<1>8. CASE fs["processing"] # None
  <2>1. Filled' /\ Alone' /\ InOrder' /\ DeliveredIsAcked'
    BY <1>2, <1>3, <1>4, <1>6, <1>8, NamesDiffer DEF Filled, Alone, InOrder, DeliveredIsAcked
  <2>2. \A j \in Inodes : content'[j] < nextGen
    BY <1>1, <1>4, <1>5, <1>6 DEF TypeOK, FilesOK
  <2> QED BY <1>3, <1>6, <2>1, <2>2, NamesDiffer DEF NamesKept, Present
<1> QED BY <1>7, <1>8

LEMMA ConsumerNamesKept ==
  ASSUME TypeOK, TransferOK, ClaimTargetFree, EntriesKept, NEW c \in Consumers, ConsumerStep(c)
  PROVE  NamesKept
BY NameSteps, SameNames, MoveKept, MigrateKept DEF TransferOK

\* A load returns what it has read, and reads what it has opened.
LEMMA ReadingStep ==
  ASSUME TypeOK, NEW c \in Consumers, ConsumerStep(c) \/ ConsumerCall(c) \/ Crash(c)
  PROVE  /\ loaded' = loaded \/ (loaded' = loaded \cup {Holds(pin[c])} /\ pc[c] \in Reading)
         /\ pc'[c] \in Reading => (pc[c] \in Reading /\ pin'[c] = pin[c]) \/ Open(c)
<1> USE DEF Step, Change, Throw, Finish, Goto, At, Reading, history, TypeOK, ControlOK, LocalsOK, Procs
<1>1. CASE SyncStep(c)
  BY <1>1, AfterSyncValue, ReturnedValue DEF SyncStep, SyncSteps
<1>2. CASE SyncFails(c) \/ LinkRefused(c) \/ LockTimeout(c)
  BY <1>2 DEF SyncFails, LinkRefused, LockTimeout
<1>3. CASE AcquireLock(c)
  BY <1>3, FirstStepValue DEF AcquireLock
<1>4. CASE Recover(c) \/ RecoverRejects(c) \/ Relink(c) \/ UnlinkEntry(c) \/ RmdirRecord(c)
  BY <1>4, ReturnedValue
     DEF Recover, EmptyRecord, PutBack, RecoverRejects, Relink, UnlinkEntry, RmdirRecord
<1>5. CASE Claim(c) \/ ClaimNothing(c) \/ Link(c) \/ Retire(c) \/ MkdirRecord(c)
             \/ TakePending(c) \/ Claimed(c)
  BY <1>5 DEF Claim, ClaimExisting, ClaimNothing, Link, Retire, MkdirRecord, TakePending, Claimed
<1>6. CASE OpenRejects(c) \/ Read(c) \/ CallbackReturns(c) \/ CallbackMigrates(c)
             \/ CallbackThrows(c) \/ MigrateAssert(c) \/ MigratePublish(c) \/ Migrated(c)
  BY <1>6
     DEF OpenRejects, Read, CallbackReturns, CallbackMigrates, CallbackThrows, MigrateAssert,
         MigratePublish, Migrated, Return
<1>7. CASE Open(c)
  BY <1>7 DEF Open
<1>8. CASE AckStart(c) \/ AckVerify(c) \/ AckRename(c) \/ AckUnlink(c) \/ AckDone(c)
             \/ Sweep(c) \/ SweepDone(c)
  BY <1>8 DEF AckStart, AckVerify, AckRename, AckUnlink, AckDone, Sweep, SweepDone, Settle
<1>9. CASE Fail(c) \/ FailVerify(c) \/ FailLink(c) \/ FailUnlink(c) \/ FailDone(c)
  BY <1>9 DEF Fail, FailVerify, FailLink, FailUnlink, FailDone, Settle
<1>10. CASE ConsumerCall(c) \/ Crash(c)
  BY <1>10 DEF ConsumerCall, Load, LoadPending, Ack, MoveToFailed, Call, Crash
<1> HIDE DEF Step, Change, Throw, Finish, Goto, At, Reading, history, TypeOK, ControlOK, LocalsOK,
             Procs
<1> QED
  BY <1>1, <1>2, <1>3, <1>4, <1>5, <1>6, <1>7, <1>8, <1>9, <1>10 DEF ConsumerStep

\* A consumer has seen what it had seen before, or opens the claim.
LEMMA SeenStep ==
  ASSUME TypeOK, NEW c \in Consumers, ConsumerStep(c) \/ ConsumerCall(c) \/ Crash(c),
         NEW g, Seen(g)'
  PROVE  \/ Seen(g)
         \/ /\ fs["processing"] # None /\ Owned("processing") /\ g = Gen("processing")
            /\ fs' = fs /\ content' = content
<1>1. \A d \in Procs : pin'[d] = pin[d] => Holds(pin[d])' = Holds(pin[d])
  <2>1. CASE content' = content
    BY <2>1 DEF Holds
  <2>2. CASE MigratePublish(c)
    <3>1. Holds(pin[c]) \in Nat
      BY HoldsType, QueueAssumption DEF TypeOK, FilesOK, ControlOK, Procs, Gens
    <3> QED BY <2>2, <3>1, NewFile DEF MigratePublish
  <2> QED BY <2>1, <2>2, ConsumerFrame, QuietFrame
<1>2. \A d \in Consumers \ {c} : pc'[d] = pc[d] /\ pin'[d] = pin[d]
  BY OthersLocals
<1>3. CASE g \in loaded'
  BY <1>3, ReadingStep DEF Seen
<1>4. ASSUME NEW d \in Consumers, pc'[d] \in Reading, g = Holds(pin[d])',
             pc[d] \in Reading, pin'[d] = pin[d]
      PROVE  Seen(g)
  BY <1>1, <1>4 DEF Seen, Procs
<1>5. CASE Open(c) /\ g = Holds(pin[c])'
  BY <1>5 DEF Open, Gen, Holds, files, TypeOK, ControlOK, Procs
<1>6. CASE g \notin loaded'
  <2>1. PICK d \in Consumers : pc'[d] \in Reading /\ g = Holds(pin[d])'
    BY <1>6 DEF Seen
  <2> QED BY <1>2, <1>4, <1>5, <2>1, ReadingStep
<1> QED BY <1>3, <1>6

\* Generation 0 is none: it is never the last one.
LEMMA NoneIsPresent ==
  ASSUME TypeOK, Numbered, Filled
  PROVE  Present(0) \/ 0 < nextGen - 1
<1>1. nextGen \in Nat /\ \A n \in FileNames : fs[n] # None => Gen(n) < nextGen
  BY QueueAssumption, EntryValue DEF TypeOK, BudgetOK, FilesOK, Numbered, Gen, Holds
<1>2. CASE fs["json"] = None
  BY <1>2, NamesDiffer DEF Present, Gen, Holds
<1>3. CASE fs["json"] # None
  BY <1>1, <1>3, GenType, NamesDiffer DEF Filled
<1> QED BY <1>2, <1>3

LEMMA NoneStaysPresent ==
  TypeOK' /\ Numbered' /\ Filled' => (Present(0) \/ 0 < nextGen - 1)'
<1>1. TypeOK /\ Numbered /\ Filled => Present(0) \/ 0 < nextGen - 1
  BY NoneIsPresent
<1> QED BY <1>1, PTL

\* A claim that is opened was pending before, and is no longer.
LEMMA OpenedIsApart ==
  ASSUME TypeOK, EntriesKept, fs["processing"] # None, Owned("processing")
  PROVE  /\ Gen("processing") # 0 /\ Gen("processing") < nextGen
         /\ Gen("json") # Gen("processing") /\ Gen("entry") # Gen("processing")
<1>1. fs["json"] # fs["processing"] /\ fs["entry"] # fs["processing"]
  BY NamesDiffer DEF Owned, Links
<1>2. \A n \in {"json", "entry"} : fs[n] = None => Gen(n) = 0
  BY DEF Gen, Holds
<1>3. Gen("processing") # 0 /\ Gen("processing") < nextGen
  BY NamesDiffer, EntryValue DEF EntriesKept, Filled, Numbered, Gen, Holds, TypeOK, FilesOK
<1> QED BY <1>1, <1>2, <1>3, NamesDiffer DEF EntriesKept, Alone

LEMMA ConsumerKept ==
  ASSUME TypeOK, TypeOK', TransferOK, ClaimTargetFree, EntriesKept,
         NEW c \in Consumers, ConsumerStep(c) \/ ConsumerCall(c) \/ Crash(c)
  PROVE  EntriesKept'
<1>1. nextGen' = nextGen /\ published' = published /\ enqueued' = enqueued
  BY NameSteps
     DEF ConsumerCall, Load, LoadPending, Ack, MoveToFailed, Call, Crash, budget, history
<1>2. NamesKept
  <2>1. CASE ConsumerStep(c)
    BY <2>1, ConsumerNamesKept
  <2>2. CASE ConsumerCall(c) \/ Crash(c)
    <3>1. fs' = fs /\ content' = content
      BY <2>2, QuietFrame
    <3>2. acked' = acked
      BY <2>2 DEF ConsumerCall, Load, LoadPending, Ack, MoveToFailed, Call, Crash, history
    <3> QED BY <3>1, <3>2, SameNames
  <2> QED BY <2>1, <2>2
<1>3. Filled' /\ Alone' /\ InOrder' /\ DeliveredIsAcked'
  BY <1>2 DEF NamesKept
<1>4. Numbered'
  BY <1>1, <1>2 DEF NamesKept, EntriesKept, Numbered
<1>5. acked \subseteq acked' /\ loaded \subseteq loaded'
  <2>1. loaded \subseteq loaded'
    BY ReadingStep
  <2>2. acked \subseteq acked'
    BY NameSteps, QuietFrame
    DEF Relink, UnlinkEntry, Link, TakePending, MigratePublish, AckStart, AckRename, AckUnlink, Sweep,
        FailLink, FailUnlink, Throw, Step, history, ConsumerCall, Load, LoadPending, Ack,
        MoveToFailed, Call, Crash
  <2> QED BY <2>1, <2>2
<1>6. SeenKept'
  <2> SUFFICES ASSUME NEW g \in Gens \cup {0}, Seen(g)'
               PROVE  /\ g # 0 /\ g < nextGen'
                      /\ Gen("json")' # g /\ Gen("entry")' # g
                      /\ g \in acked' \/ Gen("processing")' = g \/ Gen("failed")' = g
    BY DEF SeenKept
  <2>1. g \in Nat
    BY QueueAssumption DEF Gens
  <2>2. CASE Seen(g)
    <3>1. /\ g # 0 /\ g < nextGen
          /\ Gen("json") # g /\ Gen("entry") # g
          /\ g \in acked \/ Gen("processing") = g \/ Gen("failed") = g
      BY <2>2 DEF EntriesKept, SeenKept
    <3> QED BY <1>1, <1>2, <1>5, <2>1, <3>1 DEF NamesKept
  <2>3. CASE /\ fs["processing"] # None /\ Owned("processing") /\ g = Gen("processing")
             /\ fs' = fs /\ content' = content
    <3>1. \A n \in FileNames : Gen(n)' = Gen(n)
      BY <2>3 DEF Gen, Holds
    <3> QED BY <1>1, <2>3, <3>1, OpenedIsApart, NamesDiffer
  <2> QED BY <2>2, <2>3, SeenStep
<1>7. LastIsPresent'
  <2> SUFFICES ASSUME NEW g \in enqueued, g \notin acked', g \notin loaded'
               PROVE  Present(g)' \/ g < nextGen - 1
    BY <1>1 DEF LastIsPresent
  <2>1. g \in Nat
    BY QueueAssumption DEF TypeOK, HistoryOK, Gens
  <2>2. CASE g = 0
    BY <1>1, <1>3, <1>4, <2>2, NoneStaysPresent
  <2>3. CASE g # 0
    <3>1. Present(g) \/ g < nextGen - 1
      BY <1>5 DEF EntriesKept, LastIsPresent
    <3> QED BY <1>2, <2>1, <2>3, <3>1 DEF NamesKept
  <2> QED BY <2>2, <2>3
<1> QED BY <1>3, <1>4, <1>6, <1>7 DEF EntriesKept

LEMMA PublishKept ==
  ASSUME TypeOK, EntriesKept, NEW p \in Producers, Publish(p)
  PROVE  EntriesKept'
<1>1. PICK i \in Unused :
        fs' = [fs EXCEPT !["json"] = i] /\ content' = [content EXCEPT ![i] = nextGen]
  BY DEF Publish
<1>2. /\ nextGen \in Nat /\ nextGen > 0 /\ nextGen' = nextGen + 1
      /\ published' = published \cup {nextGen}
      /\ enqueued' = enqueued /\ loaded' = loaded /\ acked' = acked
  BY QueueAssumption DEF Publish, TypeOK, BudgetOK
<1>3. /\ fs'["json"] = i /\ i # None /\ i \in Inodes
      /\ \A n \in FileNames \ {"json"} : fs'[n] = fs[n] /\ fs'[n] # i
  BY <1>1, QueueAssumption, NamesDiffer DEF TypeOK, FilesOK, Entries, Unused, Free
<1>4. /\ Gen("json")' = nextGen
      /\ \A n \in FileNames \ {"json"} : Gen(n)' = Gen(n)
  BY <1>1, <1>2, <1>3, NewFile, NamesDiffer
<1>5. \A n \in FileNames : Gen(n) \in Nat /\ Gen(n) < nextGen
  BY <1>2, GenType, EntryValue DEF EntriesKept, Numbered, TypeOK, FilesOK, Gen, Holds
<1>6. Numbered'
  <2>1. \A j \in Inodes : content'[j] < nextGen'
    BY <1>1, <1>2, QueueAssumption DEF EntriesKept, Numbered, TypeOK, FilesOK, Gens
  <2>2. published' = 1..(nextGen' - 1) /\ \A g \in enqueued' : g < nextGen'
    BY <1>2, QueueAssumption DEF EntriesKept, Numbered, TypeOK, HistoryOK, Gens
  <2> QED BY <2>1, <2>2 DEF Numbered
<1>7. Filled' /\ Alone' /\ InOrder' /\ DeliveredIsAcked'
  BY <1>2, <1>3, <1>4, <1>5, NamesDiffer
     DEF EntriesKept, Filled, Alone, InOrder, DeliveredIsAcked
<1>8. \A g : Seen(g)' => Seen(g)
  <2>1. \A c \in Consumers : pc'[c] = pc[c] /\ pin'[c] = pin[c]
    BY ProducerNames
  <2>2. \A c \in Consumers : Holds(pin[c])' = Holds(pin[c])
    BY <1>1, <1>2, <2>1, NewFile DEF Procs
  <2> QED BY <1>2, <2>1, <2>2 DEF Seen
<1>9. SeenKept'
  <2> SUFFICES ASSUME NEW g \in Gens \cup {0}, Seen(g)
               PROVE  /\ g # 0 /\ g < nextGen'
                      /\ Gen("json")' # g /\ Gen("entry")' # g
                      /\ g \in acked' \/ Gen("processing")' = g \/ Gen("failed")' = g
    BY <1>8 DEF SeenKept
  <2>1. g \in Nat
    BY QueueAssumption DEF Gens
  <2> QED BY <1>2, <1>4, <2>1, NamesDiffer DEF EntriesKept, SeenKept
<1>10. LastIsPresent'
  <2> SUFFICES ASSUME NEW g \in enqueued
               PROVE  g < nextGen' - 1
    BY <1>2 DEF LastIsPresent
  <2> QED
    BY <1>2, QueueAssumption DEF EntriesKept, Numbered, TypeOK, HistoryOK, Gens
<1> QED BY <1>6, <1>7, <1>9, <1>10 DEF EntriesKept

\* An enqueue returns success only while its file is the pending one.
LEMMA ProducerKept ==
  ASSUME TypeOK, TypeOK', EntriesKept, NEW p \in Producers,
         Publish(p) \/ ProducerStep(p) \/ ProducerCrash(p)
  PROVE  EntriesKept'
<1>1. CASE Publish(p)
  BY <1>1, PublishKept
<1>2. CASE ProducerStep(p) \/ ProducerCrash(p)
  <2>1. fs' = fs /\ content' = content
    BY <1>2
       DEF ProducerStep, ProducerCrash, AssertPublished, WriteRejected, SyncParent,
           SyncParentFails, EndWrite, Step, files
  <2>2. nextGen' = nextGen /\ published' = published /\ loaded' = loaded /\ acked' = acked
    BY <1>2
       DEF ProducerStep, ProducerCrash, AssertPublished, WriteRejected, SyncParent,
           SyncParentFails, EndWrite, Step, budget, history
  <2>3. \A n \in FileNames : Gen(n)' = Gen(n)
    BY <2>1 DEF Gen, Holds
  <2>4. enqueued' = enqueued \/ (fs["json"] = pin[p] /\ enqueued' = enqueued \cup {Holds(pin[p])})
    BY <1>2, NamesDiffer
       DEF ProducerStep, ProducerCrash, AssertPublished, WriteRejected, SyncParent,
           SyncParentFails, EndWrite, Step, history, Links
  <2>5. \A g \in enqueued' \ enqueued : g = Gen("json")
    BY <2>4 DEF Gen
  <2>6. Numbered'
    <3>1. nextGen \in Nat /\ 0 < nextGen
      BY QueueAssumption DEF TypeOK, BudgetOK
    <3>2. Gen("json") < nextGen
      BY <3>1, NamesDiffer, EntryValue DEF EntriesKept, Numbered, TypeOK, FilesOK, Gen, Holds
    <3> QED BY <2>1, <2>2, <2>5, <3>2 DEF EntriesKept, Numbered
  <2>7. Filled' /\ Alone' /\ InOrder' /\ DeliveredIsAcked'
    BY <2>1, <2>2, <2>3, NamesDiffer DEF EntriesKept, Filled, Alone, InOrder, DeliveredIsAcked
  <2>8. \A g : Seen(g)' => Seen(g)
    BY <1>2, <2>1, <2>2, ProducerNames DEF Seen, Holds
  <2>9. SeenKept'
    BY <2>2, <2>3, <2>8, NamesDiffer DEF EntriesKept, SeenKept
  <2>10. LastIsPresent'
    BY <2>2, <2>3, <2>5, NamesDiffer DEF EntriesKept, LastIsPresent, Present
  <2> QED BY <2>6, <2>7, <2>9, <2>10 DEF EntriesKept
<1> QED BY <1>1, <1>2

LEMMA KeptNext ==
  ASSUME PowerStaysOn, TypeOK, TypeOK', TransferOK, ClaimTargetFree, EntriesKept, [Next]_vars
  PROVE  EntriesKept'
<1>1. ~PowerLoss
  BY DEF PowerLoss, Fault, PowerStaysOn
<1>2. CASE RemoveStaleLock \/ UNCHANGED vars
  <2>1. /\ fs' = fs /\ content' = content /\ pin' = pin /\ pc' = pc
        /\ nextGen' = nextGen /\ UNCHANGED history
    BY <1>2 DEF RemoveStaleLock, vars, files, budget
  <2>2. \A n \in FileNames : Gen(n)' = Gen(n)
    BY <2>1 DEF Gen, Holds
  <2>3. \A g : Seen(g)' <=> Seen(g)
    BY <2>1 DEF Seen, Holds, history
  <2> QED
    BY <2>1, <2>2, <2>3, NamesDiffer
       DEF EntriesKept, Numbered, Filled, Alone, InOrder, SeenKept, DeliveredIsAcked,
           LastIsPresent, Present, history
<1> QED BY <1>1, <1>2, ConsumerKept, ProducerKept DEF Next

\* The names account for every generation while the power stays on.
THEOREM EntriesStay == ASSUME PowerStaysOn PROVE Spec => []EntriesKept
<1>1. Init => ClaimTargetFree
  BY DEF Init, ClaimTargetFree, At, Procs
<1>2. /\ TypeOK /\ TypeOK' /\ TransferExclusion /\ TransferOK /\ ClaimTargetFree /\ EntriesKept
      /\ [Next]_vars
      => ClaimTargetFree' /\ EntriesKept'
  BY ClaimTargetNext, KeptNext
<1> QED
  BY <1>1, <1>2, KeptInit, TypeCorrect, Exclusion, TransferHolds, PTL DEF Spec

\* No enqueued entry is lost while the power stays on, whatever else fails:
\* for any number of producers and consumers, in every order of their system
\* calls, an entry whose write returned success is under some name, or was
\* acknowledged, or was replaced while pending and never loaded.
THEOREM EntriesNotLost == ASSUME PowerStaysOn PROVE Spec => []NoEntryLost
<1>1. TypeOK /\ EntriesKept => NoEntryLost
  BY KeptNotLost
<1> QED BY <1>1, EntriesStay, TypeCorrect, PTL

-----------------------------------------------------------------------------
(* One worker.                                                             *)

OneWorker == (\A c, d \in Consumers : c = d) /\ "failUnloaded" \notin Calls

-----------------------------------------------------------------------------
(* The operation a worker is in.                                           *)

Loaded == {"claimed", "open"} \cup Reading

LoadSteps ==
  Recovering \cup Claiming \cup {"claim", "link", "takenSync", "retiredSync", "claimSync"} \cup Loaded

SweepSteps == {"sweep", "sweptSync", "sweepDone"}

AckSteps ==
  {"ack", "markerSync", "ackVerify", "ackRename", "ackSync", "ackUnlink", "ackedSync", "ackDone"}

FailSteps ==
  {"ensureFailed", "fail", "evidenceSync", "repairSync", "failVerify", "failLink", "failedSync",
   "failUnlink", "movedSync", "failDone"}

\* An acknowledgement or a quarantine runs its own steps, about a generation the
\* worker has and with the verdict it made; whatever else runs has none.
Acting(c) ==
  /\ pc[c] \in AckSteps => op[c] = "ack"
  /\ pc[c] \in FailSteps => op[c] = "fail"
  /\ pc[c] \in LoadSteps \cup SweepSteps => op[c] \notin {"ack", "fail"}
  /\ op[c] \in {"ack", "fail"} => got[c] # 0 /\ verdict[c] = op[c]
  /\ ~At(c, "idle") /\ op[c] \notin {"ack", "fail"} => got[c] = 0

\* What a loaded generation leaves of the names: no record, a claim that is no
\* longer pending, and, until it is acknowledged, the claim or evidence.
Settleable(c) ==
  got[c] # 0 =>
    /\ fs["entry"] = None
    /\ fs["processing"] # None => fs["json"] # fs["processing"]
    /\ verdict[c] # "ack" => fs["processing"] # None \/ fs["failed"] # None

LEMMA ActingStep ==
  ASSUME OneWorker, TypeOK, NEW c \in Consumers, Acting(c), Settleable(c),
         ConsumerStep(c) \/ ConsumerCall(c) \/ Crash(c)
  PROVE  Acting(c)'
<1> USE DEF Acting, At, Goto, Step, Change, Recovering, Claiming, Loaded, Reading, LoadSteps,
            SweepSteps, AckSteps, FailSteps, TypeOK, ControlOK, LocalsOK, Procs, locals
<1>1. ASSUME Finish(c)
      PROVE  Acting(c)'
  BY <1>1 DEF Finish
<1>2. CASE SyncStep(c)
  BY <1>2, AfterSyncValue, ReturnedValue DEF SyncStep, SyncSteps
<1>3. CASE SyncFails(c) \/ LinkRefused(c) \/ LockTimeout(c) \/ RecoverRejects(c) \/ ClaimNothing(c)
             \/ OpenRejects(c) \/ CallbackThrows(c)
  BY <1>1, <1>3
     DEF SyncFails, LinkRefused, LockTimeout, RecoverRejects, ClaimNothing, OpenRejects,
         CallbackThrows, Throw
<1>4. CASE AcquireLock(c)
  BY <1>4, FirstStepValue DEF AcquireLock
<1>5. CASE Recover(c)
  BY <1>5, ReturnedValue DEF Recover, EmptyRecord, PutBack
<1>6. CASE Relink(c)
  BY <1>1, <1>6 DEF Relink, Throw
<1>7. CASE UnlinkEntry(c) \/ RmdirRecord(c)
  BY <1>7 DEF UnlinkEntry, RmdirRecord
<1>8. CASE Claim(c) \/ Link(c) \/ Retire(c) \/ MkdirRecord(c)
  BY <1>8 DEF Claim, ClaimExisting, Link, Retire, MkdirRecord
<1>9. CASE TakePending(c)
  BY <1>9 DEF TakePending
<1>10. CASE Claimed(c) \/ Open(c) \/ CallbackMigrates(c)
  BY <1>10 DEF Claimed, Open, CallbackMigrates
<1>11. CASE Read(c) \/ MigrateAssert(c) \/ AckVerify(c)
  BY <1>1, <1>11 DEF Read, MigrateAssert, AckVerify, Throw
<1>12. CASE CallbackReturns(c) \/ Migrated(c)
  BY <1>12 DEF CallbackReturns, Migrated, Return, Decide
<1>13. CASE MigratePublish(c)
  BY <1>13 DEF MigratePublish
<1>14. CASE AckStart(c) \/ AckRename(c) \/ AckUnlink(c)
  BY <1>14 DEF AckStart, AckRename, AckUnlink
<1>15. CASE AckDone(c) \/ FailVerify(c) \/ FailDone(c)
  BY <1>1, <1>15 DEF AckDone, FailVerify, FailDone, Settle, Throw, Decide
<1>16. CASE Sweep(c) \/ SweepDone(c)
  BY <1>1, <1>16 DEF Sweep, SweepDone, Throw
<1>17. CASE Fail(c) \/ FailUnlink(c)
  BY <1>17 DEF Fail, FailUnlink, Settleable
<1>18. CASE FailLink(c)
  BY <1>1, <1>18 DEF FailLink, Throw
<1>19. CASE ConsumerCall(c) \/ Crash(c)
  BY <1>19 DEF ConsumerCall, Load, LoadPending, Ack, MoveToFailed, Call, Decide, Crash, OneWorker
<1> HIDE DEF Acting, At, Goto, Step, Change, Recovering, Claiming, Loaded, Reading, LoadSteps,
             SweepSteps, AckSteps, FailSteps, TypeOK, ControlOK, LocalsOK, Procs, locals
<1> QED
  BY <1>2, <1>3, <1>4, <1>5, <1>6, <1>7, <1>8, <1>9, <1>10, <1>11, <1>12, <1>13, <1>14, <1>15,
     <1>16, <1>17, <1>18, <1>19
     DEF ConsumerStep

-----------------------------------------------------------------------------
(* The names a worker finds, with every fault.                             *)

\* The steps at which the worker has the claim, those at which the pending file
\* is another one, and those before which the claim was made durable.
Holding ==
  Claiming \cup Loaded
    \cup {"takenSync", "retiredSync", "claimSync", "ackRename", "failLink", "failedSync", "failUnlink"}

Retired == Loaded \cup {"takenSync", "retiredSync", "claimSync"}

\* A recovery that ends a retirement.
Returning(c, r) == pc[c] \in Recovering /\ ret[c] = r

Durable(c) ==
  \/ pc[c] \in {"mkdirRecord", "newRecord", "takePending", "takenSync", "retiredSync"} \cup Loaded
  \/ Returning(c, "claimed")

Placed(c) ==
  /\ pc[c] \in Holding => fs["processing"] # None
  /\ pc[c] \in Claiming => fs["json"] # None
  /\ pc[c] \in Retired => fs["json"] # fs["processing"]
  /\ pc[c] \in {"claimSync"} \cup Loaded => fs["entry"] = None
  /\ At(c, "relink") => fs["entry"] \notin {None, fs["processing"]}
  /\ At(c, "link") => fs["processing"] = None /\ fs["json"] # None /\ Owned("json")
  /\ Returning(c, "retire") => fs["processing"] # None /\ fs["json"] # None
  /\ Returning(c, "claimed") => fs["processing"] \notin {None, fs["json"]}

\* A file has a generation, now and after a power loss.
DiskFilled == \A n \in FileNames : disk[n] # None => DiskGen(n) # 0

LEMMA FirstStepPlaces ==
  ASSUME NEW c
  PROVE  FirstStep(c) \in {"migrateAssert", "ack", "fail", "sweep", "recover"}
BY DEF FirstStep

LEMMA PlacedStep ==
  ASSUME OneWorker, TypeOK, RecordStands, NEW c \in Consumers, Transfer(c), Acting(c), Settleable(c),
         Placed(c), ConsumerStep(c)
  PROVE  Placed(c)'
<1> USE NamesDiffer
    DEF Placed, Returning, At, Goto, Step, Change, Recovering, Claiming, Holding, Retired, Loaded,
        Reading, TypeOK, ControlOK, LocalsOK, FilesOK, Entries, Procs, files, locals, Owned, Links
<1>1. ASSUME Finish(c), fs' = fs
      PROVE  Placed(c)'
  BY <1>1 DEF Finish
<1>2. CASE SyncStep(c)
  BY <1>2, AfterSyncValue, ReturnedValue DEF SyncStep, SyncSteps, Transfer
<1>3. CASE SyncFails(c) \/ LinkRefused(c) \/ LockTimeout(c) \/ RecoverRejects(c) \/ ClaimNothing(c)
             \/ OpenRejects(c) \/ CallbackThrows(c)
  BY <1>1, <1>3
     DEF SyncFails, LinkRefused, LockTimeout, RecoverRejects, ClaimNothing, OpenRejects,
         CallbackThrows, Throw
<1>4. CASE AcquireLock(c)
  BY <1>4, FirstStepValue, FirstStepPlaces DEF AcquireLock
<1>5. CASE Recover(c)
  BY <1>5, ReturnedValue DEF Recover, EmptyRecord, PutBack, RecordStands, Transfer
<1>6. CASE Relink(c)
  BY <1>1, <1>6 DEF Relink, Throw, Transfer
<1>7. CASE UnlinkEntry(c) \/ RmdirRecord(c)
  BY <1>7 DEF UnlinkEntry, RmdirRecord
<1>8. CASE Claim(c)
  BY <1>8 DEF Claim, ClaimExisting, Transfer
<1>9. CASE Link(c) \/ Retire(c) \/ MkdirRecord(c)
  BY <1>9 DEF Link, Retire, MkdirRecord
<1>10. CASE TakePending(c)
  BY <1>10 DEF TakePending
<1>11. CASE Claimed(c) \/ Open(c) \/ CallbackMigrates(c)
  BY <1>11 DEF Claimed, Open, CallbackMigrates, Acting, LoadSteps
<1>12. CASE Read(c) \/ MigrateAssert(c) \/ AckVerify(c)
  BY <1>1, <1>12 DEF Read, MigrateAssert, AckVerify, Throw
<1>13. CASE CallbackReturns(c) \/ Migrated(c)
  BY <1>13 DEF CallbackReturns, Migrated, Return
<1>14. CASE MigratePublish(c)
  BY <1>14, QueueAssumption DEF MigratePublish, Unused, Free
<1>15. CASE AckStart(c) \/ AckRename(c) \/ AckUnlink(c)
  BY <1>15 DEF AckStart, AckRename, AckUnlink
<1>16. CASE AckDone(c) \/ FailVerify(c) \/ FailDone(c)
  BY <1>1, <1>16 DEF AckDone, FailVerify, FailDone, Settle, Throw
<1>17. CASE Sweep(c) \/ SweepDone(c)
  BY <1>1, <1>17 DEF Sweep, SweepDone, Throw
<1>18. CASE Fail(c) \/ FailUnlink(c)
  BY <1>18 DEF Fail, FailUnlink, Transfer
<1>19. CASE FailLink(c)
  BY <1>1, <1>19 DEF FailLink, Throw
<1> HIDE DEF Placed, Returning, At, Goto, Step, Change, Recovering, Claiming, Holding, Retired,
             Loaded, Reading, TypeOK, ControlOK, LocalsOK, FilesOK, Entries, Procs, files, locals,
             Owned, Links
<1> QED
  BY <1>2, <1>3, <1>4, <1>5, <1>6, <1>7, <1>8, <1>9, <1>10, <1>11, <1>12, <1>13, <1>14, <1>15,
     <1>16, <1>17, <1>18, <1>19
     DEF ConsumerStep

\* Where a generation is settled, the retirement it came from is over.
LEMMA SettleableStep ==
  ASSUME OneWorker, TypeOK, NEW c \in Consumers, Transfer(c), Acting(c), Settleable(c), Placed(c),
         ConsumerStep(c) \/ ConsumerCall(c) \/ Crash(c)
  PROVE  Settleable(c)'
<1> USE NamesDiffer
    DEF Settleable, At, Goto, Step, Change, TypeOK, ControlOK, LocalsOK, FilesOK, Entries, Procs,
        files, locals
<1>1. ASSUME fs' = fs, got'[c] = got[c], verdict'[c] = verdict[c] \/ verdict[c] = "none"
      PROVE  Settleable(c)'
  BY <1>1
<1>2. ASSUME got'[c] = 0
      PROVE  Settleable(c)'
  BY <1>2
<1>3. CASE SyncStep(c) \/ SyncFails(c) \/ LinkRefused(c) \/ LockTimeout(c) \/ AcquireLock(c)
  BY <1>1, <1>3 DEF SyncStep, SyncFails, LinkRefused, LockTimeout, AcquireLock, Throw, Finish
<1>4. CASE Recover(c) \/ RecoverRejects(c)
  BY <1>1, <1>4 DEF Recover, EmptyRecord, PutBack, RecoverRejects, Throw, Finish
<1>5. ASSUME pc[c] \in LoadSteps \cup SweepSteps, got'[c] = got[c]
      PROVE  Settleable(c)'
  <2>1. got[c] = 0
    BY <1>5 DEF Acting, LoadSteps, Recovering, Claiming, Loaded, Reading, SweepSteps
  <2> QED BY <1>2, <1>5, <2>1
<1>6. CASE Relink(c) \/ UnlinkEntry(c) \/ RmdirRecord(c) \/ Claim(c) \/ ClaimNothing(c) \/ Link(c)
             \/ Retire(c) \/ MkdirRecord(c) \/ TakePending(c) \/ Claimed(c)
  BY <1>5, <1>6
     DEF Relink, UnlinkEntry, RmdirRecord, Claim, ClaimExisting, ClaimNothing, Link, Retire,
         MkdirRecord, TakePending, Claimed, Throw, Finish, LoadSteps, Recovering, Claiming, Loaded
<1>7. CASE Open(c) \/ OpenRejects(c) \/ Read(c) \/ CallbackMigrates(c) \/ CallbackThrows(c)
             \/ MigrateAssert(c) \/ MigratePublish(c)
  BY <1>5, <1>7
     DEF Open, OpenRejects, Read, CallbackMigrates, CallbackThrows, MigrateAssert, MigratePublish,
         Throw, Finish, LoadSteps, Loaded, Reading
<1>8. CASE CallbackReturns(c) \/ Migrated(c)
  BY <1>8
     DEF CallbackReturns, Migrated, Return, Placed, Holding, Retired, Loaded, Reading
<1>9. CASE AckStart(c) \/ AckUnlink(c) \/ AckVerify(c)
  BY <1>9 DEF AckStart, AckUnlink, AckVerify, Throw, Finish
<1>10. CASE AckRename(c)
  BY <1>10 DEF AckRename, Acting, AckSteps
<1>11. CASE AckDone(c) \/ FailDone(c)
  BY <1>2, <1>11 DEF AckDone, FailDone, Settle, Decide
<1>12. CASE Sweep(c) \/ SweepDone(c)
  BY <1>5, <1>12 DEF Sweep, SweepDone, Throw, Finish, SweepSteps
<1>13. CASE Fail(c)
  BY <1>1, <1>13 DEF Fail
<1>14. CASE FailVerify(c)
  BY <1>1, <1>2, <1>14 DEF FailVerify, Settle, Decide, Throw, Finish
<1>15. CASE FailLink(c)
  BY <1>15 DEF FailLink, Throw, Finish, Placed, Holding
<1>16. CASE FailUnlink(c)
  BY <1>16 DEF FailUnlink, Transfer, Placed, Holding
<1>17. CASE ConsumerCall(c) \/ Crash(c)
  BY <1>1, <1>2, <1>17
     DEF ConsumerCall, Load, LoadPending, Ack, MoveToFailed, Call, Decide, Crash, OneWorker
<1> HIDE DEF Settleable, At, Goto, Step, Change, TypeOK, ControlOK, LocalsOK, FilesOK, Entries,
             Procs, files, locals
<1> QED
  BY <1>3, <1>4, <1>6, <1>7, <1>8, <1>9, <1>10, <1>11, <1>12, <1>13, <1>14, <1>15, <1>16, <1>17
     DEF ConsumerStep

\* The steps of a consumer move files it finds, and a sync persists them.
LEMMA FilesFrom ==
  ASSUME TypeOK, NEW c \in Consumers, ConsumerStep(c)
  PROVE  /\ \/ MigratePublish(c)
            \/ \A n \in FileNames : fs'[n] = None \/ \E m \in FileNames : fs'[n] = fs[m]
         /\ \A n \in Names : disk'[n] \in {fs[n], disk[n]}
<1> USE NamesDiffer
    DEF Step, Change, Throw, Finish, TypeOK, FilesOK, Entries, files
<1>1. CASE SyncStep(c)
  BY <1>1 DEF SyncStep, Sync
<1>2. CASE SyncFails(c) \/ LinkRefused(c) \/ LockTimeout(c) \/ AcquireLock(c)
  BY <1>2 DEF SyncFails, LinkRefused, LockTimeout, AcquireLock
<1>3. CASE Recover(c) \/ RecoverRejects(c) \/ Relink(c) \/ UnlinkEntry(c) \/ RmdirRecord(c)
  BY <1>3 DEF Recover, EmptyRecord, PutBack, RecoverRejects, Relink, UnlinkEntry, RmdirRecord
<1>4. CASE Claim(c) \/ ClaimNothing(c) \/ Link(c) \/ Retire(c) \/ MkdirRecord(c)
             \/ TakePending(c) \/ Claimed(c)
  BY <1>4 DEF Claim, ClaimExisting, ClaimNothing, Link, Retire, MkdirRecord, TakePending, Claimed
<1>5. CASE Open(c) \/ OpenRejects(c) \/ Read(c) \/ CallbackReturns(c) \/ CallbackMigrates(c)
             \/ CallbackThrows(c) \/ MigrateAssert(c) \/ MigratePublish(c) \/ Migrated(c)
  BY <1>5
     DEF Open, OpenRejects, Read, CallbackReturns, CallbackMigrates, CallbackThrows,
         MigrateAssert, MigratePublish, Migrated, Return
<1>6. CASE AckStart(c) \/ AckVerify(c) \/ AckRename(c) \/ AckUnlink(c) \/ AckDone(c)
             \/ Sweep(c) \/ SweepDone(c)
  BY <1>6 DEF AckStart, AckVerify, AckRename, AckUnlink, AckDone, Sweep, SweepDone, Settle
<1>7. CASE Fail(c) \/ FailVerify(c) \/ FailLink(c) \/ FailUnlink(c) \/ FailDone(c)
  BY <1>7 DEF Fail, FailVerify, FailLink, FailUnlink, FailDone, Settle
<1> HIDE DEF Step, Change, Throw, Finish, TypeOK, FilesOK, Entries, files
<1> QED BY <1>1, <1>2, <1>3, <1>4, <1>5, <1>6, <1>7 DEF ConsumerStep

\* A file keeps its generation as long as a name, or the disk, refers to it.
LEMMA FileKeepsContent ==
  ASSUME TypeOK, NEW i \in Unused, NEW g, content' = [content EXCEPT ![i] = g]
  PROVE  /\ content'[i] = g
         /\ \A n \in FileNames :
              content'[fs[n]] = content[fs[n]] /\ content'[disk[n]] = content[disk[n]]
BY DEF Unused, Free, TypeOK, FilesOK

LEMMA FilledNext ==
  ASSUME TypeOK, Filled, DiskFilled, \A c \in Consumers : Placed(c), [Next]_vars
  PROVE  Filled' /\ DiskFilled'
<1>1. /\ \A n \in FileNames : fs[n] # None => content[fs[n]] # 0
      /\ \A n \in FileNames : disk[n] # None => content[disk[n]] # 0
  BY DEF Filled, DiskFilled, Gen, DiskGen, Holds
<1>2. SUFFICES /\ \A n \in FileNames : fs'[n] # None => content'[fs'[n]] # 0
               /\ \A n \in FileNames : disk'[n] # None => content'[disk'[n]] # 0
  BY DEF Filled, DiskFilled, Gen, DiskGen, Holds
<1>3. ASSUME content' = content,
             \A n \in FileNames : fs'[n] = None \/ \E m \in FileNames : fs'[n] \in {fs[m], disk[m]},
             \A n \in FileNames : disk'[n] \in {fs[n], disk[n]}
      PROVE  /\ \A n \in FileNames : fs'[n] # None => content'[fs'[n]] # 0
             /\ \A n \in FileNames : disk'[n] # None => content'[disk'[n]] # 0
  BY <1>1, <1>3
<1>4. ASSUME NEW c \in Consumers, ConsumerStep(c)
      PROVE  /\ \A n \in FileNames : fs'[n] # None => content'[fs'[n]] # 0
             /\ \A n \in FileNames : disk'[n] # None => content'[disk'[n]] # 0
  <2>1. CASE ~MigratePublish(c)
    <3>1. content' = content
      BY <1>4, <2>1, ConsumerFrame
    <3> QED BY <1>3, <1>4, <2>1, <3>1, FilesFrom DEF Names
  <2>2. CASE MigratePublish(c)
    <3>1. PICK i \in Unused :
            /\ fs' = [fs EXCEPT !["processing"] = i]
            /\ content' = [content EXCEPT ![i] = Holds(pin[c])]
      BY <2>2 DEF MigratePublish
    <3>2. fs["processing"] # None /\ fs["processing"] = pin[c]
      BY <2>2
         DEF MigratePublish, AssertCurrent, Links, Placed, Holding, Loaded, Reading, At
    <3>3. Holds(pin[c]) # 0
      BY <1>1, <3>2, NamesDiffer DEF Holds
    <3>4. disk' = disk
      BY <2>2 DEF MigratePublish
    <3>5. \A n \in FileNames : fs'[n] = i \/ fs'[n] = fs[n]
      BY <3>1, NamesDiffer DEF TypeOK, FilesOK, Entries
    <3>6. /\ content'[i] # 0
          /\ \A n \in FileNames :
               content'[fs[n]] = content[fs[n]] /\ content'[disk[n]] = content[disk[n]]
      BY <3>1, <3>3, FileKeepsContent
    <3> QED BY <1>1, <3>4, <3>5, <3>6
  <2> QED BY <2>1, <2>2
<1>5. ASSUME NEW p \in Producers, Publish(p)
      PROVE  /\ \A n \in FileNames : fs'[n] # None => content'[fs'[n]] # 0
             /\ \A n \in FileNames : disk'[n] # None => content'[disk'[n]] # 0
  <2>1. PICK i \in Unused :
          fs' = [fs EXCEPT !["json"] = i] /\ content' = [content EXCEPT ![i] = nextGen]
    BY <1>5 DEF Publish
  <2>2. nextGen # 0 /\ disk' = disk
    BY <1>5, QueueAssumption DEF Publish, TypeOK, BudgetOK
  <2>3. \A n \in FileNames : fs'[n] = i \/ fs'[n] = fs[n]
    BY <2>1, NamesDiffer DEF TypeOK, FilesOK, Entries
  <2>4. /\ content'[i] # 0
        /\ \A n \in FileNames :
             content'[fs[n]] = content[fs[n]] /\ content'[disk[n]] = content[disk[n]]
    BY <2>1, <2>2, FileKeepsContent
  <2> QED BY <1>1, <2>2, <2>3, <2>4
<1>6. ASSUME NEW p \in Producers, ProducerStep(p) \/ ProducerCrash(p)
      PROVE  /\ fs' = fs /\ content' = content
             /\ \A n \in FileNames : disk'[n] \in {fs[n], disk[n]}
  BY <1>6, NamesDiffer
     DEF ProducerStep, ProducerCrash, AssertPublished, WriteRejected, SyncParent, SyncParentFails,
         EndWrite, Step, Sync, files, TypeOK, FilesOK, Entries
<1>7. CASE PowerLoss
  <2>1. PICK K : fs' = Kept(K) /\ disk' = Kept(K) /\ content' = content
    BY <1>7 DEF PowerLoss, CrashImages
  <2>2. \A n \in FileNames : fs'[n] \in {fs[n], disk[n]} /\ disk'[n] \in {fs[n], disk[n]}
    BY <2>1 DEF Kept, Names
  <2> QED BY <1>3, <2>1, <2>2
<1>8. CASE RemoveStaleLock \/ UNCHANGED vars \/ \E c \in Consumers : ConsumerCall(c) \/ Crash(c)
  BY <1>1, <1>8, QuietFrame
<1> QED BY <1>3, <1>4, <1>5, <1>6, <1>7, <1>8 DEF Next

\* What is durable of the claim when it is complete.
Secured(c) == Durable(c) => DiskGen("processing") = Gen("processing")

LEMMA SecuredStep ==
  ASSUME OneWorker, TypeOK, NEW c \in Consumers, Transfer(c), Placed(c), Secured(c),
         ConsumerStep(c)
  PROVE  Secured(c)'
<1> USE NamesDiffer
    DEF Secured, Durable, Returning, At, Goto, Step, Change, Recovering, Loaded, Reading, TypeOK,
        ControlOK, LocalsOK, FilesOK, Entries, Procs, files, locals, DiskGen, Gen, Holds
<1>1. ASSUME Finish(c)
      PROVE  Secured(c)'
  BY <1>1 DEF Finish
<1>2. CASE SyncStep(c)
  <2>1. /\ fs' = fs /\ content' = content /\ ret' = ret
        /\ At(c, "ensureRoot") \/ At(c, "claimSync") => disk'["processing"] = fs["processing"]
        /\ disk'["processing"] \in {disk["processing"], fs["processing"]}
    BY <1>2 DEF SyncStep, Sync, Synced, QueueNames, RecordNames, RootNames
  <2>2. Durable(c)' => Durable(c) \/ At(c, "ensureRoot") \/ At(c, "claimSync")
    BY <1>2, AfterSyncValue, ReturnedValue DEF SyncStep, SyncSteps
  <2> QED BY <2>1, <2>2
<1>3. CASE SyncFails(c) \/ LinkRefused(c) \/ LockTimeout(c) \/ RecoverRejects(c) \/ ClaimNothing(c)
             \/ OpenRejects(c) \/ CallbackThrows(c)
  BY <1>1, <1>3
     DEF SyncFails, LinkRefused, LockTimeout, RecoverRejects, ClaimNothing, OpenRejects,
         CallbackThrows, Throw
<1>4. CASE AcquireLock(c)
  BY <1>4, FirstStepValue, FirstStepPlaces DEF AcquireLock
<1>5. CASE Recover(c)
  BY <1>5, ReturnedValue DEF Recover, EmptyRecord, PutBack
<1>6. CASE Relink(c)
  BY <1>1, <1>6 DEF Relink, Throw
<1>7. CASE UnlinkEntry(c) \/ RmdirRecord(c)
  BY <1>7 DEF UnlinkEntry, RmdirRecord
<1>8. CASE Claim(c) \/ Link(c) \/ Retire(c) \/ MkdirRecord(c) \/ TakePending(c)
  BY <1>8 DEF Claim, ClaimExisting, Link, Retire, MkdirRecord, TakePending
<1>9. CASE Claimed(c) \/ Open(c) \/ CallbackMigrates(c)
  BY <1>9 DEF Claimed, Open, CallbackMigrates
<1>10. CASE Read(c) \/ MigrateAssert(c) \/ AckVerify(c)
  BY <1>1, <1>10 DEF Read, MigrateAssert, AckVerify, Throw
<1>11. CASE CallbackReturns(c) \/ Migrated(c)
  BY <1>11 DEF CallbackReturns, Migrated, Return
<1>12. CASE MigratePublish(c)
  <2>1. PICK i \in Unused :
          /\ fs' = [fs EXCEPT !["processing"] = i]
          /\ content' = [content EXCEPT ![i] = Holds(pin[c])]
    BY <1>12 DEF MigratePublish
  <2>2. fs["processing"] = pin[c] /\ disk' = disk /\ Durable(c)
    BY <1>12 DEF MigratePublish, AssertCurrent, Links
  <2>3. /\ content'[i] = Holds(pin[c]) /\ i # None
        /\ content'[disk["processing"]] = content[disk["processing"]]
    BY <2>1, FileKeepsContent, QueueAssumption, ZenonT(40) DEF Unused
  <2>4. fs'["processing"] = i
    BY <2>1
  <2> QED BY <2>2, <2>3, <2>4
<1>13. CASE AckStart(c) \/ AckRename(c) \/ AckUnlink(c)
  BY <1>13 DEF AckStart, AckRename, AckUnlink
<1>14. CASE AckDone(c) \/ FailVerify(c) \/ FailDone(c)
  BY <1>1, <1>14 DEF AckDone, FailVerify, FailDone, Settle, Throw
<1>15. CASE Sweep(c) \/ SweepDone(c)
  BY <1>1, <1>15 DEF Sweep, SweepDone, Throw
<1>16. CASE Fail(c) \/ FailUnlink(c)
  BY <1>16 DEF Fail, FailUnlink, Transfer
<1>17. CASE FailLink(c)
  BY <1>1, <1>17 DEF FailLink, Throw
<1> HIDE DEF Secured, Durable, Returning, At, Goto, Step, Change, Recovering, Loaded, Reading,
             TypeOK, ControlOK, LocalsOK, FilesOK, Entries, Procs, files, locals, DiskGen, Gen, Holds
<1> QED
  BY <1>2, <1>3, <1>4, <1>5, <1>6, <1>7, <1>8, <1>9, <1>10, <1>11, <1>12, <1>13, <1>14, <1>15,
     <1>16, <1>17
     DEF ConsumerStep

\* The worker's part of the invariant.
Working(c) == Acting(c) /\ Settleable(c) /\ Placed(c) /\ Secured(c)

WorkerOK == Filled /\ DiskFilled /\ \A c \in Consumers : Working(c)

LEMMA WorkingInit == Init => WorkerOK
<1> SUFFICES ASSUME Init PROVE WorkerOK
  OBVIOUS
<1>1. Filled /\ DiskFilled
  BY NamesDiffer DEF Init, Filled, DiskFilled
<1>2. ASSUME NEW c \in Consumers
      PROVE  pc[c] = "idle" /\ got[c] = 0 /\ op[c] = "none"
  BY DEF Init, Procs
<1>3. ASSUME NEW c \in Consumers
      PROVE  Working(c)
  BY <1>2, <1>3
     DEF Working, Acting, Settleable, Placed, Secured, Durable, Returning, At, AckSteps, FailSteps,
         LoadSteps, SweepSteps, Recovering, Claiming, Holding, Retired, Loaded, Reading
<1> QED BY <1>1, <1>3 DEF WorkerOK

\* Between two calls, and after a crash, the names are the worker's no longer.
LEMMA RestingPlaces ==
  ASSUME NEW c \in Consumers, pc'[c] \in {"idle", "lock", "ensureFailed"}
  PROVE  Placed(c)' /\ Secured(c)'
BY DEF Placed, Secured, Durable, Returning, At, Recovering, Claiming, Holding, Retired, Loaded, Reading

\* A producer's rename leaves the claim alone, and what it makes pending is new.
LEMMA ProducerWorking ==
  ASSUME TypeOK, NEW p \in Producers, Publish(p) \/ ProducerStep(p) \/ ProducerCrash(p),
         NEW c \in Consumers, Working(c)
  PROVE  Working(c)'
<1>1. pc'[c] = pc[c] /\ op' = op /\ ret' = ret /\ got' = got /\ verdict' = verdict
  BY ProducerNames
<1>2. CASE fs' = fs /\ content' = content
  <2>1. disk'["processing"] \in {disk["processing"], fs["processing"]}
    BY NamesDiffer
       DEF Publish, ProducerStep, ProducerCrash, AssertPublished, WriteRejected, SyncParent,
           SyncParentFails, EndWrite, Step, Sync, files, TypeOK, FilesOK, Entries
  <2> QED
    BY <1>1, <1>2, <2>1
       DEF Working, Acting, Settleable, Placed, Secured, Durable, Returning, At, Owned, Links,
           DiskGen, Gen, Holds
<1>3. CASE Publish(p) /\ \E i \in Unused :
             fs' = [fs EXCEPT !["json"] = i] /\ content' = [content EXCEPT ![i] = nextGen]
  <2>1. PICK i \in Unused :
          fs' = [fs EXCEPT !["json"] = i] /\ content' = [content EXCEPT ![i] = nextGen]
    BY <1>3
  <2>2. disk' = disk
    BY <1>3 DEF Publish
  <2>3. /\ fs'["json"] = i /\ i # None
        /\ \A n \in FileNames \ {"json"} : fs'[n] = fs[n] /\ fs[n] # i
    BY <2>1, NamesDiffer, QueueAssumption DEF Unused, Free, TypeOK, FilesOK, Entries
  <2>4. /\ content'[fs["processing"]] = content[fs["processing"]]
        /\ content'[disk["processing"]] = content[disk["processing"]]
    BY <2>1, FileKeepsContent, NamesDiffer
  <2>5. Acting(c)' /\ Settleable(c)'
    BY <1>1, <2>3, NamesDiffer DEF Working, Acting, Settleable, At
  <2>6. Placed(c)'
    BY <1>1, <2>3, NamesDiffer DEF Working, Placed, Returning, At, Owned, Links
  <2>7. Secured(c)'
    BY <1>1, <2>2, <2>3, <2>4, NamesDiffer
       DEF Working, Secured, Durable, Returning, At, DiskGen, Gen, Holds
  <2> QED BY <2>5, <2>6, <2>7 DEF Working
<1> QED BY <1>2, <1>3, ProducerNames

LEMMA WorkingNext ==
  ASSUME OneWorker, TypeOK, TransferOK, WorkerOK, [Next]_vars
  PROVE  WorkerOK'
<1>1. Filled' /\ DiskFilled'
  BY FilledNext DEF WorkerOK, Working
<1>2. ASSUME NEW c \in Consumers, ConsumerStep(c)
      PROVE  Working(c)'
  BY <1>2, ActingStep, SettleableStep, PlacedStep, SecuredStep
     DEF WorkerOK, Working, TransferOK
<1>3. ASSUME NEW c \in Consumers, ConsumerCall(c) \/ Crash(c)
      PROVE  Working(c)'
  <2>1. pc'[c] \in {"idle", "lock", "ensureFailed"}
    BY <1>3
       DEF ConsumerCall, Load, LoadPending, Ack, MoveToFailed, Call, Crash, Goto, TypeOK,
           ControlOK, Procs
  <2> QED
    BY <1>3, <2>1, ActingStep, SettleableStep, RestingPlaces DEF WorkerOK, Working, TransferOK
<1>4. ASSUME NEW p \in Producers, Publish(p) \/ ProducerStep(p) \/ ProducerCrash(p)
      PROVE  \A c \in Consumers : Working(c)'
  BY <1>4, ProducerWorking DEF WorkerOK
<1>5. CASE PowerLoss
  <2>1. \A c \in Consumers : pc'[c] = "idle" /\ got'[c] = 0 /\ op'[c] = "none"
    BY <1>5 DEF PowerLoss, Procs
  <2>2. ASSUME NEW c \in Consumers
        PROVE  Acting(c)' /\ Settleable(c)'
    BY <2>1
       DEF Acting, Settleable, At, AckSteps, FailSteps, LoadSteps, SweepSteps, Recovering,
           Claiming, Loaded, Reading
  <2> QED BY <1>1, <2>1, <2>2, RestingPlaces DEF WorkerOK, Working
<1>6. CASE RemoveStaleLock \/ UNCHANGED vars
  <2>1. UNCHANGED <<files, pc, locals>>
    BY <1>6 DEF RemoveStaleLock, vars
  <2> QED
    BY <1>1, <2>1
       DEF WorkerOK, Working, Acting, Settleable, Placed, Secured, Durable, Returning, At, Owned,
           Links, DiskGen, Gen, Holds, files, locals
<1>7. \A c, d \in Consumers : c = d
  BY DEF OneWorker
<1> QED BY <1>1, <1>2, <1>3, <1>4, <1>5, <1>6, <1>7 DEF Next, WorkerOK

\* At each step of a load, an acknowledgement or a quarantine the names are as
\* the operation's tests and syncs left them, under every fault.
THEOREM WorkerHolds == ASSUME OneWorker PROVE Spec => []WorkerOK
<1>1. TypeOK /\ TransferOK /\ WorkerOK /\ [Next]_vars => WorkerOK'
  BY WorkingNext
<1> QED BY <1>1, WorkingInit, TypeCorrect, TransferHolds, PTL DEF Spec

-----------------------------------------------------------------------------
(* The files implement QueueEntry.                                         *)

\* What the abstract entry is made of.
LEMMA EntryValues ==
  /\ Pending = IF fs["json"] \notin {None, fs["processing"]} THEN Gen("json")
               ELSE IF fs["json"] = None /\ fs["entry"] # fs["processing"] THEN Gen("entry") ELSE 0
  /\ Claimant = IF fs["processing"] = fs["failed"] THEN 0 ELSE Gen("processing")
  /\ \A n \in FileNames : fs[n] = None => Gen(n) = 0
BY DEF Pending, Claimant, Gen, Holds

LEMMA SameEntry ==
  ASSUME \A n \in FileNames \ {"delivered"} : fs'[n] = fs[n] /\ Gen(n)' = Gen(n),
         nextGen' = nextGen
  PROVE  UNCHANGED Promise!entry
<1>1. \A n \in {"json", "processing", "entry", "failed"} : fs'[n] = fs[n] /\ Gen(n)' = Gen(n)
  BY NamesDiffer
<1>2. Pending' = Pending /\ Claimant' = Claimant /\ Gen("failed")' = Gen("failed")
  BY <1>1 DEF Pending, Claimant
<1> QED BY <1>2 DEF Promise!entry

\* Each rename, link and unlink of the worker is a step of the entry or none.
LEMMA MoveKeepsPromise ==
  ASSUME TypeOK, Filled, NEW c \in Consumers, Transfer(c), Working(c),
         \/ Relink(c) \/ UnlinkEntry(c) \/ Link(c) \/ TakePending(c)
         \/ AckStart(c) \/ AckRename(c) \/ AckUnlink(c) \/ Sweep(c)
         \/ FailLink(c) \/ FailUnlink(c)
  PROVE  Promise!Next \/ UNCHANGED Promise!entry
<1>1. content' = content /\ nextGen' = nextGen
  BY DEF Relink, UnlinkEntry, Link, TakePending, AckStart, AckRename, AckUnlink, Sweep, FailLink,
         FailUnlink, Change, Step, Throw, Finish, files, budget
<1>2. /\ \A n, m \in FileNames : fs'[n] = fs[m] => Gen(n)' = Gen(m)
      /\ \A n \in FileNames : fs'[n] = None => Gen(n)' = 0
      /\ \A n \in FileNames : fs[n] = None => Gen(n) = 0
      /\ \A n \in FileNames : fs[n] # None => Gen(n) # 0
  BY <1>1 DEF Gen, Holds, Filled
<1>3. CASE \A n \in FileNames \ {"delivered"} : fs'[n] = fs[n]
  BY <1>1, <1>2, <1>3, SameEntry, NamesDiffer
<1> USE NamesDiffer, <1>2
    DEF Change, Step, Throw, Finish, files, TypeOK, FilesOK, Entries, Pending, Claimant
<1>4. CASE AckStart(c) \/ AckUnlink(c) \/ Sweep(c)
  BY <1>3, <1>4 DEF AckStart, AckUnlink, Sweep
<1>5. CASE Relink(c)
  <2>1. CASE fs["json"] # None
    BY <1>3, <1>5, <2>1 DEF Relink
  <2>2. CASE fs["json"] = None
    <3>1. /\ fs'["json"] = fs["entry"]
          /\ \A n \in FileNames \ {"json"} : fs'[n] = fs[n]
      BY <1>5, <2>2 DEF Relink
    <3>2. fs["entry"] \notin {None, fs["processing"]}
      BY <1>5 DEF Relink, Working, Placed, At
    <3>3. Pending' = Pending /\ Claimant' = Claimant /\ Gen("failed")' = Gen("failed")
      BY <2>2, <3>1, <3>2
    <3> QED BY <1>1, <3>3 DEF Promise!entry
  <2> QED BY <2>1, <2>2
<1>6. CASE UnlinkEntry(c)
  <2>1. fs'["entry"] = None /\ \A n \in FileNames \ {"entry"} : fs'[n] = fs[n]
    BY <1>6 DEF UnlinkEntry
  <2>2. fs["json"] # None \/ fs["entry"] = fs["processing"]
    BY <1>6 DEF UnlinkEntry, Transfer, At
  <2>3. Pending' = Pending /\ Claimant' = Claimant /\ Gen("failed")' = Gen("failed")
    BY <2>1, <2>2
  <2> QED BY <1>1, <2>3 DEF Promise!entry
<1>7. CASE Link(c)
  <2>1. fs'["processing"] = fs["json"] /\ \A n \in FileNames \ {"processing"} : fs'[n] = fs[n]
    BY <1>7 DEF Link
  <2>2. fs["processing"] = None /\ fs["json"] # None /\ Owned("json")
    BY <1>7 DEF Link, Working, Placed, At
  <2>3. fs["failed"] # fs["json"]
    BY <2>2 DEF Owned, Links
  <2>4. /\ Pending # 0 /\ Claimant = 0 /\ Claimant' = Pending /\ Pending' = 0
        /\ Gen("failed")' = Gen("failed")
    BY <2>1, <2>2, <2>3
  <2> QED BY <1>1, <2>4 DEF Promise!Next, Promise!Claim
<1>8. CASE TakePending(c)
  <2>1. fs["json"] # None /\ fs["entry"] = None /\ fs["processing"] # None
    BY <1>8 DEF TakePending, Working, Placed, Transfer, Claiming, Holding, At
  <2>2. /\ fs'["json"] = None /\ fs'["entry"] = fs["json"]
        /\ fs'["processing"] = fs["processing"] /\ fs'["failed"] = fs["failed"]
    BY <1>8, <2>1 DEF TakePending
  <2>3. Pending' = Pending /\ Claimant' = Claimant /\ Gen("failed")' = Gen("failed")
    BY <2>1, <2>2
  <2> QED BY <1>1, <2>3 DEF Promise!entry
<1>9. CASE AckRename(c)
  <2>1. /\ fs'["processing"] = None /\ fs'["json"] = fs["json"]
        /\ fs'["entry"] = fs["entry"] /\ fs'["failed"] = fs["failed"]
    BY <1>9 DEF AckRename
  <2>2. fs["entry"] = None /\ fs["processing"] # None /\ fs["json"] # fs["processing"]
    BY <1>9
       DEF AckRename, Working, Placed, Acting, Settleable, AckSteps, Holding, At
  <2>3. /\ Pending' = Pending /\ Claimant' = 0 /\ Gen("failed")' = Gen("failed")
    BY <2>1, <2>2
  <2> QED BY <1>1, <2>3 DEF Promise!Next, Promise!Acknowledge, Promise!entry
<1>10. CASE FailLink(c) /\ fs["failed"] # None
  BY <1>3, <1>10 DEF FailLink
<1>11. CASE FailLink(c) /\ fs["failed"] = None
  <2>1. fs'["failed"] = fs["processing"] /\ \A n \in FileNames \ {"failed"} : fs'[n] = fs[n]
    BY <1>11 DEF FailLink
  <2>2. fs["processing"] # None
    BY <1>11 DEF FailLink, Working, Placed, Holding, At
  <2>3. /\ Pending' = Pending /\ Claimant # 0 /\ Claimant' = 0
        /\ Gen("failed") = 0 /\ Gen("failed")' = Claimant
    BY <1>11, <2>1, <2>2
  <2> QED BY <1>1, <2>3 DEF Promise!Next, Promise!Quarantine
<1>12. CASE FailUnlink(c)
  <2>1. fs'["processing"] = None /\ \A n \in FileNames \ {"processing"} : fs'[n] = fs[n]
    BY <1>12 DEF FailUnlink
  <2>2. /\ fs["processing"] # None /\ fs["failed"] = fs["processing"]
        /\ fs["entry"] = None /\ fs["json"] # fs["processing"]
    BY <1>12
       DEF FailUnlink, Working, Placed, Acting, Settleable, Transfer, FailSteps, Holding, At
  <2>3. Pending' = Pending /\ Claimant' = Claimant /\ Gen("failed")' = Gen("failed")
    BY <2>1, <2>2
  <2> QED BY <1>1, <2>3 DEF Promise!entry
<1> HIDE DEF Change, Step, Throw, Finish, files, TypeOK, FilesOK, Entries, Pending, Claimant
<1> QED BY <1>4, <1>5, <1>6, <1>7, <1>8, <1>9, <1>10, <1>11, <1>12

\* A migration rewrites the claim and keeps its generation.
LEMMA MigrateKeepsPromise ==
  ASSUME TypeOK, NEW c \in Consumers, Working(c), MigratePublish(c)
  PROVE  UNCHANGED Promise!entry
<1>1. PICK i \in Unused :
        /\ fs' = [fs EXCEPT !["processing"] = i]
        /\ content' = [content EXCEPT ![i] = Holds(pin[c])]
  BY DEF MigratePublish
<1>2. /\ fs'["processing"] = i
      /\ \A n \in FileNames \ {"processing"} : fs'[n] = fs[n] /\ fs[n] # i
  BY <1>1, NamesDiffer DEF TypeOK, FilesOK, Entries, Unused, Free
<1>3. /\ fs["processing"] = pin[c] /\ fs["processing"] # None
      /\ fs["json"] # pin[c] /\ fs["failed"] # pin[c] /\ fs["entry"] = None
  BY NamesDiffer
     DEF MigratePublish, AssertCurrent, Links, Working, Placed, Holding, Loaded, Reading, At
<1>4. /\ content'[i] = Gen("processing") /\ i # None
      /\ \A n \in FileNames : content'[fs[n]] = content[fs[n]]
  BY <1>1, <1>3, FileKeepsContent, QueueAssumption DEF Unused, Gen
<1>5. /\ Gen("processing")' = Gen("processing")
      /\ \A n \in FileNames \ {"processing"} : Gen(n)' = Gen(n)
  BY <1>2, <1>4 DEF Gen, Holds
<1>6. Pending' = Pending /\ Claimant' = Claimant /\ Gen("failed")' = Gen("failed")
  BY <1>2, <1>3, <1>4, <1>5, EntryValues, NamesDiffer DEF Pending, Claimant
<1> QED BY <1>6 DEF MigratePublish, Promise!entry, budget

\* An enqueue makes the next generation the pending one, whatever was pending.
LEMMA PublishKeepsPromise ==
  ASSUME TypeOK, NEW p \in Producers, Publish(p)
  PROVE  Promise!Enqueue
<1>1. PICK i \in Unused :
        fs' = [fs EXCEPT !["json"] = i] /\ content' = [content EXCEPT ![i] = nextGen]
  BY DEF Publish
<1>2. nextGen \in Nat /\ nextGen' = nextGen + 1
  BY QueueAssumption DEF Publish, TypeOK, BudgetOK
<1>3. /\ fs'["json"] = i
      /\ \A n \in FileNames \ {"json"} : fs'[n] = fs[n] /\ fs[n] # i
  BY <1>1, NamesDiffer DEF TypeOK, FilesOK, Entries, Unused, Free
<1>4. /\ content'[i] = nextGen /\ i # None
      /\ \A n \in FileNames : content'[fs[n]] = content[fs[n]]
  BY <1>1, FileKeepsContent, QueueAssumption DEF Unused
<1>5. Gen("json")' = nextGen /\ \A n \in FileNames \ {"json"} : Gen(n)' = Gen(n)
  BY <1>3, <1>4 DEF Gen, Holds
<1>6. Pending' = nextGen /\ Claimant' = Claimant /\ Gen("failed")' = Gen("failed")
  BY <1>3, <1>4, <1>5, NamesDiffer DEF Pending, Claimant
<1> QED BY <1>2, <1>6 DEF Promise!Enqueue

LEMMA PromiseStep ==
  ASSUME TypeOK, TransferOK, WorkerOK, [Next]_vars
  PROVE  [Promise!Next \/ PowerLoss]_Promise!entry
<1>1. ASSUME \A n \in FileNames : fs'[n] = fs[n], content' = content, nextGen' = nextGen
      PROVE  UNCHANGED Promise!entry
  BY <1>1, SameEntry DEF Gen, Holds
<1>2. ASSUME NEW c \in Consumers, ConsumerStep(c)
      PROVE  Promise!Next \/ UNCHANGED Promise!entry
  BY <1>1, <1>2, NameSteps, MoveKeepsPromise, MigrateKeepsPromise DEF WorkerOK, TransferOK
<1>3. ASSUME NEW p \in Producers, Publish(p) \/ ProducerStep(p) \/ ProducerCrash(p)
      PROVE  Promise!Next \/ UNCHANGED Promise!entry
  BY <1>1, <1>3, ProducerNames, PublishKeepsPromise DEF Promise!Next
<1>4. CASE RemoveStaleLock \/ UNCHANGED vars \/ \E c \in Consumers : ConsumerCall(c) \/ Crash(c)
  <2>1. nextGen' = nextGen
    BY <1>4
       DEF RemoveStaleLock, vars, budget, ConsumerCall, Load, LoadPending, Ack, MoveToFailed, Call,
           Crash
  <2> QED BY <1>1, <1>4, <2>1, QuietFrame
<1> QED BY <1>2, <1>3, <1>4 DEF Next

\* One worker and any number of producers keep the promise of an entry through
\* sync failures, refused links, crashes and power losses: an enqueue, the claim,
\* the acknowledgement and the quarantine each happen at one system call, and
\* nothing in between brings a claimed generation back or drops a pending one.
THEOREM QueueKeepsPromise == ASSUME OneWorker PROVE Spec => KeepsPromise
<1>1. Init => Promise!Init
  BY NamesDiffer DEF Init, Promise!Init, Pending, Claimant, Gen, Holds
<1>2. TypeOK /\ TransferOK /\ WorkerOK /\ [Next]_vars
        => [Promise!Next \/ PowerLoss]_Promise!entry
  BY PromiseStep
<1> QED
  BY <1>1, <1>2, TypeCorrect, TransferHolds, WorkerHolds, PTL DEF Spec, KeepsPromise

\* Only a load that returns makes a generation the worker's.
LEMMA OnlyReturnGives ==
  ASSUME TypeOK, [Next]_vars, NEW c \in Consumers, got'[c] \notin {0, got[c]}
  PROVE  (CallbackReturns(c) \/ Migrated(c)) /\ got'[c] = Holds(pin[c])
<1> USE DEF Step, Change, Throw, Finish, Decide, TypeOK, LocalsOK, locals
<1>1. ASSUME NEW d \in Consumers, ConsumerStep(d)
      PROVE  (CallbackReturns(c) \/ Migrated(c)) /\ got'[c] = Holds(pin[c])
  <2>1. got'[c] # got[c] /\ got'[c] # 0
    OBVIOUS
  <2>2. CASE CallbackReturns(d) \/ Migrated(d)
    BY <2>1, <2>2 DEF CallbackReturns, Migrated, Return
  <2>3. ~SyncStep(d) /\ ~SyncFails(d) /\ ~LinkRefused(d) /\ ~LockTimeout(d) /\ ~AcquireLock(d)
    BY <2>1 DEF SyncStep, SyncFails, LinkRefused, LockTimeout, AcquireLock
  <2>4. ~Recover(d) /\ ~RecoverRejects(d) /\ ~Relink(d) /\ ~UnlinkEntry(d) /\ ~RmdirRecord(d)
    BY <2>1 DEF Recover, EmptyRecord, PutBack, RecoverRejects, Relink, UnlinkEntry, RmdirRecord
  <2>5. ~Claim(d) /\ ~ClaimNothing(d) /\ ~Link(d) /\ ~Retire(d) /\ ~MkdirRecord(d)
          /\ ~TakePending(d) /\ ~Claimed(d)
    BY <2>1
       DEF Claim, ClaimExisting, ClaimNothing, Link, Retire, MkdirRecord, TakePending, Claimed
  <2>6. ~Open(d) /\ ~OpenRejects(d) /\ ~Read(d) /\ ~CallbackMigrates(d) /\ ~CallbackThrows(d)
          /\ ~MigrateAssert(d) /\ ~MigratePublish(d)
    BY <2>1
       DEF Open, OpenRejects, Read, CallbackMigrates, CallbackThrows, MigrateAssert, MigratePublish
  <2>7. ~AckStart(d) /\ ~AckVerify(d) /\ ~AckRename(d) /\ ~AckUnlink(d) /\ ~AckDone(d)
          /\ ~Sweep(d) /\ ~SweepDone(d)
    BY <2>1
       DEF AckStart, AckVerify, AckRename, AckUnlink, AckDone, Sweep, SweepDone, Settle
  <2>8. ~Fail(d) /\ ~FailVerify(d) /\ ~FailLink(d) /\ ~FailUnlink(d) /\ ~FailDone(d)
    BY <2>1 DEF Fail, FailVerify, FailLink, FailUnlink, FailDone, Settle
  <2> HIDE DEF Step, Change, Throw, Finish, Decide, TypeOK, LocalsOK, locals
  <2> QED BY <1>1, <2>2, <2>3, <2>4, <2>5, <2>6, <2>7, <2>8 DEF ConsumerStep
<1>2. ASSUME NEW d \in Consumers, ConsumerCall(d) \/ Crash(d)
      PROVE  FALSE
  BY <1>2 DEF ConsumerCall, Load, LoadPending, Ack, MoveToFailed, Call, Crash
<1>3. ASSUME NEW p \in Producers, Publish(p) \/ ProducerStep(p) \/ ProducerCrash(p)
      PROVE  FALSE
  BY <1>3, ProducerNames
<1>4. ~PowerLoss
  BY DEF PowerLoss
<1>5. ~(RemoveStaleLock \/ UNCHANGED vars)
  BY DEF RemoveStaleLock, vars
<1> QED BY <1>1, <1>2, <1>3, <1>4, <1>5 DEF Next

\* A worker's load returns what is durable: the claim is synced before it, on
\* every path that leads to it, and no fault in between goes unnoticed.
THEOREM LoadsAreDurable == ASSUME OneWorker PROVE Spec => LoadedIsDurable
<1> DEFINE Loads == \A c \in Consumers :
                      got'[c] \notin {0, got[c]} /\ Gen("processing") = got'[c]
                        => DiskGen("processing") = got'[c]
<1>1. TypeOK /\ WorkerOK /\ [Next]_vars => [Loads]_vars
  <2> SUFFICES ASSUME TypeOK, WorkerOK, [Next]_vars, NEW c \in Consumers,
                      got'[c] \notin {0, got[c]}, Gen("processing") = got'[c]
               PROVE  DiskGen("processing") = got'[c]
    OBVIOUS
  <2>1. pc[c] \in {"callback", "migrated"}
    BY OnlyReturnGives DEF CallbackReturns, Migrated, At
  <2> QED BY <2>1 DEF WorkerOK, Working, Secured, Durable, Loaded, Reading
<1> QED BY <1>1, TypeCorrect, WorkerHolds, PTL DEF Spec, LoadedIsDurable

-----------------------------------------------------------------------------
(* What is settled stays gone while the power stays on.                    *)

\* The steps after the claim has been given up, and those after that is durable.
GivenUp ==
  {"markerSync", "ackVerify", "ackSync", "ackUnlink", "ackedSync", "ackDone", "evidenceSync",
   "repairSync", "failVerify", "movedSync", "failDone"}

GoneFromDisk == {"ackVerify", "ackUnlink", "ackedSync", "ackDone", "failVerify", "failDone"}

\* On the way from a load to its settlement: the generation is the claim's, no
\* durable pending file has it, and a quarantine moves just this generation.
Closing(c) ==
  /\ pc[c] \in Loaded \/ Returning(c, "claimed") => DiskGen("json") # Gen("processing")
  /\ pc[c] \in Reading => Holds(pin[c]) = Gen("processing")
  /\ got[c] # 0 => /\ Gen("json") # got[c] /\ DiskGen("json") # got[c]
                   /\ Gen("processing") \in {0, got[c]} /\ got[c] < nextGen
  /\ pc[c] \in GivenUp => fs["processing"] = None
  /\ pc[c] \in GoneFromDisk => disk["processing"] = None
  /\ pc[c] \in {"failedSync", "failUnlink", "movedSync", "failDone"} => Gen("failed") = got[c]

\* No name a load reads has generation g, now or on disk.
Gone(g) ==
  /\ Gen("json") # g /\ Gen("processing") # g /\ Gen("entry") # g
  /\ DiskGen("json") # g /\ DiskGen("processing") # g

ClosingOK ==
  /\ \A c \in Consumers : Closing(c)
  /\ \A g \in settled : Gone(g) /\ g # 0 /\ g < nextGen
  /\ Recoverable

\* The generations after a step that writes no file.
LEMMA MovedGens ==
  ASSUME TypeOK, EntriesKept, content' = content
  PROVE  /\ \A n, m \in FileNames : fs'[n] = fs[m] => Gen(n)' = Gen(m)
         /\ \A n \in FileNames : fs'[n] = None => Gen(n)' = 0
         /\ \A n \in FileNames : fs[n] = None => Gen(n) = 0
         /\ \A n \in FileNames : disk'[n] = disk[n] => DiskGen(n)' = DiskGen(n)
         /\ \A n \in FileNames : disk'[n] = fs[n] => DiskGen(n)' = Gen(n)
         /\ disk'["processing"] = None => DiskGen("processing")' = 0
         /\ fs["processing"] # None => Gen("processing") # 0 /\ Gen("processing") < nextGen
         /\ fs["processing"] \notin {None, fs["json"]} => Gen("json") # Gen("processing")
<1>1. Filled /\ Alone /\ \A i \in Inodes : content[i] < nextGen
  BY DEF EntriesKept, Numbered
<1>2. fs["processing"] # None => fs["processing"] \in Inodes
  BY EntryValue, NamesDiffer DEF TypeOK, FilesOK
<1> QED BY <1>1, <1>2, NamesDiffer DEF Gen, DiskGen, Holds, Filled, Alone

LEMMA ClosingStep ==
  ASSUME OneWorker, TypeOK, EntriesKept, NEW c \in Consumers, Transfer(c), Working(c), Closing(c),
         ConsumerStep(c), ~MigratePublish(c)
  PROVE  Closing(c)'
<1>1. content' = content /\ nextGen' = nextGen
  BY ConsumerFrame, NameSteps
<1>2. /\ \A n, m \in FileNames : fs'[n] = fs[m] => Gen(n)' = Gen(m)
      /\ \A n \in FileNames : fs'[n] = None => Gen(n)' = 0
      /\ \A n \in FileNames : fs[n] = None => Gen(n) = 0
      /\ \A n \in FileNames : disk'[n] = disk[n] => DiskGen(n)' = DiskGen(n)
      /\ \A n \in FileNames : disk'[n] = fs[n] => DiskGen(n)' = Gen(n)
      /\ fs["processing"] # None => Gen("processing") # 0 /\ Gen("processing") < nextGen
      /\ fs["processing"] \notin {None, fs["json"]} => Gen("json") # Gen("processing")
  BY <1>1, MovedGens
<1>3. \A i : Holds(i)' = Holds(i)
  BY <1>1 DEF Holds
<1>4. /\ Placed(c) /\ Acting(c) /\ Settleable(c)
  BY DEF Working
<1> USE NamesDiffer, <1>1, <1>2, <1>3, <1>4
    DEF Closing, Returning, At, Goto, Step, Change, Recovering, Loaded, Reading, GivenUp,
        GoneFromDisk, TypeOK, ControlOK, LocalsOK, FilesOK, Entries, Procs, files, locals
<1>5. ASSUME Finish(c), fs' = fs, disk' = disk
      PROVE  Closing(c)'
  BY <1>5 DEF Finish
<1>6. CASE SyncStep(c)
  <2>1. fs' = fs /\ ret' = ret /\ got' = got /\ pin' = pin
    BY <1>6 DEF SyncStep
  <2>2. /\ disk'["json"] \in {disk["json"], fs["json"]}
        /\ disk'["processing"] \in {disk["processing"], fs["processing"]}
        /\ pc[c] \in {"resync", "claimSync", "retiredSync", "markerSync", "ackSync", "repairSync",
                      "movedSync"}
             => disk'["json"] = fs["json"] /\ disk'["processing"] = fs["processing"]
    BY <1>6 DEF SyncStep, Sync, Synced, QueueNames, RecordNames, RootNames, FailedNames
  <2> QED
    BY <1>6, <2>1, <2>2, AfterSyncValue, ReturnedValue
       DEF SyncStep, SyncSteps, Placed, Retired, Holding
<1>7. CASE SyncFails(c) \/ LinkRefused(c) \/ LockTimeout(c) \/ RecoverRejects(c) \/ ClaimNothing(c)
             \/ OpenRejects(c) \/ CallbackThrows(c)
  BY <1>5, <1>7
     DEF SyncFails, LinkRefused, LockTimeout, RecoverRejects, ClaimNothing, OpenRejects,
         CallbackThrows, Throw
<1>8. CASE AcquireLock(c)
  BY <1>8, FirstStepValue, FirstStepPlaces DEF AcquireLock
<1>9. CASE Recover(c)
  BY <1>9, ReturnedValue DEF Recover, EmptyRecord, PutBack
<1>10. CASE Relink(c) /\ fs["json"] # None
  BY <1>5, <1>10 DEF Relink, Throw
<1>11. ASSUME pc[c] \in LoadSteps \cup SweepSteps, got'[c] = got[c]
       PROVE  got'[c] = 0
  BY <1>11
     DEF Acting, LoadSteps, SweepSteps, Claiming
<1>12. CASE Relink(c) /\ fs["json"] = None
  BY <1>11, <1>12 DEF Relink, LoadSteps
<1>13. CASE UnlinkEntry(c) \/ RmdirRecord(c)
  BY <1>11, <1>13 DEF UnlinkEntry, RmdirRecord, LoadSteps
<1>14. CASE Claim(c) \/ Link(c) \/ Retire(c) \/ MkdirRecord(c) \/ TakePending(c)
  BY <1>11, <1>14
     DEF Claim, ClaimExisting, Link, Retire, MkdirRecord, TakePending, LoadSteps, Claiming, Placed
<1>15. CASE Claimed(c) \/ Open(c) \/ CallbackMigrates(c)
  BY <1>15 DEF Claimed, Open, CallbackMigrates, Gen
<1>16. CASE Read(c) \/ MigrateAssert(c) \/ AckVerify(c)
  BY <1>5, <1>16 DEF Read, MigrateAssert, AckVerify, Throw
<1>17. CASE CallbackReturns(c) \/ Migrated(c)
  BY <1>17 DEF CallbackReturns, Migrated, Return, Decide, Placed, Holding, Retired
<1>18. CASE AckStart(c) \/ AckRename(c) \/ AckUnlink(c)
  BY <1>18 DEF AckStart, AckRename, AckUnlink
<1>19. CASE AckDone(c) \/ FailVerify(c) \/ FailDone(c)
  BY <1>5, <1>19 DEF AckDone, FailVerify, FailDone, Settle, Throw, Decide
<1>20. CASE Sweep(c) \/ SweepDone(c)
  BY <1>5, <1>11, <1>20 DEF Sweep, SweepDone, Throw, SweepSteps
<1>21. CASE Fail(c) \/ FailUnlink(c)
  BY <1>21 DEF Fail, FailUnlink, Transfer
<1>22. CASE FailLink(c)
  BY <1>5, <1>22 DEF FailLink, Throw, Placed, Holding, Acting, FailSteps
<1> HIDE DEF Closing, Returning, At, Goto, Step, Change, Recovering, Loaded, Reading, GivenUp,
             GoneFromDisk, TypeOK, ControlOK, LocalsOK, FilesOK, Entries, Procs, files, locals
<1> QED
  BY <1>6, <1>7, <1>8, <1>9, <1>10, <1>12, <1>13, <1>14, <1>15, <1>16, <1>17, <1>18, <1>19,
     <1>20, <1>21, <1>22
     DEF ConsumerStep

\* A new file changes no generation of the others, on disk or of descriptors.
LEMMA NewFileGens ==
  ASSUME TypeOK, NEW i \in Unused, NEW g, content' = [content EXCEPT ![i] = g],
         NEW k \in FileNames, fs' = [fs EXCEPT ![k] = i], disk' = disk
  PROVE  /\ Gen(k)' = g
         /\ \A n \in FileNames \ {k} : fs'[n] = fs[n] /\ Gen(n)' = Gen(n)
         /\ \A n \in FileNames : DiskGen(n)' = DiskGen(n)
<1>1. /\ content'[i] = g /\ i # None
      /\ \A n \in FileNames :
           content'[fs[n]] = content[fs[n]] /\ content'[disk[n]] = content[disk[n]]
  BY FileKeepsContent, QueueAssumption DEF Unused
<1>2. fs'[k] = i /\ \A n \in FileNames \ {k} : fs'[n] = fs[n]
  BY NamesDiffer DEF TypeOK, FilesOK, Entries
<1> QED BY <1>1, <1>2 DEF Gen, DiskGen, Holds

\* And the descriptors keep what they hold.
LEMMA NewFilePins ==
  ASSUME TypeOK, NEW i \in Unused, NEW g, content' = [content EXCEPT ![i] = g],
         NEW p \in Procs, pin'[p] = pin[p]
  PROVE  Holds(pin[p])' = Holds(pin[p])
<1>1. pin[p] # i
  BY DEF Unused
<1>2. content'[pin[p]] = content[pin[p]]
  BY <1>1 DEF TypeOK, FilesOK, ControlOK, Unused
<1> QED BY <1>2 DEF Holds

LEMMA ClosingMigrates ==
  ASSUME TypeOK, NEW c \in Consumers, Working(c), Closing(c), MigratePublish(c)
  PROVE  /\ Closing(c)'
         /\ \A n \in FileNames : Gen(n)' = Gen(n) /\ DiskGen(n)' = DiskGen(n)
         /\ fs'["entry"] = fs["entry"]
<1>1. PICK i \in Unused :
        /\ fs' = [fs EXCEPT !["processing"] = i]
        /\ content' = [content EXCEPT ![i] = Holds(pin[c])]
  BY DEF MigratePublish
<1>2. fs["processing"] = pin[c] /\ disk' = disk /\ pin' = pin
  BY DEF MigratePublish, AssertCurrent, Links
<1>3. /\ Gen("processing")' = Holds(pin[c])
      /\ \A n \in FileNames \ {"processing"} : fs'[n] = fs[n] /\ Gen(n)' = Gen(n)
      /\ \A n \in FileNames : DiskGen(n)' = DiskGen(n)
  BY <1>1, <1>2, NewFileGens, NamesDiffer
<1>4. \A n \in FileNames : Gen(n)' = Gen(n) /\ DiskGen(n)' = DiskGen(n)
  BY <1>2, <1>3 DEF Gen
<1>5. Holds(pin[c])' = Holds(pin[c])
  BY <1>1, <1>2, NewFilePins DEF Procs
<1>6. /\ At(c, "migratePublish") /\ pc'[c] = "migrateSync"
      /\ got' = got /\ nextGen' = nextGen
  BY DEF MigratePublish, Goto, At, locals, budget, TypeOK, ControlOK, Procs
<1>7. Closing(c)'
  BY <1>4, <1>5, <1>6, NamesDiffer
     DEF Closing, At, Loaded, Reading, Returning, Recovering, GivenUp, GoneFromDisk
<1> QED BY <1>3, <1>4, <1>7, NamesDiffer

LEMMA ClosingProducer ==
  ASSUME TypeOK, EntriesKept, NEW p \in Producers, Publish(p) \/ ProducerStep(p) \/ ProducerCrash(p),
         NEW c \in Consumers, Working(c), Closing(c)
  PROVE  Closing(c)'
<1>1. pc'[c] = pc[c] /\ pin'[c] = pin[c] /\ ret' = ret /\ got' = got
  BY ProducerNames
<1>2. CASE fs' = fs /\ content' = content /\ nextGen' = nextGen
  <2>1. \/ disk'["json"] = disk["json"] /\ disk'["processing"] = disk["processing"]
        \/ disk'["json"] = fs["json"] /\ disk'["processing"] = fs["processing"]
    BY NamesDiffer
       DEF Publish, ProducerStep, ProducerCrash, AssertPublished, WriteRejected, SyncParent,
           SyncParentFails, EndWrite, Step, Sync, files, TypeOK, FilesOK, Entries, QueueNames
  <2>2. /\ \A n \in FileNames : Gen(n)' = Gen(n)
        /\ Holds(pin[c])' = Holds(pin[c])
        /\ DiskGen("json")' \in {DiskGen("json"), Gen("json")}
    BY <1>1, <1>2, <2>1 DEF Gen, DiskGen, Holds
  <2>3. pc[c] \in Loaded \/ Returning(c, "claimed") => Gen("json") # Gen("processing")
    BY MovedGens, <1>2 DEF Working, Placed, Holding, Retired
  <2> QED
    BY <1>1, <1>2, <2>1, <2>2, <2>3, NamesDiffer
       DEF Closing, Returning, GivenUp, GoneFromDisk
<1>3. CASE Publish(p) /\ \E i \in Unused :
             fs' = [fs EXCEPT !["json"] = i] /\ content' = [content EXCEPT ![i] = nextGen]
  <2>1. PICK i \in Unused :
          fs' = [fs EXCEPT !["json"] = i] /\ content' = [content EXCEPT ![i] = nextGen]
    BY <1>3
  <2>2. /\ disk' = disk /\ nextGen' = nextGen + 1 /\ nextGen \in Nat
    BY <1>3, QueueAssumption DEF Publish, TypeOK, BudgetOK
  <2>3. /\ Gen("json")' = nextGen
        /\ \A n \in FileNames \ {"json"} : fs'[n] = fs[n] /\ Gen(n)' = Gen(n)
        /\ \A n \in FileNames : DiskGen(n)' = DiskGen(n)
    BY <2>1, <2>2, NewFileGens, NamesDiffer
  <2>4. Holds(pin[c])' = Holds(pin[c])
    BY <1>1, <2>1, NewFilePins DEF Procs
  <2>5. got[c] \in Nat
    BY QueueAssumption DEF TypeOK, LocalsOK, Gens
  <2> QED
    BY <1>1, <2>2, <2>3, <2>4, <2>5, NamesDiffer
       DEF Closing, Returning, GivenUp, GoneFromDisk
<1> QED
  <2>1. fs' = fs /\ content' = content => nextGen' = nextGen \/ Publish(p)
    BY ProducerNames
  <2> QED BY <1>2, <1>3, ProducerNames

\* The names a load reads get their files from each other only.
LEMMA LiveFrom ==
  ASSUME TypeOK, NEW c \in Consumers, ConsumerStep(c), ~MigratePublish(c)
  PROVE  \A n \in {"json", "processing", "entry"} :
           fs'[n] = None \/ \E m \in {"json", "processing", "entry"} : fs'[n] = fs[m]
<1> USE NamesDiffer DEF Change, Step, Throw, files, TypeOK, FilesOK, Entries
<1>1. CASE Relink(c) \/ UnlinkEntry(c) \/ Link(c) \/ TakePending(c)
  BY <1>1 DEF Relink, UnlinkEntry, Link, TakePending
<1>2. CASE AckStart(c) \/ AckRename(c) \/ AckUnlink(c) \/ Sweep(c) \/ FailLink(c) \/ FailUnlink(c)
  BY <1>2 DEF AckStart, AckRename, AckUnlink, Sweep, FailLink, FailUnlink
<1> HIDE DEF Change, Step, Throw, files, TypeOK, FilesOK, Entries
<1> QED BY <1>1, <1>2, NameSteps, NamesDiffer

LEMMA GoneStep ==
  ASSUME TypeOK, EntriesKept, NEW c \in Consumers, ConsumerStep(c), ~MigratePublish(c),
         NEW g \in Nat \ {0}, Gone(g)
  PROVE  Gone(g)'
<1>1. content' = content
  BY ConsumerFrame
<1>2. \A n \in {"json", "processing", "entry"} :
        fs'[n] = None \/ \E m \in {"json", "processing", "entry"} : fs'[n] = fs[m]
  BY LiveFrom
<1>3. \A n \in {"json", "processing"} : disk'[n] \in {fs[n], disk[n]}
  BY FilesFrom, NamesDiffer
<1> QED BY <1>1, <1>2, <1>3 DEF Gone, Gen, DiskGen, Holds

\* The end of a transition reports the generation it was called for.
LEMMA SettledFrom ==
  ASSUME TypeOK, NEW c \in Consumers, Acting(c), Closing(c), ConsumerStep(c)
  PROVE  \/ settled' = settled
         \/ /\ settled' = settled \cup {got[c]} /\ got[c] # 0
            /\ pc[c] \in {"ackDone", "failVerify", "failDone"}
            /\ fs' = fs /\ disk' = disk /\ content' = content
<1> USE DEF Step, Change, Throw, Finish, history
<1>1. CASE SyncStep(c) \/ SyncFails(c) \/ LinkRefused(c) \/ LockTimeout(c) \/ AcquireLock(c)
  BY <1>1 DEF SyncStep, SyncFails, LinkRefused, LockTimeout, AcquireLock
<1>2. CASE Recover(c) \/ RecoverRejects(c) \/ Relink(c) \/ UnlinkEntry(c) \/ RmdirRecord(c)
  BY <1>2 DEF Recover, EmptyRecord, PutBack, RecoverRejects, Relink, UnlinkEntry, RmdirRecord
<1>3. CASE Claim(c) \/ ClaimNothing(c) \/ Link(c) \/ Retire(c) \/ MkdirRecord(c)
             \/ TakePending(c) \/ Claimed(c)
  BY <1>3 DEF Claim, ClaimExisting, ClaimNothing, Link, Retire, MkdirRecord, TakePending, Claimed
<1>4. CASE Open(c) \/ OpenRejects(c) \/ Read(c) \/ CallbackReturns(c) \/ CallbackMigrates(c)
             \/ CallbackThrows(c) \/ MigrateAssert(c) \/ MigratePublish(c) \/ Migrated(c)
  BY <1>4
     DEF Open, OpenRejects, Read, CallbackReturns, CallbackMigrates, CallbackThrows,
         MigrateAssert, MigratePublish, Migrated, Return
<1>5. CASE AckStart(c) \/ AckVerify(c) \/ AckRename(c) \/ AckUnlink(c) \/ Sweep(c) \/ SweepDone(c)
             \/ Fail(c) \/ FailLink(c) \/ FailUnlink(c)
  BY <1>5
     DEF AckStart, AckVerify, AckRename, AckUnlink, Sweep, SweepDone, Fail, FailLink, FailUnlink
<1>6. CASE AckDone(c) \/ FailDone(c)
  BY <1>6
     DEF AckDone, FailDone, Settle, Acting, AckSteps, FailSteps, Closing, At, files
<1>7. CASE FailVerify(c)
  BY <1>7 DEF FailVerify, Settle, Acting, FailSteps, At, files
<1> HIDE DEF Step, Change, Throw, Finish, history
<1> QED BY <1>1, <1>2, <1>3, <1>4, <1>5, <1>6, <1>7 DEF ConsumerStep

\* What is reported as settled is gone.
LEMMA ReportedIsGone ==
  ASSUME TypeOK, NEW c \in Consumers, Working(c), Closing(c), got[c] # 0,
         pc[c] \in {"ackDone", "failVerify", "failDone"}
  PROVE  Gone(got[c]) /\ got[c] < nextGen
BY DEF Gone, Working, Settleable, Closing, GivenUp, GoneFromDisk, Gen, DiskGen, Holds

\* The claim of a record that holds an entry is given up only without one.
LEMMA RecoverableStep ==
  ASSUME TypeOK, NEW c \in Consumers, Transfer(c), Working(c), Recoverable,
         ConsumerStep(c), ~MigratePublish(c)
  PROVE  Recoverable'
<1> USE NamesDiffer
    DEF Change, Step, Throw, Finish, files, TypeOK, FilesOK, Entries, Recoverable, Working,
        Settleable, Acting, At
<1>1. CASE \A n \in FileNames : fs'[n] = fs[n]
  BY <1>1
<1>2. CASE Relink(c) \/ UnlinkEntry(c) \/ Link(c)
  BY <1>2 DEF Relink, UnlinkEntry, Link, Transfer
<1>3. CASE TakePending(c)
  BY <1>3 DEF TakePending, Placed, Holding, Claiming
<1>4. CASE AckStart(c) \/ AckUnlink(c) \/ Sweep(c) \/ FailLink(c)
  BY <1>4 DEF AckStart, AckUnlink, Sweep, FailLink
<1>5. CASE AckRename(c)
  BY <1>5 DEF AckRename, AckSteps
<1>6. CASE FailUnlink(c)
  BY <1>6 DEF FailUnlink, FailSteps
<1> HIDE DEF Change, Step, Throw, Finish, files, TypeOK, FilesOK, Entries, Recoverable, Working,
             Settleable, Acting, At
<1> QED BY <1>1, <1>2, <1>3, <1>4, <1>5, <1>6, NameSteps

LEMMA ClosingInit == Init => ClosingOK
<1> SUFFICES ASSUME Init PROVE ClosingOK
  OBVIOUS
<1>1. \A c \in Consumers : pc[c] = "idle" /\ got[c] = 0
  BY DEF Init, Procs
<1>2. settled = {} /\ Recoverable
  BY NamesDiffer DEF Init, Recoverable
<1> QED
  BY <1>1, <1>2
     DEF ClosingOK, Closing, Returning, Recovering, Loaded, Reading, GivenUp, GoneFromDisk

LEMMA ConsumerClosing ==
  ASSUME OneWorker, TypeOK, TransferOK, EntriesKept, WorkerOK, ClosingOK,
         NEW c \in Consumers, ConsumerStep(c)
  PROVE  ClosingOK'
<1>1. Transfer(c) /\ Working(c) /\ Closing(c) /\ Recoverable
  BY DEF TransferOK, WorkerOK, ClosingOK
<1>2. nextGen' = nextGen
  BY NameSteps
<1>3. \A g \in settled : g \in Nat \ {0} /\ Gone(g) /\ g < nextGen
  BY QueueAssumption DEF ClosingOK, TypeOK, HistoryOK, Gens
<1>4. CASE MigratePublish(c)
  <2>1. /\ Closing(c)' /\ fs'["entry"] = fs["entry"]
        /\ \A n \in FileNames : Gen(n)' = Gen(n) /\ DiskGen(n)' = DiskGen(n)
    BY <1>1, <1>4, ClosingMigrates
  <2>2. settled' = settled
    BY <1>4 DEF MigratePublish, history
  <2>3. \A g \in settled : Gone(g)'
    BY <1>3, <2>1, NamesDiffer DEF Gone
  <2>4. fs["entry"] = None
    BY <1>1, <1>4 DEF MigratePublish, Working, Placed, Loaded, Reading, At
  <2>5. \A d \in Consumers : Closing(d)'
    BY <2>1 DEF OneWorker
  <2> QED
    BY <1>2, <1>3, <2>1, <2>2, <2>3, <2>4, <2>5 DEF ClosingOK, Recoverable
<1>5. CASE ~MigratePublish(c)
  <2>1. Closing(c)'
    BY <1>1, <1>5, ClosingStep
  <2>2. \A d \in Consumers : Closing(d)'
    BY <2>1 DEF OneWorker
  <2>3. Recoverable'
    BY <1>1, <1>5, RecoverableStep
  <2>4. \A g \in settled : Gone(g)'
    BY <1>3, <1>5, GoneStep
  <2>5. CASE settled' = settled
    BY <1>2, <1>3, <2>2, <2>3, <2>4, <2>5 DEF ClosingOK
  <2>6. CASE /\ settled' = settled \cup {got[c]} /\ got[c] # 0
             /\ pc[c] \in {"ackDone", "failVerify", "failDone"}
             /\ fs' = fs /\ disk' = disk /\ content' = content
    <3>1. PICK g \in Nat \ {0} : g = got[c] /\ Gone(g) /\ g < nextGen
      BY <1>1, <2>6, ReportedIsGone, QueueAssumption DEF TypeOK, LocalsOK, Gens
    <3>2. Gone(g)'
      BY <1>5, <3>1, GoneStep
    <3>3. settled' = settled \cup {g}
      BY <2>6, <3>1
    <3>4. \A h \in settled' : Gone(h)' /\ h # 0 /\ h < nextGen'
      BY <1>2, <1>3, <2>4, <3>1, <3>2, <3>3
    <3> QED BY <2>2, <2>3, <3>4 DEF ClosingOK
  <2> QED BY <1>1, <2>5, <2>6, SettledFrom DEF Working
<1> QED BY <1>4, <1>5

LEMMA ProducerClosing ==
  ASSUME TypeOK, EntriesKept, WorkerOK, ClosingOK,
         NEW p \in Producers, Publish(p) \/ ProducerStep(p) \/ ProducerCrash(p)
  PROVE  ClosingOK'
<1>1. \A c \in Consumers : Closing(c)'
  BY ClosingProducer DEF WorkerOK, ClosingOK
<1>2. settled' = settled
  BY DEF Publish, ProducerStep, ProducerCrash, AssertPublished, WriteRejected, SyncParent,
         SyncParentFails, EndWrite, Step, history
<1>3. \A g \in settled : g \in Nat /\ Gone(g) /\ g # 0 /\ g < nextGen
  BY QueueAssumption DEF ClosingOK, TypeOK, HistoryOK, Gens
<1>4. CASE fs' = fs /\ content' = content /\ nextGen' = nextGen
  <2>1. \A n \in {"json", "processing"} : disk'[n] \in {fs[n], disk[n]}
    BY NamesDiffer
       DEF Publish, ProducerStep, ProducerCrash, AssertPublished, WriteRejected, SyncParent,
           SyncParentFails, EndWrite, Step, Sync, files, TypeOK, FilesOK, Entries
  <2>2. \A g \in settled : Gone(g)'
    BY <1>3, <1>4, <2>1 DEF Gone, Gen, DiskGen, Holds
  <2> QED BY <1>1, <1>2, <1>3, <1>4, <2>2 DEF ClosingOK, Recoverable
<1>5. CASE Publish(p) /\ \E i \in Unused :
             fs' = [fs EXCEPT !["json"] = i] /\ content' = [content EXCEPT ![i] = nextGen]
  <2>1. PICK i \in Unused :
          fs' = [fs EXCEPT !["json"] = i] /\ content' = [content EXCEPT ![i] = nextGen]
    BY <1>5
  <2>2. /\ disk' = disk /\ nextGen' = nextGen + 1 /\ nextGen \in Nat
    BY <1>5, QueueAssumption DEF Publish, TypeOK, BudgetOK
  <2>3. /\ Gen("json")' = nextGen
        /\ \A n \in FileNames \ {"json"} : fs'[n] = fs[n] /\ Gen(n)' = Gen(n)
        /\ \A n \in FileNames : DiskGen(n)' = DiskGen(n)
    BY <2>1, <2>2, NewFileGens, NamesDiffer
  <2>4. \A g \in settled : Gone(g)' /\ g < nextGen'
    BY <1>3, <2>2, <2>3, NamesDiffer DEF Gone
  <2>5. Recoverable'
    BY <2>3, NamesDiffer DEF ClosingOK, Recoverable
  <2> QED BY <1>1, <1>2, <1>3, <2>4, <2>5 DEF ClosingOK
<1> QED
  <2>1. fs' = fs /\ content' = content => nextGen' = nextGen \/ Publish(p)
    BY ProducerNames
  <2> QED BY <1>4, <1>5, ProducerNames

LEMMA ClosingNext ==
  ASSUME OneWorker, PowerStaysOn, TypeOK, TransferOK, EntriesKept, WorkerOK, ClosingOK, [Next]_vars
  PROVE  ClosingOK'
<1>1. ~PowerLoss
  BY DEF PowerLoss, Fault, PowerStaysOn
<1>2. ASSUME fs' = fs, disk' = disk, content' = content, nextGen' = nextGen, settled' = settled,
             \A c \in Consumers : Closing(c)'
      PROVE  ClosingOK'
  BY <1>2 DEF ClosingOK, Recoverable, Gone, Gen, DiskGen, Holds
<1>3. ASSUME NEW c \in Consumers, ConsumerCall(c) \/ Crash(c)
      PROVE  ClosingOK'
  <2>1. fs' = fs /\ disk' = disk /\ content' = content
    BY <1>3, QuietFrame
  <2>2. nextGen' = nextGen /\ settled' = settled
    BY <1>3 DEF ConsumerCall, Load, LoadPending, Ack, MoveToFailed, Call, Crash, budget, history
  <2>3. got'[c] \in {0, got[c]} /\ pc'[c] \in {"idle", "lock", "ensureFailed"}
    BY <1>3
       DEF ConsumerCall, Load, LoadPending, Ack, MoveToFailed, Call, Crash, Goto, Decide, TypeOK,
           ControlOK, LocalsOK, Procs
  <2>4. \A n \in FileNames : Gen(n)' = Gen(n) /\ DiskGen(n)' = DiskGen(n)
    BY <2>1 DEF Gen, DiskGen, Holds
  <2>5. Closing(c)'
    BY <2>2, <2>3, <2>4, NamesDiffer
       DEF ClosingOK, Closing, Returning, Recovering, Loaded, Reading, GivenUp, GoneFromDisk
  <2>6. \A d \in Consumers : Closing(d)'
    BY <2>5 DEF OneWorker
  <2> QED BY <1>2, <2>1, <2>2, <2>6
<1>4. CASE RemoveStaleLock \/ UNCHANGED vars
  <2>1. /\ UNCHANGED <<files, pin, pc, locals>> /\ nextGen' = nextGen /\ settled' = settled
    BY <1>4 DEF RemoveStaleLock, vars, budget, history
  <2>2. \A c \in Consumers : Closing(c)'
    BY <2>1 DEF ClosingOK, Closing, Returning, Gen, DiskGen, Holds, files, locals
  <2> QED BY <1>2, <2>1, <2>2 DEF files
<1> QED BY <1>1, <1>3, <1>4, ConsumerClosing, ProducerClosing DEF Next

\* The invariant of one worker while the power stays on.
THEOREM ClosingHolds == ASSUME OneWorker, PowerStaysOn PROVE Spec => []ClosingOK
<1>1. TypeOK /\ TransferOK /\ EntriesKept /\ WorkerOK /\ ClosingOK /\ [Next]_vars => ClosingOK'
  BY ClosingNext
<1> QED
  BY <1>1, ClosingInit, EntriesStay, TypeCorrect, TransferHolds, WorkerHolds, PTL DEF Spec

\* An entry whose acknowledgement or quarantine returned success is never found
\* by a load again, in the names or on the disk, whatever syncs and links fail
\* and wherever the worker or a producer crashes.
THEOREM SettledEntriesStayGone ==
  ASSUME OneWorker, PowerStaysOn PROVE Spec => []SettledStaysGone
<1>1. ClosingOK => SettledStaysGone
  BY DEF ClosingOK, Gone, SettledStaysGone, Live
<1> QED BY <1>1, ClosingHolds, PTL

\* A retirement that was interrupted can be recovered, without the exceptions that
\* RetirementRecoverable makes for other callers and for power losses: the claim its
\* record was made for is there as long as the record holds an entry, in every state.
THEOREM RetirementsAreRecoverable ==
  ASSUME OneWorker, PowerStaysOn PROVE Spec => []Recoverable /\ RetirementRecoverable
<1>1. ClosingOK => Recoverable
  BY DEF ClosingOK
<1>2. []Recoverable => RetirementRecoverable
  BY PTL DEF RetirementRecoverable
<1> QED BY <1>1, <1>2, ClosingHolds, PTL

-----------------------------------------------------------------------------
(* An acknowledgement removes the generation it was called for.            *)

\* The descriptor of a load, and what it returned, are the claim's.
Bound(c) ==
  /\ pc[c] \in Reading => Holds(pin[c]) = Gen("processing")
  /\ got[c] # 0 => Gen("processing") \in {0, got[c]}

AllBound == \A c \in Consumers : Bound(c)

LEMMA BoundMigrates ==
  ASSUME TypeOK, NEW c \in Consumers, Bound(c), MigratePublish(c)
  PROVE  Bound(c)'
<1>1. PICK i \in Unused :
        /\ fs' = [fs EXCEPT !["processing"] = i]
        /\ content' = [content EXCEPT ![i] = Holds(pin[c])]
  BY DEF MigratePublish
<1>2. fs["processing"] = pin[c] /\ disk' = disk /\ pin' = pin /\ got' = got
  BY DEF MigratePublish, AssertCurrent, Links, locals
<1>3. Gen("processing")' = Gen("processing") /\ Gen("processing") = Holds(pin[c])
  BY <1>1, <1>2, NewFileGens, NamesDiffer DEF Gen
<1>4. Holds(pin[c])' = Holds(pin[c])
  BY <1>1, <1>2, NewFilePins DEF Procs
<1> QED BY <1>2, <1>3, <1>4 DEF Bound

LEMMA ConsumerBound ==
  ASSUME OneWorker, TypeOK, NEW c \in Consumers, Working(c), Bound(c),
         ConsumerStep(c) \/ ConsumerCall(c) \/ Crash(c)
  PROVE  Bound(c)'
<1>1. Placed(c) /\ Acting(c)
  BY DEF Working
<1> USE NamesDiffer, <1>1
    DEF Bound, At, Goto, Step, Change, Reading, TypeOK, ControlOK, LocalsOK, FilesOK, Entries,
        Procs, files, locals, Gen, Holds
<1>2. ASSUME UNCHANGED <<content, got>>, fs'["processing"] \in {None, fs["processing"]},
             pc'[c] \notin Reading
      PROVE  Bound(c)'
  BY <1>2
<1>3. ASSUME UNCHANGED <<content, pin, got>>, fs'["processing"] = fs["processing"],
             pc[c] \in Reading
      PROVE  Bound(c)'
  BY <1>3
<1>4. ASSUME pc[c] \in LoadSteps, got'[c] = got[c], pc'[c] \notin Reading
      PROVE  Bound(c)'
  BY <1>4 DEF Acting, LoadSteps, Recovering, Claiming, Loaded
<1>5. CASE SyncStep(c)
  BY <1>3, <1>5, AfterSyncValue, ReturnedValue DEF SyncStep, SyncSteps, Recovering
<1>6. CASE SyncFails(c) \/ LinkRefused(c) \/ LockTimeout(c) \/ RecoverRejects(c) \/ ClaimNothing(c)
             \/ OpenRejects(c) \/ CallbackThrows(c)
  BY <1>2, <1>6
     DEF SyncFails, LinkRefused, LockTimeout, RecoverRejects, ClaimNothing, OpenRejects,
         CallbackThrows, Throw, Finish
<1>7. CASE AcquireLock(c)
  BY <1>2, <1>3, <1>7, FirstStepValue, FirstStepPlaces DEF AcquireLock
<1>8. CASE Recover(c) \/ Relink(c) \/ UnlinkEntry(c) \/ RmdirRecord(c)
  <2>1. got'[c] = got[c] /\ pc[c] \in LoadSteps
    BY <1>8
       DEF Recover, EmptyRecord, PutBack, Relink, UnlinkEntry, RmdirRecord, Throw, Finish,
           LoadSteps, Recovering
  <2>2. CASE Recover(c)
    BY <2>1, <2>2, <1>4, ReturnedValue DEF Recover, EmptyRecord, PutBack
  <2>3. CASE Relink(c)
    BY <2>1, <2>3, <1>4 DEF Relink, Throw, Finish
  <2>4. CASE UnlinkEntry(c) \/ RmdirRecord(c)
    BY <2>1, <2>4, <1>4 DEF UnlinkEntry, RmdirRecord
  <2> QED BY <1>8, <2>2, <2>3, <2>4
<1>9. CASE Claim(c) \/ Link(c) \/ Retire(c) \/ MkdirRecord(c) \/ TakePending(c) \/ Claimed(c)
  BY <1>4, <1>9
     DEF Claim, ClaimExisting, Link, Retire, MkdirRecord, TakePending, Claimed, LoadSteps, Claiming,
         Loaded, Recovering
<1>10. CASE Open(c) \/ CallbackMigrates(c)
  BY <1>3, <1>10 DEF Open, CallbackMigrates
<1>11. CASE Read(c) \/ MigrateAssert(c) \/ AckVerify(c)
  BY <1>2, <1>3, <1>11 DEF Read, MigrateAssert, AckVerify, Throw, Finish
<1>12. CASE CallbackReturns(c) \/ Migrated(c)
  BY <1>12 DEF CallbackReturns, Migrated, Return, Decide
<1>13. CASE MigratePublish(c)
  BY <1>13, BoundMigrates
<1>14. CASE AckStart(c) \/ AckRename(c) \/ AckUnlink(c)
  BY <1>2, <1>14 DEF AckStart, AckRename, AckUnlink
<1>15. CASE AckDone(c) \/ FailVerify(c) \/ FailDone(c)
  BY <1>2, <1>15 DEF AckDone, FailVerify, FailDone, Settle, Throw, Finish, Decide
<1>16. CASE Sweep(c) \/ SweepDone(c) \/ Fail(c) \/ FailLink(c) \/ FailUnlink(c)
  BY <1>2, <1>16 DEF Sweep, SweepDone, Fail, FailLink, FailUnlink, Throw, Finish
<1>17. CASE ConsumerCall(c) \/ Crash(c)
  BY <1>17
     DEF ConsumerCall, Load, LoadPending, Ack, MoveToFailed, Call, Decide, Crash, OneWorker
<1> HIDE DEF Bound, At, Goto, Step, Change, Reading, TypeOK, ControlOK, LocalsOK, FilesOK, Entries,
             Procs, files, locals, Gen, Holds
<1> QED
  BY <1>5, <1>6, <1>7, <1>8, <1>9, <1>10, <1>11, <1>12, <1>13, <1>14, <1>15, <1>16, <1>17
     DEF ConsumerStep

LEMMA BoundNext ==
  ASSUME OneWorker, TypeOK, WorkerOK, AllBound, [Next]_vars
  PROVE  AllBound'
<1>1. ASSUME NEW c \in Consumers, ConsumerStep(c) \/ ConsumerCall(c) \/ Crash(c)
      PROVE  AllBound'
  <2>1. Bound(c)'
    BY <1>1, ConsumerBound DEF WorkerOK, AllBound
  <2> QED BY <2>1 DEF AllBound, OneWorker
<1>2. ASSUME NEW p \in Producers, Publish(p) \/ ProducerStep(p) \/ ProducerCrash(p),
             NEW c \in Consumers
      PROVE  Bound(c)'
  <2>1. pc'[c] = pc[c] /\ pin'[c] = pin[c] /\ got' = got
    BY <1>2, ProducerNames
  <2>2. CASE fs' = fs /\ content' = content
    BY <2>1, <2>2 DEF AllBound, Bound, Gen, Holds
  <2>3. CASE Publish(p) /\ \E i \in Unused :
               fs' = [fs EXCEPT !["json"] = i] /\ content' = [content EXCEPT ![i] = nextGen]
    <3>1. PICK i \in Unused :
            fs' = [fs EXCEPT !["json"] = i] /\ content' = [content EXCEPT ![i] = nextGen]
      BY <2>3
    <3>2. Gen("processing")' = Gen("processing")
      BY <2>3, <3>1, NewFileGens, NamesDiffer DEF Publish
    <3>3. Holds(pin[c])' = Holds(pin[c])
      BY <2>1, <3>1, NewFilePins DEF Procs
    <3> QED BY <2>1, <3>2, <3>3 DEF AllBound, Bound
  <2> QED BY <1>2, <2>2, <2>3, ProducerNames
<1>3. ASSUME PowerLoss, NEW c \in Consumers
      PROVE  Bound(c)'
  BY <1>3 DEF PowerLoss, Bound, Reading, Procs
<1>4. CASE RemoveStaleLock \/ UNCHANGED vars
  BY <1>4 DEF RemoveStaleLock, vars, files, locals, AllBound, Bound, Gen, Holds
<1> QED BY <1>1, <1>2, <1>3, <1>4 DEF Next, AllBound

\* Only an acknowledgement's rename adds to what is acknowledged.
LEMMA OnlyRenameAcks ==
  ASSUME TypeOK, [Next]_vars
  PROVE  acked' = acked \/ \E c \in Consumers : AckRename(c)
<1>1. ASSUME NEW c \in Consumers, ConsumerStep(c)
      PROVE  acked' = acked \/ AckRename(c)
  BY <1>1, NameSteps
     DEF Relink, UnlinkEntry, Link, TakePending, MigratePublish, AckStart, AckUnlink, Sweep,
         FailLink, FailUnlink, Throw, Step, history
<1>2. ASSUME NEW c \in Consumers, ConsumerCall(c) \/ Crash(c)
      PROVE  acked' = acked
  BY <1>2 DEF ConsumerCall, Load, LoadPending, Ack, MoveToFailed, Call, Crash, history
<1>3. ASSUME NEW p \in Producers, Publish(p) \/ ProducerStep(p) \/ ProducerCrash(p)
      PROVE  acked' = acked
  BY <1>3
     DEF Publish, ProducerStep, ProducerCrash, AssertPublished, WriteRejected, SyncParent,
         SyncParentFails, EndWrite, Step, history
<1>4. CASE PowerLoss \/ RemoveStaleLock \/ UNCHANGED vars
  BY <1>4 DEF PowerLoss, RemoveStaleLock, vars, history
<1> QED BY <1>1, <1>2, <1>3, <1>4 DEF Next

\* What docs/store.md says of an acknowledgement, it removes the generation it
\* was called for and no other, is true of a queue with one worker under every
\* fault; with two it is not (run queue_stale_ack).
THEOREM AckIsBound == ASSUME OneWorker PROVE Spec => AckIsGenerationBound
<1> DEFINE Acks == \A g \in acked' \ acked : \E c \in Consumers : At(c, "ackRename") /\ got[c] = g
<1>1. TypeOK /\ WorkerOK /\ AllBound /\ [Next]_vars => AllBound'
  BY BoundNext
<1>2. TypeOK /\ WorkerOK /\ AllBound /\ [Next]_vars => [Acks]_vars
  <2> SUFFICES ASSUME TypeOK, WorkerOK, AllBound, [Next]_vars, NEW g \in acked' \ acked
               PROVE  \E c \in Consumers : At(c, "ackRename") /\ got[c] = g
    OBVIOUS
  <2>1. PICK c \in Consumers : AckRename(c)
    BY OnlyRenameAcks
  <2>2. At(c, "ackRename") /\ g = Gen("processing")
    BY <2>1 DEF AckRename
  <2>3. got[c] # 0 /\ fs["processing"] # None
    BY <2>2 DEF WorkerOK, Working, Acting, AckSteps, Placed, Holding, At
  <2>4. Gen("processing") \in {0, got[c]} /\ Gen("processing") # 0
    BY <2>3, NamesDiffer DEF AllBound, Bound, WorkerOK, Filled
  <2> QED BY <2>2, <2>4
<1>3. Init => AllBound
  BY DEF Init, AllBound, Bound, Reading, Procs
<1> QED BY <1>1, <1>2, <1>3, TypeCorrect, WorkerHolds, PTL DEF Spec, AckIsGenerationBound
=============================================================================
