-------------------------- MODULE AtomicReplaceProofs --------------------------
(***************************************************************************)
(* Proofs about AtomicReplace, for every number of calls, processes and    *)
(* files, every choice of options and every kind and number of faults.     *)
(*                                                                         *)
(* The argument is about files that nobody else touches.  A temporary file *)
(* is not the destination, not the file of another call and not one that a *)
(* copy writes (TempApart, FdApart), so that what was written and synced   *)
(* under its check is what the rename brings (Filled, TempOnDisk).  Only   *)
(* where copyFallbackOnPermissionError allows it is the destination        *)
(* written in place (Route), and then after the receipt of it; a new file  *)
(* is empty until its admission gives one (ToldOK, Damage).                *)
(***************************************************************************)
EXTENDS AtomicReplace, TLAPS

-----------------------------------------------------------------------------
(* Types.                                                                  *)

Receipt == [state: {"none", "writing", "removed", "published"}, file: Places]
Contents == Bodies \cup {"none"}
Knowledge == {"none", "path", "identity"}
Results == {"done", "failed", "restored", "restore-failed"}
CallState == [pc: Steps, id: Places, fd: Places, file: Places, orig: Contents,
              blank: Places, byFd: BOOLEAN, exists: BOOLEAN, reg: Knowledge, refused: BOOLEAN,
              told: Receipt, tries: Nat,
              weak: BOOLEAN, end: Results]
CallStates == [Calls -> CallState]

\* The part of the state that the properties are about; a restore has a snapshot.
Typed ==
  /\ setup \in Setups
  /\ dest \in Places /\ body \in [Inodes -> Bodies]
  /\ disk \in [entry: Places, body: [Inodes -> Bodies]]
  /\ temp \in [Calls -> Places] /\ call \in CallStates
  /\ up \in SUBSET Procs
  /\ \A c \in Calls : call[c].pc \in {"restore", "restoring", "restoreSync"} => Snapshot(c)

\* A file that is created is one that nothing refers to.
LEMMA FreshIsNew ==
  ASSUME CanCreate
  PROVE  Fresh \in Inodes /\ Fresh \notin Busy
  BY DEF CanCreate, Fresh

LEMMA InitTyped == Init => Typed
<1> SUFFICES ASSUME Init PROVE Typed
  OBVIOUS
<1>1. NewCall \in CallState
  BY DEF NewCall, CallState, Receipt, Contents, Knowledge, Results, Steps, Waiting, Settled, Places
<1>2. (CHOOSE i \in Inodes : TRUE) \in Inodes
  BY ReplaceAssumption
<1>3. dest \in Places
  BY <1>2 DEF Init, Places
<1> QED
  BY <1>1, <1>3 DEF Init, Typed, CallStates, Places, Bodies, Whole, NewCall

LEMMA StepNames ==
  /\ "queued" \in Steps /\ "lock" \in Steps /\ "open" \in Steps /\ "identify" \in Steps
  /\ "fill" \in Steps /\ "filled" \in Steps /\ "sync" \in Steps /\ "check" \in Steps
  /\ "dispatch" \in Steps /\ "rename" \in Steps /\ "verify" \in Steps /\ "dirsync" \in Steps
  /\ "verified" \in Steps /\ "finish" \in Steps /\ "unlink" \in Steps /\ "source" \in Steps
  /\ "truncate" \in Steps /\ "copy" \in Steps /\ "copied" \in Steps /\ "copySync" \in Steps
  /\ "restore" \in Steps /\ "restoring" \in Steps /\ "restoreSync" \in Steps
  /\ "remove" \in Steps /\ "removing" \in Steps /\ "create" \in Steps /\ "admit" \in Steps
  /\ "publish" \in Steps
  /\ "dead" \in Steps /\ \A result \in Results : result \in Steps
  BY DEF Steps, Waiting, Settled, Results

LEMMA PlaceNames == None \in Places /\ \A i \in Inodes : i \in Places
  BY DEF Places

LEMMA TellTyped ==
  ASSUME call \in CallStates, NEW c \in Calls,
         NEW s \in {"writing", "removed", "published"}, NEW f \in Places
  PROVE  Tell(c, s, f) \in Receipt
  BY DEF Tell, Receipt, CallState, CallStates

LEMMA RecordUpdate ==
  ASSUME NEW r \in CallState
  PROVE  /\ \A v \in Steps : [r EXCEPT !.pc = v] \in CallState
         /\ \A v \in Places : [r EXCEPT !.id = v] \in CallState
         /\ \A v \in Places : [r EXCEPT !.fd = v] \in CallState
         /\ \A v \in Places : [r EXCEPT !.file = v] \in CallState
         /\ \A v \in Contents : [r EXCEPT !.orig = v] \in CallState
         /\ \A v \in Places : [r EXCEPT !.blank = v] \in CallState
         /\ \A v \in BOOLEAN : [r EXCEPT !.byFd = v] \in CallState
         /\ \A v \in BOOLEAN : [r EXCEPT !.exists = v] \in CallState
         /\ \A v \in Knowledge : [r EXCEPT !.reg = v] \in CallState
         /\ \A v \in BOOLEAN : [r EXCEPT !.refused = v] \in CallState
         /\ \A v \in Receipt : [r EXCEPT !.told = v] \in CallState
         /\ \A v \in Nat : [r EXCEPT !.tries = v] \in CallState
         /\ \A v \in BOOLEAN : [r EXCEPT !.weak = v] \in CallState
         /\ \A v \in Results : [r EXCEPT !.end = v] \in CallState
  BY DEF CallState

\* Setting a field of one call to a value of its kind.
LEMMA SetPc == \A f \in CallStates, c \in Calls, v \in Steps : [f EXCEPT ![c].pc = v] \in CallStates
  BY RecordUpdate DEF CallStates
LEMMA SetId == \A f \in CallStates, c \in Calls, v \in Places : [f EXCEPT ![c].id = v] \in CallStates
  BY RecordUpdate DEF CallStates
LEMMA SetFd == \A f \in CallStates, c \in Calls, v \in Places : [f EXCEPT ![c].fd = v] \in CallStates
  BY RecordUpdate DEF CallStates
LEMMA SetFile == \A f \in CallStates, c \in Calls, v \in Places : [f EXCEPT ![c].file = v] \in CallStates
  BY RecordUpdate DEF CallStates
LEMMA SetOrig == \A f \in CallStates, c \in Calls, v \in Contents : [f EXCEPT ![c].orig = v] \in CallStates
  BY RecordUpdate DEF CallStates
LEMMA SetBlank == \A f \in CallStates, c \in Calls, v \in Places : [f EXCEPT ![c].blank = v] \in CallStates
  BY RecordUpdate DEF CallStates
LEMMA SetByFd == \A f \in CallStates, c \in Calls, v \in BOOLEAN : [f EXCEPT ![c].byFd = v] \in CallStates
  BY RecordUpdate DEF CallStates
LEMMA SetExists == \A f \in CallStates, c \in Calls, v \in BOOLEAN : [f EXCEPT ![c].exists = v] \in CallStates
  BY RecordUpdate DEF CallStates
LEMMA SetReg == \A f \in CallStates, c \in Calls, v \in Knowledge : [f EXCEPT ![c].reg = v] \in CallStates
  BY RecordUpdate DEF CallStates
LEMMA SetRefused == \A f \in CallStates, c \in Calls, v \in BOOLEAN : [f EXCEPT ![c].refused = v] \in CallStates
  BY RecordUpdate DEF CallStates
LEMMA SetTold == \A f \in CallStates, c \in Calls, v \in Receipt : [f EXCEPT ![c].told = v] \in CallStates
  BY RecordUpdate DEF CallStates
LEMMA SetTries == \A f \in CallStates, c \in Calls, v \in Nat : [f EXCEPT ![c].tries = v] \in CallStates
  BY RecordUpdate DEF CallStates
LEMMA SetWeak == \A f \in CallStates, c \in Calls, v \in BOOLEAN : [f EXCEPT ![c].weak = v] \in CallStates
  BY RecordUpdate DEF CallStates
LEMMA SetEnd == \A f \in CallStates, c \in Calls, v \in Results : [f EXCEPT ![c].end = v] \in CallStates
  BY RecordUpdate DEF CallStates

\* What a call is made of.
LEMMA CallFields ==
  ASSUME call \in CallStates, NEW c \in Calls
  PROVE  /\ call[c].id \in Places /\ call[c].fd \in Places /\ call[c].file \in Places
         /\ call[c].orig \in Contents /\ call[c].reg \in Knowledge /\ call[c].exists \in BOOLEAN
         /\ call[c].tries \in Nat /\ call[c].end \in Results /\ call[c].pc \in Steps
         /\ call[c].told \in Receipt /\ call[c].refused \in BOOLEAN /\ call[c].weak \in BOOLEAN
         /\ call[c].byFd \in BOOLEAN /\ call[c].blank \in Places
  BY DEF CallStates, CallState

Own(c) == Start(c) \/ Begin(c) \/ Lock(c) \/ Writing(c) \/ Renaming(c) \/ Copying(c) \/ Ending(c)

\* A step of one call leaves the others alone.
LEMMA CallsTyped ==
  ASSUME Typed, NEW c \in Calls, Own(c)
  PROVE  call' \in CallStates
<1> USE CallFields DEF Typed
<1>1. ASSUME NEW to \in Steps, Go(c, to)
      PROVE  call' \in CallStates
  BY <1>1, SetPc DEF Go
<1>2. Fails(c) \/ Refuses(c) => call' \in CallStates
  BY SetPc, SetEnd, SetRefused, StepNames DEF Fails, Refuses, Results
<1>3. ASSUME NEW result \in Results, FailsWith(c, result)
      PROVE  call' \in CallStates
  BY <1>3, SetPc, SetEnd, StepNames DEF FailsWith
<1>4. ASSUME FailsClosed(c)
      PROVE  call' \in CallStates
  <2>1. "finish" \in Steps /\ "failed" \in Results /\ None \in Places
    BY StepNames, PlaceNames DEF Results
  <2> QED
    BY <1>4, <2>1, SetPc, SetEnd, SetFd DEF FailsClosed
<1>5. ASSUME NEW result \in Results, NEW clean \in BOOLEAN, Ends(c, result, clean)
      PROVE  call' \in CallStates
  BY <1>5, SetPc, SetFd, SetFile, SetReg, StepNames, PlaceNames DEF Ends, Knowledge
<1>6. {"done", "failed", "restored", "restore-failed"} \subseteq Results
  BY DEF Results
<1>7. CASE Start(c) \/ Begin(c) \/ Lock(c)
  BY <1>1, <1>5, <1>6, <1>7, StepNames DEF Start, Begin, Lock
<1>8. CASE Open(c)
  <2>1. CASE Allowed(c)
    BY <1>8, <2>1, FreshIsNew, SetPc, SetFd, SetExists, SetReg, StepNames, PlaceNames
       DEF Open, Knowledge
  <2>2. CASE ~Allowed(c)
    BY <1>8, <2>2, SetPc, SetExists, SetRefused, SetEnd, StepNames DEF Open, Results
  <2> QED
    BY <2>1, <2>2
<1>9. CASE Identify(c)
  <2>1. CASE FailsClosed(c)
    BY <1>4, <2>1
  <2>2. CASE Allowed(c) /\ ~FailsClosed(c)
    BY <1>9, <2>2, SetPc, SetId, SetReg, SetFd, SetRefused, StepNames DEF Identify, Knowledge
  <2>3. CASE ~Allowed(c) /\ ~FailsClosed(c)
    BY <1>9, <2>3, SetPc, SetId, SetReg, SetFd, SetRefused, StepNames, PlaceNames
       DEF Identify, Knowledge
  <2> QED
    BY <2>1, <2>2, <2>3
<1>10. CASE Fill(c)
  BY <1>1, <1>4, <1>10, StepNames DEF Fill, AfterFill
<1>11. CASE SyncTemp(c)
  BY <1>1, <1>4, <1>11, SetPc, SetWeak, StepNames DEF SyncTemp
<1>12. CASE Check(c) \/ Dispatch(c) \/ RenameMissing(c)
  BY <1>1, <1>2, <1>12, StepNames DEF Check, Dispatch, RenameMissing
<1>13. CASE Rename(c)
  BY <1>1, <1>2, <1>13, StepNames DEF Rename
<1>14. CASE RenameRefused(c)
  BY <1>1, <1>2, <1>14, SetPc, SetTries, StepNames DEF RenameRefused
<1>15. CASE Verify(c)
  <2>1. CASE Published(c)
    BY <1>15, <2>1, TellTyped, SetExists, SetReg, SetPc, SetId, SetFd, SetTold, StepNames
       DEF Verify, Knowledge
  <2>2. CASE ~Published(c)
    BY <1>15, <2>2, SetExists, SetReg, SetPc, SetId, SetFd, SetTold, StepNames
       DEF Verify, Knowledge
  <2> QED
    BY <2>1, <2>2
<1>16. CASE DirSync(c)
  BY <1>1, <1>2, <1>3, <1>6, <1>16, SetPc, SetWeak, SetEnd, StepNames DEF DirSync
<1>17. CASE VerifyAgain(c)
  BY <1>2, <1>3, <1>6, <1>17 DEF VerifyAgain
<1>18. CASE Source(c)
  <2>1. ASSUME dest # None,
               call' = [call EXCEPT ![c].pc = "truncate", ![c].file = dest, ![c].orig = body[dest]]
        PROVE  call' \in CallStates
    <3>1. dest \in Places /\ body[dest] \in Contents
      BY <2>1 DEF Places, Contents
    <3> QED
      BY <2>1, <3>1, SetPc, SetFile, SetOrig, StepNames
  <2> QED
    BY <1>1, <1>2, <1>18, <2>1, StepNames DEF Source
<1>19. CASE Remove(c)
  BY <1>1, <1>2, <1>19, StepNames DEF Remove
<1>20. CASE Truncate(c)
  BY <1>2, <1>20, TellTyped, SetPc, SetTold, StepNames DEF Truncate
<1>21. CASE Removing(c)
  BY <1>21, TellTyped, SetPc, SetTold, StepNames, PlaceNames DEF Removing
<1>22. CASE Create(c)
  <2>1. CASE Allowed(c) /\ dest = None
    BY <1>22, <2>1, FreshIsNew, SetPc, SetFile, SetBlank, StepNames, PlaceNames DEF Create
  <2>2. CASE ~(Allowed(c) /\ dest = None)
    BY <1>2, <1>22, <2>2 DEF Create
  <2> QED
    BY <2>1, <2>2
<1>23. CASE Copy(c) \/ CopySync(c)
  BY <1>1, <1>2, <1>23, StepNames DEF Copy, CopySync, AfterCopy
<1>24. CASE CopyFails(c)
  <2>1. ASSUME NEW fd \in BOOLEAN, call' = [call EXCEPT ![c].pc = "restore", ![c].byFd = fd]
        PROVE  call' \in CallStates
    BY <2>1, SetPc, SetByFd, StepNames
  <2> QED
    BY <1>2, <1>24, <2>1 DEF CopyFails
<1>25. CASE Restore(c)
  <2>1. CASE MayRestore(c)
    BY <1>25, <2>1, TellTyped, SetPc, SetTold, StepNames DEF Restore
  <2>2. CASE ~MayRestore(c)
    BY <1>2, <1>25, <2>2 DEF Restore
  <2> QED
    BY <2>1, <2>2
<1>26. CASE RestoreSync(c) \/ RestoreFails(c)
  BY <1>2, <1>3, <1>6, <1>26 DEF RestoreSync, RestoreFails
<1>27. CASE Publish(c)
  <2>1. ASSUME NEW to \in Steps,
               call' = [call EXCEPT ![c].told = Tell(c, "published", call[c].file),
                                    ![c].file = None, ![c].pc = to]
        PROVE  call' \in CallStates
    BY <2>1, TellTyped, SetPc, SetFile, SetTold, PlaceNames
  <2> QED
    BY <1>2, <1>27, <2>1, StepNames DEF Publish
<1>28. CASE Finish(c) \/ Unlink(c) \/ CleanupFails(c)
  BY <1>1, <1>5, <1>28, StepNames DEF Finish, Unlink, CleanupFails
<1>29. CASE OperationFails(c)
  <2> DEFINE there == IF call[c].pc \in {"open", "verify"} THEN call[c].pc = "open"
                                                           ELSE call[c].exists
             known == IF call[c].pc = "verify" THEN "none" ELSE call[c].reg
  <2>1. there \in BOOLEAN /\ known \in Knowledge
    BY DEF Knowledge
  <2>2. call' = [call EXCEPT ![c].pc = "finish", ![c].end = "failed", ![c].exists = there,
                             ![c].reg = known]
    BY <1>29 DEF OperationFails, CallStates
  <2> HIDE DEF there, known
  <2> QED
    BY <1>6, <2>1, <2>2, SetPc, SetEnd, SetExists, SetReg, StepNames
<1>30. CASE Admit(c)
  BY <1>30, TellTyped, SetPc, SetTold, SetBlank, StepNames, PlaceNames DEF Admit
<1> QED
  BY <1>7, <1>8, <1>9, <1>10, <1>11, <1>12, <1>13, <1>14, <1>15, <1>16, <1>17, <1>18, <1>19,
     <1>20, <1>21, <1>22, <1>23, <1>24, <1>25, <1>26, <1>27, <1>28, <1>29,
     <1>30
     DEF Own, Writing, Renaming, Copying, Ending

LEMMA OthersStay ==
  ASSUME Typed, NEW c \in Calls, Own(c)
  PROVE  \A d \in Calls \ {c} : call'[d] = call[d]
<1> USE DEF Typed, CallStates
<1>1. CASE Start(c) \/ Begin(c) \/ Lock(c)
  BY <1>1, SMTT(40) DEF Start, Begin, Lock, Go, Ends
<1>2. CASE Writing(c)
  BY <1>2 DEF Writing, Open, Identify, Fill, SyncTemp, FailsClosed, Go
<1>3. CASE Renaming(c)
  BY <1>3 DEF Renaming, Check, Dispatch, Rename, RenameMissing, RenameRefused, Verify, DirSync,
              VerifyAgain, FailsWith, Fails, Refuses, Go
<1>4. CASE Copying(c)
  BY <1>4 DEF Copying, Source, Truncate, Remove, Removing, Create, Admit, Copy, CopySync, CopyFails,
              Restore, RestoreSync, RestoreFails, Publish, FailsWith, Fails, Refuses, Go
<1>5. CASE Ending(c)
  BY <1>5, SMTT(40) DEF Ending, Finish, Unlink, CleanupFails, OperationFails, Ends, Go
<1> QED
  BY <1>1, <1>2, <1>3, <1>4, <1>5 DEF Own

\* The choices and the processes stay.
LEMMA OwnFixed ==
  ASSUME NEW c \in Calls, Own(c)
  PROVE  setup' = setup /\ up' = up
<1>1. CASE Start(c) \/ Begin(c) \/ Lock(c)
  BY <1>1 DEF Start, Begin, Lock, Fixed, Quiet
<1>2. CASE Writing(c)
  BY <1>2 DEF Writing, Open, Identify, Fill, SyncTemp, Quiet
<1>3. CASE Renaming(c)
  BY <1>3 DEF Renaming, Check, Dispatch, Rename, RenameMissing, RenameRefused, Verify, DirSync,
              VerifyAgain, Quiet
<1>4. CASE Copying(c)
  BY <1>4 DEF Copying, Source, Truncate, Remove, Removing, Create, Admit, Copy, CopySync, CopyFails,
              Restore, RestoreSync, RestoreFails, Publish, Quiet
<1>5. CASE Ending(c)
  BY <1>5 DEF Ending, Finish, Unlink, CleanupFails, OperationFails, Fixed, Quiet
<1> QED
  BY <1>1, <1>2, <1>3, <1>4, <1>5 DEF Own

\* The steps of a call that leave the files alone.
Quietly(c) ==
  \/ Start(c) \/ Begin(c) \/ Lock(c) \/ Identify(c)
  \/ Check(c) \/ Dispatch(c) \/ RenameMissing(c) \/ RenameRefused(c) \/ Verify(c) \/ VerifyAgain(c)
  \/ Source(c) \/ Remove(c) \/ Admit(c) \/ CopyFails(c) \/ Publish(c)
  \/ Finish(c) \/ CleanupFails(c) \/ OperationFails(c)

LEMMA QuietlyLeaves ==
  ASSUME NEW c \in Calls, Quietly(c)
  PROVE  UNCHANGED <<dest, body, disk, temp>>
<1>1. CASE Start(c) \/ Begin(c) \/ Lock(c) \/ Identify(c)
  BY <1>1 DEF Start, Begin, Lock, Identify
<1>2. CASE Check(c) \/ Dispatch(c) \/ RenameMissing(c) \/ RenameRefused(c) \/ Verify(c) \/ VerifyAgain(c)
  BY <1>2 DEF Check, Dispatch, RenameMissing, RenameRefused, Verify, VerifyAgain
<1>3. CASE Source(c) \/ Remove(c) \/ Admit(c) \/ CopyFails(c) \/ Publish(c)
  BY <1>3 DEF Source, Remove, Admit, CopyFails, Publish
<1>4. CASE Finish(c) \/ CleanupFails(c) \/ OperationFails(c)
  BY <1>4 DEF Finish, CleanupFails, OperationFails
<1> QED
  BY <1>1, <1>2, <1>3, <1>4 DEF Quietly

FilesTyped ==
  /\ dest \in Places /\ body \in [Inodes -> Bodies]
  /\ disk \in [entry: Places, body: [Inodes -> Bodies]]
  /\ temp \in [Calls -> Places]

LEMMA BodyNames == {"empty", "part", "old", "foreign"} \subseteq Bodies /\ Calls \subseteq Bodies
  BY DEF Bodies, Whole

LEMMA OwnFilesTyped ==
  ASSUME Typed, NEW c \in Calls, Own(c)
  PROVE  FilesTyped'
<1> USE BodyNames, PlaceNames DEF FilesTyped, Typed
<1>1. CASE Quietly(c)
  BY <1>1, QuietlyLeaves
<1>2. CASE Open(c)
  BY <1>2, FreshIsNew DEF Open
<1>3. CASE Fill(c)
  BY <1>3 DEF Fill
<1>4. CASE SyncTemp(c)
  BY <1>4 DEF SyncTemp, Synced
<1>5. CASE Rename(c)
  <2>1. temp[c] \in Inodes
    BY <1>5 DEF Rename, Places
  <2> QED
    BY <1>5, <2>1, FreshIsNew DEF Rename
<1>6. CASE DirSync(c)
  BY <1>6 DEF DirSync, SyncEntry
<1>7. CASE Truncate(c) \/ Copy(c)
  BY <1>7 DEF Truncate, Copy
<1>8. CASE Removing(c) \/ Unlink(c)
  BY <1>8 DEF Removing, Unlink
<1>9. CASE Create(c)
  BY <1>9, FreshIsNew DEF Create
<1>10. CASE CopySync(c) \/ RestoreSync(c)
  BY <1>10 DEF CopySync, RestoreSync, Synced
<1>11. CASE Restore(c)
  <2>1. call[c].orig \in Bodies
    BY <1>11 DEF Restore, Snapshot, CallStates, CallState, Contents
  <2> QED
    BY <1>11, <2>1 DEF Restore
<1>12. CASE RestoreFails(c)
  BY <1>12 DEF RestoreFails
<1> QED
  BY <1>1, <1>2, <1>3, <1>4, <1>5, <1>6, <1>7, <1>8, <1>9, <1>10, <1>11, <1>12
     DEF Own, Writing, Renaming, Copying, Ending, Quietly

LEMMA EndedTyped ==
  ASSUME Typed, NEW S \in SUBSET Procs, Ended(S)
  PROVE  /\ call' \in CallStates /\ up' \in SUBSET Procs
         /\ \A c \in Calls : \/ call'[c] = call[c]
                             \/ call'[c] = Dead(c) /\ Home(c) \notin up'
<1>1. \A c \in Calls : Dead(c) \in CallState
  BY CallFields, RecordUpdate, StepNames, PlaceNames DEF Dead, Typed, Knowledge, CallStates
<1> QED
  BY <1>1 DEF Ended, Typed, CallStates

\* A step around the calls that ends no process.
Outside == Intrude \/ \E c \in Calls : Revoke(c) \/ Tidy(c)

LEMMA OutsideTyped ==
  ASSUME Typed, Outside
  PROVE  FilesTyped' /\ call' = call /\ setup' = setup /\ up' = up
<1> USE BodyNames, PlaceNames DEF FilesTyped, Typed
<1>1. CASE Intrude
  BY <1>1, FreshIsNew DEF Intrude, Quiet
<1>2. ASSUME NEW c \in Calls, Revoke(c) \/ Tidy(c)
      PROVE  FilesTyped' /\ call' = call /\ setup' = setup /\ up' = up
  BY <1>2 DEF Revoke, Tidy, Quiet
<1> QED
  BY <1>1, <1>2 DEF Outside

\* The end of processes: who ended, and the files that are left.
Dying == PowerLoss \/ \E h \in Procs : Crash(h) \/ Exit(h)

LEMMA DyingTyped ==
  ASSUME Typed, Dying
  PROVE  /\ FilesTyped' /\ setup' = setup
         /\ \E S \in SUBSET Procs : Ended(S)
         /\ up' # up
<1> USE BodyNames, PlaceNames DEF FilesTyped, Typed
<1>1. CASE PowerLoss
  <2>1. dest' \in Places
    BY <1>1 DEF PowerLoss
  <2>2. PICK kept \in {body[i] : i \in {dest'} \cap Inodes} \cup {"part"} :
          body' = [i \in Inodes |-> IF i = dest' /\ disk.body[i] # body[i] THEN kept ELSE body[i]]
    BY <1>1 DEF PowerLoss
  <2>3. kept \in Bodies
    BY <2>2
  <2>4. body' \in [Inodes -> Bodies]
    BY <2>2, <2>3
  <2> QED
    BY <1>1, <2>1, <2>4 DEF PowerLoss, Ended
<1>2. ASSUME NEW h \in Procs, Crash(h) \/ Exit(h)
      PROVE  /\ FilesTyped' /\ setup' = setup /\ Ended({h}) /\ up' # up
  BY <1>2 DEF Crash, Exit, Ended
<1> QED
  BY <1>1, <1>2 DEF Dying

LEMMA NextSteps ==
  Next <=> Outside \/ Dying \/ \E c \in Calls : Own(c)
  BY DEF Next, Outside, Dying, Own

LEMMA SnapshotsStay ==
  ASSUME Typed, NEW c \in Calls, Own(c)
  PROVE  call'[c].pc \in {"restore", "restoring", "restoreSync"} => call'[c].orig # "none"
<1> USE DEF Typed, CallStates, CallState, Snapshot
<1>1. CASE Start(c) \/ Begin(c) \/ Lock(c)
  BY <1>1, SMTT(40) DEF Start, Begin, Lock, Go, Ends
<1>2. CASE Writing(c)
  BY <1>2 DEF Writing, Open, Identify, Fill, SyncTemp, AfterFill, FailsClosed, Go
<1>3. CASE Renaming(c)
  BY <1>3 DEF Renaming, Check, Dispatch, Rename, RenameMissing, RenameRefused, Verify, DirSync,
              VerifyAgain, FailsWith, Fails, Refuses, Go
<1>4. CASE Source(c) \/ Truncate(c) \/ Remove(c) \/ Removing(c) \/ Create(c) \/ Admit(c)
  BY <1>4 DEF Source, Truncate, Remove, Removing, Create, Admit, Fails, Refuses, Go
<1>5. CASE Copy(c) \/ CopySync(c) \/ CopyFails(c) \/ Publish(c)
  BY <1>5 DEF Copy, CopySync, CopyFails, Publish, AfterCopy, Fails, Refuses, Go
<1>6. CASE Restore(c) \/ RestoreSync(c) \/ RestoreFails(c)
  BY <1>6 DEF Restore, RestoreSync, RestoreFails, FailsWith, Refuses
<1>7. CASE Finish(c) \/ Unlink(c) \/ CleanupFails(c)
  <2>1. call[c].end \notin {"restore", "restoring", "restoreSync"}
    BY DEF Results
  <2> QED
    BY <1>7, <2>1, SMTT(40) DEF Finish, Unlink, CleanupFails, Ends, Go
<1>8. CASE OperationFails(c)
  BY <1>8 DEF OperationFails
<1> QED
  BY <1>1, <1>2, <1>3, <1>4, <1>5, <1>6, <1>7, <1>8 DEF Own, Copying, Ending

LEMMA NextTyped ==
  ASSUME Typed, [Next]_vars
  PROVE  Typed'
<1>1. CASE Outside
  BY <1>1, OutsideTyped DEF Typed, FilesTyped, Snapshot
<1>2. CASE Dying
  <2>1. PICK S \in SUBSET Procs : Ended(S)
    BY <1>2, DyingTyped
  <2>2. \A c \in Calls : call'[c] = call[c] \/ call'[c] = Dead(c)
    BY <2>1, EndedTyped
  <2>3. ASSUME NEW c \in Calls, call'[c].pc \in {"restore", "restoring", "restoreSync"}
        PROVE  call'[c] = call[c]
    <3>1. Dead(c).pc \in Settled \cup {"idle"}
      BY DEF Dead, Typed, CallStates, CallState, Settled
    <3> QED
      BY <2>2, <2>3, <3>1 DEF Settled
  <2> QED
    BY <1>2, <2>1, <2>3, DyingTyped, EndedTyped DEF Typed, FilesTyped, Snapshot
<1>3. ASSUME NEW c \in Calls, Own(c)
      PROVE  Typed'
  <2>1. \A d \in Calls : call'[d].pc \in {"restore", "restoring", "restoreSync"}
                           => call'[d].orig # "none"
    BY <1>3, SnapshotsStay, OthersStay DEF Typed, Snapshot
  <2> QED
    BY <1>3, <2>1, CallsTyped, OwnFixed, OwnFilesTyped DEF Typed, FilesTyped, Snapshot
<1>4. CASE UNCHANGED vars
  BY <1>4 DEF Typed, vars, Snapshot
<1> QED
  BY <1>1, <1>2, <1>3, <1>4, NextSteps

\* Every variable that the properties are about has its type.
THEOREM ReplaceTyped == Spec => []Typed
<1>1. Init => Typed
  BY InitTyped
<1>2. Typed /\ [Next]_vars => Typed'
  BY NextTyped
<1> QED
  BY <1>1, <1>2, PTL DEF Spec

-----------------------------------------------------------------------------
(* What a call may be doing.                                               *)

Filling == {"identify", "fill", "filled", "sync"}
Ready == {"check", "dispatch", "rename"}
Overwriting == {"truncate", "copy", "copied", "copySync", "restore", "restoring", "restoreSync",
                "publish"}
CopySteps == Overwriting \cup {"source", "remove", "removing", "create", "admit"}
Over == {"finish", "unlink"} \cup Settled
Untold == Waiting \cup {"open", "source", "remove", "removing", "verify", "truncate"}
            \cup Filling \cup Ready

\* A call that was refused only cleans up.
Terminal(c) == call[c].refused => call[c].pc \in Over
\* Only a call with a fallback copies.
Route(c) == call[c].pc \in CopySteps => MayCopy(c)
\* A receipt of removal is followed by the creation and admission of a new file, a receipt of writing names the
\* file being written, and nothing is written in place before it.
ToldOK(c) ==
  /\ call[c].pc \in Untold => call[c].told.state = "none"
  /\ call[c].pc \in {"create", "admit"} => call[c].told.state \in {"none", "removed"}
  /\ call[c].pc = "admit" => Opt(c).active /\ call[c].blank = call[c].file
  /\ call[c].pc \in Overwriting =>
       /\ call[c].told.state \in {"none", "writing"}
       /\ call[c].told.state = "writing" => call[c].told.file = call[c].file
  /\ call[c].pc \in {"copy", "copied", "restoring"} /\ Opt(c).active
       => call[c].told.state = "writing"
  /\ call[c].told.state # "none" => Opt(c).active
\* The identity is recorded once the temporary file is open.
Unnamed(c) == call[c].pc \in Waiting \cup {"open", "identify"} => call[c].id = None
\* Success is decided after the destination was synced.
EndOK(c) == call[c].pc \notin {"verified"} \cup Over => call[c].end = "failed"

Control(c) == Terminal(c) /\ Route(c) /\ ToldOK(c) /\ Unnamed(c) /\ EndOK(c)

LEMMA TerminalStays ==
  ASSUME Typed, NEW c \in Calls, Own(c), Terminal(c)
  PROVE  call'[c].refused => call'[c].pc \in Over
<1> USE DEF Typed, CallStates, CallState, Terminal, Over
<1>1. CASE Start(c) \/ Begin(c) \/ Lock(c)
  BY <1>1, SMTT(40) DEF Start, Begin, Lock, Go, Ends, Settled
<1>2. CASE Writing(c)
  BY <1>2 DEF Writing, Open, Identify, Fill, SyncTemp, AfterFill, FailsClosed, Go, Settled
<1>3. CASE Renaming(c)
  BY <1>3 DEF Renaming, Check, Dispatch, Rename, RenameMissing, RenameRefused, Verify, DirSync,
              VerifyAgain, FailsWith, Fails, Refuses, Go, Settled
<1>4. CASE Source(c) \/ Truncate(c) \/ Remove(c) \/ Removing(c) \/ Create(c) \/ Admit(c)
  BY <1>4 DEF Source, Truncate, Remove, Removing, Create, Admit, Fails, Refuses, Go, Settled
<1>5. CASE Copy(c) \/ CopySync(c) \/ CopyFails(c) \/ Publish(c)
  BY <1>5 DEF Copy, CopySync, CopyFails, Publish, AfterCopy, Fails, Refuses, Go, Settled
<1>6. CASE Restore(c) \/ RestoreSync(c) \/ RestoreFails(c)
  BY <1>6 DEF Restore, RestoreSync, RestoreFails, FailsWith, Refuses, Settled
<1>7. CASE Finish(c) \/ Unlink(c) \/ CleanupFails(c)
  BY <1>7, SMTT(40) DEF Finish, Unlink, CleanupFails, Ends, Go, Results, Settled
<1>8. CASE OperationFails(c)
  BY <1>8 DEF OperationFails
<1> QED
  BY <1>1, <1>2, <1>3, <1>4, <1>5, <1>6, <1>7, <1>8 DEF Own, Copying, Ending

LEMMA RouteStays ==
  ASSUME Typed, NEW c \in Calls, Own(c), Route(c)
  PROVE  call'[c].pc \in CopySteps => MayCopy(c)
<1> USE DEF Typed, CallStates, CallState, Route, CopySteps, Overwriting
<1>1. CASE Start(c) \/ Begin(c) \/ Lock(c)
  BY <1>1, SMTT(40) DEF Start, Begin, Lock, Go, Ends
<1>2. CASE Writing(c)
  BY <1>2 DEF Writing, Open, Identify, Fill, SyncTemp, AfterFill, FailsClosed, Go
<1>3. CASE Renaming(c)
  BY <1>3 DEF Renaming, Check, Dispatch, Rename, RenameMissing, RenameRefused, Verify, DirSync,
              VerifyAgain, FailsWith, Fails, Refuses, Go
<1>4. CASE Copying(c)
  BY <1>4 DEF Copying, Source, Truncate, Remove, Removing, Create, Admit, Copy, CopySync, CopyFails,
              Restore, RestoreSync, RestoreFails, Publish, AfterCopy, FailsWith, Fails, Refuses, Go
<1>5. CASE Finish(c) \/ Unlink(c) \/ CleanupFails(c)
  <2>1. call[c].end \notin CopySteps
    BY DEF Results
  <2> QED
    BY <1>5, <2>1, SMTT(40) DEF Finish, Unlink, CleanupFails, Ends, Go
<1>6. CASE OperationFails(c)
  BY <1>6 DEF OperationFails
<1> QED
  BY <1>1, <1>2, <1>3, <1>4, <1>5, <1>6 DEF Own, Ending

LEMMA UnnamedStays ==
  ASSUME Typed, NEW c \in Calls, Own(c), Unnamed(c)
  PROVE  call'[c].pc \in Waiting \cup {"open", "identify"} => call'[c].id = None
<1> USE DEF Typed, CallStates, CallState, Unnamed, Waiting
<1>1. CASE Start(c) \/ Begin(c) \/ Lock(c)
  BY <1>1, SMTT(40) DEF Start, Begin, Lock, Go, Ends
<1>2. CASE Writing(c)
  BY <1>2 DEF Writing, Open, Identify, Fill, SyncTemp, AfterFill, FailsClosed, Go
<1>3. CASE Renaming(c)
  BY <1>3 DEF Renaming, Check, Dispatch, Rename, RenameMissing, RenameRefused, Verify, DirSync,
              VerifyAgain, FailsWith, Fails, Refuses, Go
<1>4. CASE Copying(c)
  BY <1>4 DEF Copying, Source, Truncate, Remove, Removing, Create, Admit, Copy, CopySync, CopyFails,
              Restore, RestoreSync, RestoreFails, Publish, AfterCopy, FailsWith, Fails, Refuses, Go
<1>5. CASE Finish(c) \/ Unlink(c) \/ CleanupFails(c)
  <2>1. call[c].end \notin Waiting \cup {"open", "identify"}
    BY DEF Results
  <2> QED
    BY <1>5, <2>1, SMTT(40) DEF Finish, Unlink, CleanupFails, Ends, Go
<1>6. CASE OperationFails(c)
  BY <1>6 DEF OperationFails
<1> QED
  BY <1>1, <1>2, <1>3, <1>4, <1>5, <1>6 DEF Own, Ending

LEMMA EndStays ==
  ASSUME Typed, NEW c \in Calls, Own(c), EndOK(c)
  PROVE  call'[c].pc \notin {"verified"} \cup Over => call'[c].end = "failed"
<1> USE DEF Typed, CallStates, CallState, EndOK, Over
<1>1. CASE Start(c) \/ Begin(c) \/ Lock(c)
  BY <1>1, SMTT(40) DEF Start, Begin, Lock, Go, Ends, Settled
<1>2. CASE Writing(c)
  BY <1>2 DEF Writing, Open, Identify, Fill, SyncTemp, AfterFill, FailsClosed, Go, Settled
<1>3. CASE Renaming(c)
  BY <1>3 DEF Renaming, Check, Dispatch, Rename, RenameMissing, RenameRefused, Verify, DirSync,
              VerifyAgain, FailsWith, Fails, Refuses, Go, Settled
<1>4. CASE Copying(c)
  BY <1>4 DEF Copying, Source, Truncate, Remove, Removing, Create, Admit, Copy, CopySync, CopyFails,
              Restore, RestoreSync, RestoreFails, Publish, AfterCopy, FailsWith, Fails, Refuses,
              Go, Settled
<1>5. CASE Finish(c) \/ Unlink(c) \/ CleanupFails(c)
  BY <1>5, SMTT(40) DEF Finish, Unlink, CleanupFails, Ends, Go, Settled, Results
<1>6. CASE OperationFails(c)
  BY <1>6 DEF OperationFails
<1> QED
  BY <1>1, <1>2, <1>3, <1>4, <1>5, <1>6 DEF Own, Ending

\* ToldOK of the next state with the options of this one.
ToldNext(c) ==
  /\ call'[c].pc \in Untold => call'[c].told.state = "none"
  /\ call'[c].pc \in {"create", "admit"} => call'[c].told.state \in {"none", "removed"}
  /\ call'[c].pc = "admit" => Opt(c).active /\ call'[c].blank = call'[c].file
  /\ call'[c].pc \in Overwriting =>
       /\ call'[c].told.state \in {"none", "writing"}
       /\ call'[c].told.state = "writing" => call'[c].told.file = call'[c].file
  /\ call'[c].pc \in {"copy", "copied", "restoring"} /\ Opt(c).active
       => call'[c].told.state = "writing"
  /\ call'[c].told.state # "none" => Opt(c).active

\* The stages, one by one.
LEMMA StageNames ==
  /\ "idle" \in Untold /\ "queued" \in Untold /\ "lock" \in Untold /\ "open" \in Untold
  /\ "source" \in Untold /\ "remove" \in Untold /\ "removing" \in Untold
  /\ "verify" \in Untold /\ "truncate" \in Untold /\ "identify" \in Untold
  /\ "fill" \in Untold /\ "filled" \in Untold /\ "sync" \in Untold /\ "check" \in Untold
  /\ "dispatch" \in Untold /\ "rename" \in Untold
  /\ "copy" \notin Untold /\ "copied" \notin Untold /\ "copySync" \notin Untold
  /\ "restore" \notin Untold /\ "restoring" \notin Untold /\ "restoreSync" \notin Untold
  /\ "publish" \notin Untold /\ "create" \notin Untold /\ "admit" \notin Untold /\ "dirsync" \notin Untold
  /\ "verified" \notin Untold /\ "finish" \notin Untold /\ "unlink" \notin Untold
  /\ "truncate" \in Overwriting /\ "copy" \in Overwriting /\ "copied" \in Overwriting
  /\ "copySync" \in Overwriting /\ "restore" \in Overwriting /\ "restoring" \in Overwriting
  /\ "restoreSync" \in Overwriting /\ "publish" \in Overwriting
  /\ "idle" \notin Overwriting /\ "queued" \notin Overwriting /\ "lock" \notin Overwriting
  /\ "open" \notin Overwriting /\ "source" \notin Overwriting /\ "remove" \notin Overwriting
  /\ "removing" \notin Overwriting /\ "verify" \notin Overwriting
  /\ "identify" \notin Overwriting /\ "fill" \notin Overwriting
  /\ "filled" \notin Overwriting /\ "sync" \notin Overwriting /\ "check" \notin Overwriting
  /\ "dispatch" \notin Overwriting /\ "rename" \notin Overwriting
  /\ "create" \notin Overwriting /\ "admit" \notin Overwriting /\ "dirsync" \notin Overwriting
  /\ "verified" \notin Overwriting /\ "finish" \notin Overwriting
  /\ "unlink" \notin Overwriting
  /\ \A result \in Results : result \notin Untold \cup Overwriting
  BY DEF Untold, Overwriting, Waiting, Filling, Ready, Results

LEMMA ToldStays ==
  ASSUME Typed, NEW c \in Calls, Own(c), ToldOK(c)
  PROVE  ToldNext(c)
<1> USE StageNames DEF Typed, CallStates, CallState, ToldOK, ToldNext
<1>1. CASE Start(c) \/ Begin(c) \/ Lock(c)
  BY <1>1, SMTT(40) DEF Start, Begin, Lock, Go, Ends
<1>2. CASE Writing(c)
  BY <1>2 DEF Writing, Open, Identify, Fill, SyncTemp, AfterFill, FailsClosed, Go
<1>3. CASE Check(c) \/ Dispatch(c) \/ Rename(c) \/ RenameMissing(c) \/ RenameRefused(c)
  BY <1>3 DEF Check, Dispatch, Rename, RenameMissing, RenameRefused, Fails, Refuses, Go
<1>4. CASE Verify(c) \/ DirSync(c) \/ VerifyAgain(c)
  BY <1>4 DEF Verify, DirSync, VerifyAgain, FailsWith, Fails, Go
<1>5. CASE Source(c) \/ Remove(c)
  BY <1>5 DEF Source, Remove, Fails, Refuses, Go
<1>6. CASE Truncate(c)
  BY <1>6 DEF Truncate, Tell, Refuses
<1>7. CASE Removing(c)
  BY <1>7 DEF Removing, Tell
<1>8. CASE Create(c)
  <2>1. CASE Allowed(c) /\ dest = None
    BY <1>8, <2>1 DEF Create
  <2>2. CASE ~(Allowed(c) /\ dest = None)
    BY <1>8, <2>2 DEF Create, Fails, Refuses
  <2> QED
    BY <2>1, <2>2
<1>9. CASE Copy(c) \/ CopySync(c) \/ CopyFails(c)
  BY <1>9 DEF Copy, CopySync, CopyFails, AfterCopy, Fails, Refuses, Go
<1>10. CASE Restore(c)
  BY <1>10 DEF Restore, Tell, Refuses
<1>11. CASE RestoreSync(c) \/ RestoreFails(c)
  BY <1>11 DEF RestoreSync, RestoreFails, FailsWith, Refuses
<1>12. CASE Publish(c)
  BY <1>12 DEF Publish, Refuses
<1>13. CASE Finish(c) \/ Unlink(c) \/ CleanupFails(c)
  <2>1. call[c].end \notin {"create", "admit", "copy", "copied", "restoring"}
    BY DEF Results
  <2> QED
    BY <1>13, <2>1, SMTT(40) DEF Finish, Unlink, CleanupFails, Ends, Go
<1>14. CASE OperationFails(c)
  BY <1>14 DEF OperationFails
<1>15. CASE Admit(c)
  BY <1>15 DEF Admit, Tell
<1> QED
  BY <1>1, <1>2, <1>3, <1>4, <1>5, <1>6, <1>7, <1>8, <1>9, <1>10, <1>11, <1>12, <1>13, <1>14, <1>15
     DEF Own, Writing, Renaming, Copying, Ending

Controlled == \A c \in Calls : Control(c)

LEMMA InitControlled == Init => Controlled
  BY DEF Init, Controlled, Control, NewCall, Terminal, Route, ToldOK, Unnamed, EndOK, CopySteps,
         Overwriting, Over, Settled

LEMMA NextControlled ==
  ASSUME Typed, Controlled, [Next]_vars
  PROVE  Controlled'
<1> USE DEF Controlled, Control
<1>1. CASE Outside
  BY <1>1, OutsideTyped DEF Terminal, Route, ToldOK, Unnamed, EndOK, Opt, MayCopy
<1>2. CASE Dying
  <2>1. PICK S \in SUBSET Procs : Ended(S)
    BY <1>2, DyingTyped
  <2>2. setup' = setup
    BY <1>2, DyingTyped
  <2> SUFFICES ASSUME NEW c \in Calls
               PROVE  Control(c)'
    OBVIOUS
  <2>3. CASE call'[c] = call[c]
    BY <2>2, <2>3 DEF Terminal, Route, ToldOK, Unnamed, EndOK, Opt, MayCopy
  <2>4. CASE call'[c] = Dead(c)
    <3>1. \/ Dead(c).pc = "idle" /\ call[c].pc = "idle"
          \/ Dead(c).pc \in Settled
      BY DEF Dead, Typed, CallStates, CallState, Settled
    <3>2. /\ Dead(c).told = call[c].told /\ Dead(c).refused = call[c].refused
          /\ Dead(c).id = call[c].id /\ Dead(c).end = call[c].end
      BY DEF Dead, Typed, CallStates, CallState
    <3>3. CASE Dead(c).pc \in Settled
      BY <2>2, <2>4, <3>2, <3>3 DEF Terminal, Route, ToldOK, Unnamed, EndOK, Opt, MayCopy, CopySteps,
         Overwriting, Over, Settled, Untold, Waiting, Filling, Ready
    <3>4. CASE Dead(c).pc = "idle" /\ call[c].pc = "idle"
      BY <2>2, <2>4, <3>2, <3>4 DEF Terminal, Route, ToldOK, Unnamed, EndOK, Opt, MayCopy, CopySteps,
         Overwriting, Over, Settled, Untold, Waiting, Filling, Ready
    <3> QED
      BY <3>1, <3>3, <3>4
  <2> QED
    BY <2>1, <2>3, <2>4, EndedTyped
<1>3. ASSUME NEW c \in Calls, Own(c)
      PROVE  Controlled'
  <2>1. setup' = setup
    BY <1>3, OwnFixed
  <2> SUFFICES ASSUME NEW d \in Calls
               PROVE  Control(d)'
    OBVIOUS
  <2>2. CASE d # c
    BY <1>3, <2>1, <2>2, OthersStay DEF Terminal, Route, ToldOK, Unnamed, EndOK, Opt, MayCopy
  <2>3. CASE d = c
    <3>1. Terminal(c)' /\ Route(c)' /\ Unnamed(c)' /\ EndOK(c)'
      BY <1>3, <2>1, TerminalStays, RouteStays, UnnamedStays, EndStays
         DEF Terminal, Route, Unnamed, EndOK, Opt, MayCopy
    <3>2. ToldOK(c)'
      BY <1>3, <2>1, ToldStays DEF ToldOK, ToldNext, Opt
    <3> QED
      BY <2>3, <3>1, <3>2
  <2> QED
    BY <2>2, <2>3
<1>4. CASE UNCHANGED vars
  BY <1>4 DEF vars, Terminal, Route, ToldOK, Unnamed, EndOK, Opt, MayCopy
<1> QED
  BY <1>1, <1>2, <1>3, <1>4, NextSteps

\* After a refusal, whether of the authority or of a destination that changed under
\* the call, only the temporary file is still the call's business.
LEMMA RefusedStep ==
  ASSUME Typed, Controlled, [Next]_vars, NEW c \in Calls, call[c].refused, call'[c] # call[c],
         up' = up
  PROVE  UNCHANGED <<dest, body>>
<1>1. call[c].pc \in Over
  BY DEF Controlled, Control, Terminal
<1>2. Own(c)
  BY NextSteps, OthersStay, OutsideTyped, DyingTyped DEF vars
<1>3. Finish(c) \/ Unlink(c) \/ CleanupFails(c)
  BY <1>1, <1>2 DEF Over, Settled, Own, Start, Begin, Lock, Writing, Open, Identify, Fill, SyncTemp,
     Renaming, Check, Dispatch, Rename, RenameMissing, RenameRefused, Verify, DirSync, VerifyAgain,
     Copying, Source, Truncate, Remove, Removing, Create, Admit, Copy, CopySync, CopyFails, Restore,
     RestoreSync, RestoreFails, Publish, Ending, OperationFails
<1> QED
  BY <1>3 DEF Finish, Unlink, CleanupFails

\* "The first callback refusal is terminal": AtomicMutation.refuse and rethrowRefusal
\* end the operation, and no restore follows.
THEOREM RefusalHolds == Spec => RefusalIsTerminal
<1>1. Init => Typed /\ Controlled
  BY InitTyped, InitControlled
<1>2. Typed /\ Controlled /\ [Next]_vars => (Typed /\ Controlled)'
  BY NextTyped, NextControlled
<1>3. Typed /\ Controlled /\ [Next]_vars
        => [\A c \in Calls : call[c].refused /\ call'[c] # call[c] /\ up' = up
                              => UNCHANGED <<dest, body>>]_vars
  BY RefusedStep
<1> QED
  BY <1>1, <1>2, <1>3, PTL DEF Spec, RefusalIsTerminal

-----------------------------------------------------------------------------
(* The files of the calls.                                                 *)

\* A temporary file is not the destination, nor one that another call or a copy
\* has open.
TempApart(c) ==
  temp[c] # None =>
    /\ temp[c] # dest /\ temp[c] # disk.entry
    /\ \A d \in Calls : /\ temp[c] # call[d].file
                        /\ d # c => temp[c] # temp[d] /\ temp[c] # call[d].fd
\* While a call writes its temporary file, nobody else has it.
FdApart(c) ==
  call[c].pc \in Filling =>
    /\ call[c].fd # None /\ call[c].fd # dest /\ call[c].fd # disk.entry
    /\ \A d \in Calls : /\ call[c].fd # call[d].file
                        /\ d # c => call[c].fd # call[d].fd
    /\ temp[c] # None => temp[c] = call[c].fd \/ body[temp[c]] = "foreign"
Apart == \A c \in Calls : TempApart(c) /\ FdApart(c)

\* What a step does to the descriptors of the call, Open and Create aside.
CallEffects(c) ==
  /\ call'[c].fd \in {call[c].fd, None, dest}
  /\ call'[c].file \in {call[c].file, None, dest}
  /\ call'[c].pc \in Filling => call[c].pc \in Filling /\ call'[c].fd = call[c].fd

LEMMA CallEffectsOf ==
  ASSUME Typed, NEW c \in Calls, Own(c), ~Open(c), ~Create(c)
  PROVE  CallEffects(c)
<1> USE DEF Typed, CallStates, CallState, CallEffects, Filling
<1>1. CASE Start(c) \/ Begin(c) \/ Lock(c)
  BY <1>1, SMTT(40) DEF Start, Begin, Lock, Go, Ends
<1>2. CASE Identify(c) \/ Fill(c) \/ SyncTemp(c)
  BY <1>2 DEF Identify, Fill, SyncTemp, AfterFill, FailsClosed, Go
<1>3. CASE Renaming(c)
  BY <1>3 DEF Renaming, Check, Dispatch, Rename, RenameMissing, RenameRefused, Verify, DirSync,
              VerifyAgain, FailsWith, Fails, Refuses, Go
<1>4. CASE Source(c) \/ Truncate(c) \/ Remove(c) \/ Removing(c) \/ Admit(c)
  BY <1>4 DEF Source, Truncate, Remove, Removing, Admit, Fails, Refuses, Go
<1>5. CASE Copy(c) \/ CopySync(c) \/ CopyFails(c) \/ Publish(c)
  BY <1>5 DEF Copy, CopySync, CopyFails, Publish, AfterCopy, Fails, Refuses, Go
<1>6. CASE Restore(c) \/ RestoreSync(c) \/ RestoreFails(c)
  BY <1>6 DEF Restore, RestoreSync, RestoreFails, FailsWith, Refuses
<1>7. CASE Finish(c) \/ Unlink(c) \/ CleanupFails(c)
  BY <1>7, SMTT(40) DEF Finish, Unlink, CleanupFails, Ends, Go, Results
<1>8. CASE OperationFails(c)
  BY <1>8 DEF OperationFails
<1> QED
  BY <1>1, <1>2, <1>3, <1>4, <1>5, <1>6, <1>7, <1>8 DEF Own, Writing, Copying, Ending

\* And what it does to the files.
FileEffects(c) ==
  /\ \A d \in Calls \ {c} : temp'[d] = temp[d]
  /\ \/ temp'[c] = temp[c]
     \/ temp'[c] = None /\ call[c].pc \in {"rename", "unlink"}
  /\ \/ dest' \in {dest, None}
     \/ call[c].pc = "rename" /\ dest' = temp[c] /\ temp'[c] = None
     \/ CanCreate /\ dest' = Fresh
  /\ disk'.entry \in {disk.entry, dest}
  /\ \A i \in Inodes : body'[i] # body[i] =>
       \/ call[c].pc \in {"fill", "filled"} /\ i = call[c].fd /\ body'[i] \in {"part", c}
       \/ i = call[c].file
       \/ CanCreate /\ i = Fresh
  /\ \A i \in Inodes : disk'.body[i] # disk.body[i] =>
       \/ i \in {call[c].fd, call[c].file} /\ disk'.body[i] = body'[i]
       \/ CanCreate /\ i = Fresh

LEMMA FileEffectsOf ==
  ASSUME Typed, NEW c \in Calls, Own(c), ~Open(c), ~Create(c)
  PROVE  FileEffects(c)
<1> USE DEF Typed, FileEffects
<1>1. CASE Quietly(c)
  BY <1>1, QuietlyLeaves
<1>3. CASE Fill(c)
  BY <1>3 DEF Fill
<1>4. CASE SyncTemp(c)
  BY <1>4 DEF SyncTemp, Synced
<1>5. CASE Rename(c)
  BY <1>5 DEF Rename
<1>6. CASE DirSync(c)
  BY <1>6 DEF DirSync, SyncEntry
<1>7. CASE Truncate(c) \/ Copy(c)
  BY <1>7 DEF Truncate, Copy
<1>8. CASE Removing(c) \/ Unlink(c)
  BY <1>8 DEF Removing, Unlink
<1>10. CASE CopySync(c) \/ RestoreSync(c)
  BY <1>10 DEF CopySync, RestoreSync, Synced
<1>11. CASE Restore(c) \/ RestoreFails(c)
  BY <1>11 DEF Restore, RestoreFails
<1> QED
  BY <1>1, <1>3, <1>4, <1>5, <1>6, <1>7, <1>8, <1>10, <1>11
     DEF Own, Writing, Renaming, Copying, Ending, Quietly

LEMMA FreshApart ==
  ASSUME CanCreate
  PROVE  /\ Fresh \in Inodes /\ Fresh # None /\ Fresh # dest /\ Fresh # disk.entry
         /\ \A d \in Calls : Fresh # temp[d] /\ Fresh # call[d].fd /\ Fresh # call[d].file
<1>1. Fresh \in Inodes /\ Fresh \notin Busy
  BY FreshIsNew
<1> QED
  BY <1>1, ReplaceAssumption DEF Busy

\* The contents of temporary files are those of their calls.
LEMMA TempBodies ==
  ASSUME Typed, Apart, NEW c \in Calls, CallEffects(c), FileEffects(c),
         NEW d \in Calls, temp[d] # None, d # c \/ call[c].pc \notin Filling
  PROVE  body'[temp[d]] = body[temp[d]]
<1>1. temp[d] \in Inodes
  BY DEF Typed, Places
<1>2. temp[d] # call[c].file
  BY DEF Apart, TempApart
<1>3. CASE d # c
  BY <1>1, <1>2, <1>3, FreshApart DEF Apart, TempApart, FileEffects
<1>4. CASE call[c].pc \notin Filling
  BY <1>1, <1>2, <1>4, FreshApart DEF FileEffects, Filling
<1> QED
  BY <1>3, <1>4

LEMMA EffectsKeepTempApart ==
  ASSUME Typed, Apart, NEW c \in Calls, CallEffects(c), FileEffects(c),
         \A d \in Calls \ {c} : call'[d] = call[d], NEW d \in Calls
  PROVE  TempApart(d)'
<1> SUFFICES ASSUME temp'[d] # None
             PROVE  /\ temp'[d] # dest' /\ temp'[d] # disk'.entry
                    /\ \A e \in Calls : /\ temp'[d] # call'[e].file
                                        /\ e # d => temp'[d] # temp'[e] /\ temp'[d] # call'[e].fd
  BY DEF TempApart
<1>1. temp'[d] = temp[d]
  BY DEF FileEffects
<1>2. /\ temp[d] # dest /\ temp[d] # disk.entry
      /\ \A e \in Calls : /\ temp[d] # call[e].file
                          /\ e # d => temp[d] # temp[e] /\ temp[d] # call[e].fd
  BY <1>1 DEF Apart, TempApart
<1>3. temp'[d] # dest' /\ temp'[d] # disk'.entry
  BY <1>1, <1>2, FreshApart DEF FileEffects
<1>4. \A e \in Calls : temp'[d] # call'[e].file
  BY <1>1, <1>2 DEF CallEffects
<1>5. \A e \in Calls \ {d} : temp'[d] # temp'[e] /\ temp'[d] # call'[e].fd
  BY <1>1, <1>2 DEF CallEffects, FileEffects
<1> QED
  BY <1>3, <1>4, <1>5

LEMMA EffectsKeepFdApart ==
  ASSUME Typed, Apart, NEW c \in Calls, CallEffects(c), FileEffects(c),
         \A d \in Calls \ {c} : call'[d] = call[d], NEW d \in Calls
  PROVE  FdApart(d)'
<1> SUFFICES ASSUME call'[d].pc \in Filling
             PROVE  /\ call'[d].fd # None /\ call'[d].fd # dest' /\ call'[d].fd # disk'.entry
                    /\ \A e \in Calls : /\ call'[d].fd # call'[e].file
                                        /\ e # d => call'[d].fd # call'[e].fd
                    /\ temp'[d] # None => temp'[d] = call'[d].fd \/ body'[temp'[d]] = "foreign"
  BY DEF FdApart
<1>1. call[d].pc \in Filling /\ call'[d].fd = call[d].fd
  BY DEF CallEffects
<1>2. /\ call[d].fd # None /\ call[d].fd # dest /\ call[d].fd # disk.entry
      /\ \A e \in Calls : /\ call[d].fd # call[e].file
                          /\ e # d => call[d].fd # call[e].fd
      /\ temp[d] # None => temp[d] = call[d].fd \/ body[temp[d]] = "foreign"
  BY <1>1 DEF Apart, FdApart
<1>3. call'[d].fd # dest'
  <2>1. ASSUME call[c].pc = "rename", dest' = temp[c]
        PROVE  call[d].fd # dest'
    <3>1. d # c
      BY <1>1, <2>1 DEF Filling
    <3> QED
      BY <1>2, <2>1, <3>1 DEF Apart, TempApart
  <2> QED
    BY <1>1, <1>2, <2>1, FreshApart DEF FileEffects
<1>4. call'[d].fd # disk'.entry
  BY <1>1, <1>2 DEF FileEffects
<1>5. \A e \in Calls : /\ call'[d].fd # call'[e].file
                       /\ e # d => call'[d].fd # call'[e].fd
  BY <1>1, <1>2 DEF CallEffects
<1>6. temp'[d] # None => temp'[d] = call'[d].fd \/ body'[temp'[d]] = "foreign"
  <2> SUFFICES ASSUME temp'[d] # None, temp'[d] # call[d].fd
               PROVE  body'[temp'[d]] = "foreign"
    BY <1>1
  <2>1. temp'[d] = temp[d]
    BY DEF FileEffects
  <2>2. body[temp[d]] = "foreign" /\ temp[d] \in Inodes
    BY <1>2, <2>1 DEF Typed, Places
  <2>3. temp[d] # call[c].fd /\ temp[d] # call[c].file
    BY <2>1 DEF Apart, TempApart
  <2> QED
    BY <2>1, <2>2, <2>3, FreshApart DEF FileEffects
<1> QED
  BY <1>1, <1>2, <1>3, <1>4, <1>5, <1>6

\* What the end of processes does to the files.
LEMMA DyingEffects ==
  ASSUME Typed, Dying
  PROVE  /\ dest' \in {dest, disk.entry} /\ disk' = disk
         /\ \A c \in Calls : temp'[c] \in {temp[c], None}
         /\ \A i \in Inodes : body'[i] # body[i] => i = dest' /\ disk.body[i] # body[i]
         /\ up' # {} => dest' = dest /\ body' = body
<1>1. CASE PowerLoss
  <2>1. PICK kept \in {body[i] : i \in {dest'} \cap Inodes} \cup {"part"} :
          body' = [i \in Inodes |-> IF i = dest' /\ disk.body[i] # body[i] THEN kept ELSE body[i]]
    BY <1>1 DEF PowerLoss
  <2>2. up' = {}
    BY <1>1 DEF PowerLoss, Ended
  <2> QED
    BY <1>1, <2>1, <2>2 DEF PowerLoss
<1>2. ASSUME NEW h \in Procs, Crash(h)
      PROVE  /\ dest' = dest /\ disk' = disk /\ body' = body /\ temp' = temp
  BY <1>2 DEF Crash
<1>3. ASSUME NEW h \in Procs, Exit(h)
      PROVE  /\ dest' = dest /\ disk' = disk /\ body' = body
             /\ \A c \in Calls : temp'[c] \in {temp[c], None}
  BY <1>3 DEF Exit
<1> QED
  BY <1>1, <1>2, <1>3 DEF Dying

\* A call that ends with its process has no descriptor and writes no more.
LEMMA DyingCalls ==
  ASSUME Typed, Dying, NEW c \in Calls
  PROVE  \/ call'[c] = call[c]
         \/ /\ call'[c] = Dead(c) /\ Home(c) \notin up'
            /\ call'[c].fd = None /\ call'[c].file = None
            /\ call'[c].pc \in Settled \cup {"idle"}
            /\ call'[c].pc = call[c].pc \/ call'[c].pc = "dead"
<1>1. PICK S \in SUBSET Procs : Ended(S)
  BY DyingTyped
<1>2. \/ call'[c] = call[c]
      \/ call'[c] = Dead(c) /\ Home(c) \notin up'
  <2>1. \A d \in Calls : \/ call'[d] = call[d]
                         \/ call'[d] = Dead(d) /\ Home(d) \notin up'
    BY <1>1, EndedTyped
  <2> QED
    BY <2>1
<1>3. /\ Dead(c).fd = None /\ Dead(c).file = None
      /\ Dead(c).pc \in Settled \cup {"idle"}
      /\ Dead(c).pc = call[c].pc \/ Dead(c).pc = "dead"
  BY DEF Dead, Typed, CallStates, CallState, Settled
<1> QED
  BY <1>2, <1>3

LEMMA InitApart == Init => Apart
  BY DEF Init, Apart, TempApart, FdApart, Filling, NewCall

LEMMA NextApart ==
  ASSUME Typed, Apart, [Next]_vars
  PROVE  Apart'
<1>1. CASE \E c \in Calls : Own(c) /\ ~Open(c) /\ ~Create(c)
  BY <1>1, CallEffectsOf, FileEffectsOf, OthersStay, EffectsKeepTempApart, EffectsKeepFdApart
     DEF Apart
<1>2. ASSUME NEW c \in Calls, Open(c)
      PROVE  Apart'
  <2>1. \A d \in Calls \ {c} : call'[d] = call[d]
    BY <1>2, OthersStay DEF Own, Writing
  <2>2. CASE Allowed(c)
    <3>1. /\ temp' = [temp EXCEPT ![c] = Fresh] /\ body' = [body EXCEPT ![Fresh] = "empty"]
          /\ disk'.entry = disk.entry /\ dest' = dest /\ CanCreate
          /\ call'[c].fd = Fresh /\ call'[c].file = call[c].file
      BY <1>2, <2>2 DEF Open, Typed, CallStates, CallState
    <3>2. ASSUME NEW d \in Calls
          PROVE  TempApart(d)'
      BY <2>1, <3>1, FreshApart DEF Apart, TempApart, Typed
    <3>3. ASSUME NEW d \in Calls
          PROVE  FdApart(d)'
      <4>1. CASE d = c
        BY <2>1, <3>1, <4>1, FreshApart DEF Apart, FdApart, Typed
      <4>2. CASE d # c
        <5>1. temp[d] # Fresh /\ temp'[d] = temp[d] /\ call'[d] = call[d] /\ temp[d] \in Places
          BY <2>1, <3>1, <4>2, FreshApart DEF Typed
        <5>2. temp[d] # None => body'[temp[d]] = body[temp[d]]
          BY <3>1, <5>1 DEF Typed, Places
        <5> QED
          BY <2>1, <3>1, <4>2, <5>1, <5>2, FreshApart DEF Apart, FdApart
      <4> QED
        BY <4>1, <4>2
    <3> QED
      BY <3>2, <3>3 DEF Apart
  <2>3. CASE ~Allowed(c)
    <3>1. UNCHANGED <<temp, body, disk, dest>> /\ call'[c].pc = "finish"
          /\ call'[c].fd = call[c].fd /\ call'[c].file = call[c].file
      BY <1>2, <2>3 DEF Open, Typed, CallStates, CallState
    <3> QED
      BY <2>1, <3>1 DEF Apart, TempApart, FdApart, Filling
  <2> QED
    BY <2>2, <2>3
<1>3. ASSUME NEW c \in Calls, Create(c)
      PROVE  Apart'
  <2>1. \A d \in Calls \ {c} : call'[d] = call[d]
    BY <1>3, OthersStay DEF Own, Copying
  <2>2. CASE Allowed(c) /\ dest = None
    <3>1. /\ temp' = temp /\ body' = [body EXCEPT ![Fresh] = "empty"]
          /\ disk'.entry = disk.entry /\ dest' = Fresh /\ CanCreate
          /\ call'[c].fd = call[c].fd /\ call'[c].file = Fresh
          /\ call'[c].pc \in {"admit", "copy"}
      BY <1>3, <2>2 DEF Create, Typed, CallStates, CallState
    <3>2. ASSUME NEW d \in Calls
          PROVE  TempApart(d)'
      BY <2>1, <3>1, FreshApart DEF Apart, TempApart, Typed
    <3>3. ASSUME NEW d \in Calls
          PROVE  FdApart(d)'
      <4>1. temp[d] # None => body'[temp[d]] = body[temp[d]]
        BY <3>1, FreshApart DEF Typed, Places
      <4> QED
        BY <2>1, <3>1, <4>1, FreshApart DEF Apart, FdApart, Filling
    <3> QED
      BY <3>2, <3>3 DEF Apart
  <2>3. CASE ~(Allowed(c) /\ dest = None)
    <3>1. UNCHANGED <<temp, body, disk, dest>> /\ call'[c].pc = "finish"
          /\ call'[c].fd = call[c].fd /\ call'[c].file = call[c].file
      BY <1>3, <2>3 DEF Create, Fails, Refuses, Typed, CallStates, CallState
    <3> QED
      BY <2>1, <3>1 DEF Apart, TempApart, FdApart, Filling
  <2> QED
    BY <2>2, <2>3
<1>4. CASE Intrude
  <2>1. /\ CanCreate /\ call' = call /\ disk'.entry = disk.entry
        /\ body' = [body EXCEPT ![Fresh] = "foreign"]
        /\ \A d \in Calls : temp[d] # None => body'[temp[d]] = body[temp[d]]
    BY <1>4, FreshApart DEF Intrude, Quiet, Typed, Places
  <2>2. CASE dest' = Fresh /\ UNCHANGED temp
    BY <2>1, <2>2, FreshApart DEF Apart, TempApart, FdApart, Typed
  <2>3. ASSUME NEW e \in Calls, temp' = [temp EXCEPT ![e] = Fresh], UNCHANGED dest
        PROVE  Apart'
    <3>1. \A d \in Calls : TempApart(d)'
      BY <2>1, <2>3, FreshApart DEF Apart, TempApart, Typed
    <3>2. \A d \in Calls : FdApart(d)'
      BY <2>1, <2>3, FreshApart DEF Apart, FdApart, Typed
    <3> QED
      BY <3>1, <3>2 DEF Apart
  <2> QED
    BY <1>4, <2>2, <2>3 DEF Intrude
<1>5. ASSUME NEW c \in Calls, Revoke(c) \/ Tidy(c)
      PROVE  Apart'
  BY <1>5 DEF Revoke, Tidy, Quiet, Apart, TempApart, FdApart, Typed
<1>6. CASE Dying
  <2>1. \A c \in Calls : TempApart(c)'
    BY <1>6, DyingEffects, DyingCalls DEF Apart, TempApart
  <2>2. ASSUME NEW c \in Calls
        PROVE  FdApart(c)'
    <3> SUFFICES ASSUME call'[c].pc \in Filling
                 PROVE  FdApart(c)'
      BY DEF FdApart
    <3>1. call'[c] = call[c]
      BY <1>6, DyingCalls DEF Filling, Settled
    <3>2. temp[c] # None => body'[temp[c]] = body[temp[c]]
      BY <1>6, DyingEffects DEF Apart, TempApart, Typed, Places
    <3> QED
      BY <1>6, <3>1, <3>2, DyingEffects, DyingCalls DEF Apart, FdApart
  <2> QED
    BY <2>1, <2>2 DEF Apart
<1>7. CASE UNCHANGED vars
  BY <1>7 DEF vars, Apart, TempApart, FdApart
<1> QED
  BY <1>1, <1>2, <1>3, <1>4, <1>5, <1>6, <1>7, NextSteps DEF Outside

-----------------------------------------------------------------------------
(* The contents of the temporary files.                                    *)

\* What is about to be renamed has the content of the call, or is somebody else's.
Filled(c) ==
  /\ call[c].pc = "sync" => body[call[c].fd] = c
  /\ call[c].pc \in {"sync"} \cup Ready /\ temp[c] # None => body[temp[c]] \in {c, "foreign"}
ForeignOnDisk(c) ==
  temp[c] # None /\ body[temp[c]] = "foreign" => disk.body[temp[c]] = "foreign"
\* With syncTempFile it is on disk.
TempOnDisk(c) ==
  Opt(c).sync /\ ~call[c].weak /\ call[c].pc \in Ready /\ temp[c] # None
    => disk.body[temp[c]] = body[temp[c]]
StoredOK(c) == Filled(c) /\ ForeignOnDisk(c) /\ TempOnDisk(c)
Stored == \A c \in Calls : StoredOK(c)

LEMMA StoredFrame ==
  ASSUME NEW c \in Calls, StoredOK(c), setup' = setup, call'[c] = call[c],
         temp'[c] \in {temp[c], None},
         temp[c] # None => body'[temp[c]] = body[temp[c]] /\ disk'.body[temp[c]] = disk.body[temp[c]],
         call[c].pc = "sync" => body'[call[c].fd] = body[call[c].fd]
  PROVE  StoredOK(c)'
  BY DEF StoredOK, Filled, ForeignOnDisk, TempOnDisk, Opt

\* A step of one call leaves what the others have written.
LEMMA StoredByOthers ==
  ASSUME Typed, Apart, Stored, NEW c \in Calls, Own(c), ~Open(c), ~Create(c), NEW d \in Calls, d # c
  PROVE  StoredOK(d)'
<1>1. CallEffects(c) /\ FileEffects(c) /\ call'[d] = call[d] /\ setup' = setup
  BY CallEffectsOf, FileEffectsOf, OthersStay, OwnFixed
<1>2. temp'[d] = temp[d]
  BY <1>1 DEF FileEffects
<1>3. temp[d] # None => body'[temp[d]] = body[temp[d]]
  BY <1>1, TempBodies
<1>4. temp[d] # None => disk'.body[temp[d]] = disk.body[temp[d]]
  BY <1>1, FreshApart DEF FileEffects, Apart, TempApart, Typed, Places
<1>5. call[d].pc = "sync" => body'[call[d].fd] = body[call[d].fd]
  <2> SUFFICES ASSUME call[d].pc = "sync"
               PROVE  body'[call[d].fd] = body[call[d].fd]
    OBVIOUS
  <2>1. /\ call[d].fd # None /\ call[d].fd # call[c].file /\ call[d].fd # call[c].fd
    BY DEF Apart, FdApart, Filling
  <2>2. call[d].fd \in Inodes
    BY <2>1, CallFields DEF Typed, Places
  <2> QED
    BY <1>1, <2>1, <2>2, FreshApart DEF FileEffects
<1> QED
  BY <1>1, <1>2, <1>3, <1>4, <1>5, StoredFrame DEF Stored

LEMMA ForeignOnDiskStays ==
  ASSUME Typed, Apart, Stored, NEW c \in Calls, FileEffects(c)
  PROVE  ForeignOnDisk(c)'
<1> SUFFICES ASSUME temp'[c] # None, body'[temp'[c]] = "foreign"
             PROVE  disk'.body[temp'[c]] = "foreign"
  BY DEF ForeignOnDisk
<1>1. temp'[c] = temp[c] /\ temp[c] \in Inodes /\ temp[c] # call[c].file
  BY DEF FileEffects, Typed, Places, Apart, TempApart
<1>2. body[temp[c]] = "foreign"
  BY <1>1, FreshApart, ReplaceAssumption DEF FileEffects
<1>3. disk.body[temp[c]] = "foreign"
  BY <1>1, <1>2 DEF Stored, StoredOK, ForeignOnDisk
<1> QED
  BY <1>1, <1>2, <1>3, FreshApart DEF FileEffects

\* The ways to the rename.
LEMMA ReadyFrom ==
  ASSUME Typed, NEW c \in Calls, Own(c), ~Fill(c), ~SyncTemp(c), ~Open(c), ~Create(c),
         ~(Check(c) \/ Dispatch(c) \/ RenameRefused(c))
  PROVE  call'[c].pc \notin {"sync"} \cup Ready
<1> USE DEF Typed, CallStates, CallState, Ready
<1>1. CASE Start(c) \/ Begin(c) \/ Lock(c) \/ Identify(c)
  BY <1>1 DEF Start, Begin, Lock, Identify, FailsClosed, Go, Ends
<1>2. CASE Rename(c) \/ RenameMissing(c) \/ Verify(c) \/ DirSync(c) \/ VerifyAgain(c)
  BY <1>2 DEF Rename, RenameMissing, Verify, DirSync, VerifyAgain, FailsWith, Fails, Go
<1>3. CASE Source(c) \/ Truncate(c) \/ Remove(c) \/ Removing(c) \/ Admit(c)
  BY <1>3 DEF Source, Truncate, Remove, Removing, Admit, Fails, Refuses, Go
<1>4. CASE Copy(c) \/ CopySync(c) \/ CopyFails(c) \/ Publish(c)
  BY <1>4 DEF Copy, CopySync, CopyFails, Publish, AfterCopy, Fails, Refuses, Go
<1>5. CASE Restore(c) \/ RestoreSync(c) \/ RestoreFails(c)
  BY <1>5 DEF Restore, RestoreSync, RestoreFails, FailsWith, Refuses
<1>6. CASE Finish(c) \/ Unlink(c) \/ CleanupFails(c)
  <2>1. call[c].end \notin {"sync"} \cup Ready
    BY DEF Results
  <2> QED
    BY <1>6, <2>1, SMTT(40) DEF Finish, Unlink, CleanupFails, Ends, Go
<1>7. CASE OperationFails(c)
  BY <1>7 DEF OperationFails
<1> QED
  BY <1>1, <1>2, <1>3, <1>4, <1>5, <1>6, <1>7 DEF Own, Writing, Renaming, Copying, Ending

LEMMA FilledStays ==
  ASSUME Typed, Apart, Stored, NEW c \in Calls, Own(c), ~Open(c), ~Create(c)
  PROVE  /\ call'[c].pc = "sync" => body'[call'[c].fd] = c
         /\ call'[c].pc \in {"sync"} \cup Ready /\ temp'[c] # None => body'[temp'[c]] \in {c, "foreign"}
<1> USE DEF Ready
<1>1. CASE Fill(c)
  <2>1. /\ call[c].fd \in Inodes
        /\ temp[c] # None => temp[c] = call[c].fd \/ body[temp[c]] = "foreign"
    BY <1>1, CallFields DEF Fill, Apart, FdApart, Filling, Typed, Places
  <2>2. CASE FailsClosed(c)
    BY <2>2 DEF FailsClosed, Typed, CallStates, CallState
  <2>3. CASE call[c].pc = "fill" /\ ~FailsClosed(c)
    BY <1>1, <2>3 DEF Fill, Go, Typed, CallStates, CallState
  <2>4. CASE call[c].pc = "filled" /\ ~FailsClosed(c)
    <3>1. /\ body' = [body EXCEPT ![call[c].fd] = c] /\ temp' = temp
          /\ call'[c].fd = call[c].fd
      BY <1>1, <2>4 DEF Fill, Go, Typed, CallStates, CallState
    <3>2. temp[c] # None => temp[c] \in Inodes
      BY DEF Typed, Places
    <3> QED
      BY <2>1, <3>1, <3>2 DEF Typed
  <2> QED
    BY <1>1, <2>2, <2>3, <2>4 DEF Fill
<1>2. CASE SyncTemp(c)
  <2>1. UNCHANGED <<body, temp>> /\ call[c].pc = "sync" /\ call'[c].pc # "sync"
    BY <1>2 DEF SyncTemp, FailsClosed, Go, Typed, CallStates, CallState
  <2> QED
    BY <2>1 DEF Stored, StoredOK, Filled
<1>3. CASE Check(c) \/ Dispatch(c) \/ RenameRefused(c)
  <2>1. UNCHANGED <<body, temp>> /\ call[c].pc \in Ready /\ call'[c].pc # "sync"
    BY <1>3 DEF Check, Dispatch, RenameRefused, Fails, Refuses, Go, Typed, CallStates, CallState
  <2> QED
    BY <2>1 DEF Stored, StoredOK, Filled
<1>4. CASE ~Fill(c) /\ ~SyncTemp(c) /\ ~(Check(c) \/ Dispatch(c) \/ RenameRefused(c))
  BY <1>4, ReadyFrom
<1> QED
  BY <1>1, <1>2, <1>3, <1>4

LEMMA TempOnDiskStays ==
  ASSUME Typed, Apart, Stored, NEW c \in Calls, Own(c), ~Open(c), ~Create(c)
  PROVE  Opt(c).sync /\ ~call'[c].weak /\ call'[c].pc \in Ready /\ temp'[c] # None
           => disk'.body[temp'[c]] = body'[temp'[c]]
<1> USE DEF Ready
<1>1. CASE Fill(c)
  <2> SUFFICES ASSUME Opt(c).sync
               PROVE  call'[c].pc \notin Ready
    OBVIOUS
  <2> QED
    BY <1>1 DEF Fill, AfterFill, FailsClosed, Go, Typed, CallStates, CallState
<1>2. CASE SyncTemp(c)
  <2>1. CASE FailsClosed(c)
    BY <2>1 DEF FailsClosed, Typed, CallStates, CallState
  <2>2. CASE call' = [call EXCEPT ![c].pc = "check", ![c].weak = TRUE]
    BY <2>2 DEF Typed, CallStates, CallState
  <2>3. CASE Synced(call[c].fd) /\ Go(c, "check")
    <3>1. /\ call[c].fd \in Inodes /\ UNCHANGED <<body, temp>>
          /\ temp[c] # None => temp[c] = call[c].fd \/ body[temp[c]] = "foreign"
      BY <1>2, CallFields DEF SyncTemp, Apart, FdApart, Filling, Typed, Places
    <3>2. temp[c] # None /\ body[temp[c]] = "foreign" => disk.body[temp[c]] = "foreign"
      BY DEF Stored, StoredOK, ForeignOnDisk
    <3>3. temp[c] # None => temp[c] \in Inodes
      BY DEF Typed, Places
    <3> QED
      BY <2>3, <3>1, <3>2, <3>3 DEF Synced, Typed
  <2> QED
    BY <1>2, <2>1, <2>2, <2>3 DEF SyncTemp
<1>3. CASE Check(c) \/ Dispatch(c) \/ RenameRefused(c)
  <2>1. UNCHANGED <<body, disk, temp>> /\ call[c].pc \in Ready /\ call'[c].weak = call[c].weak
    BY <1>3 DEF Check, Dispatch, RenameRefused, Fails, Refuses, Go, Typed, CallStates, CallState
  <2> QED
    BY <2>1 DEF Stored, StoredOK, TempOnDisk
<1>4. CASE ~Fill(c) /\ ~SyncTemp(c) /\ ~(Check(c) \/ Dispatch(c) \/ RenameRefused(c))
  BY <1>4, ReadyFrom
<1> QED
  BY <1>1, <1>2, <1>3, <1>4

LEMMA InitStored == Init => Stored
  BY DEF Init, Stored, StoredOK, Filled, ForeignOnDisk, TempOnDisk, Ready, NewCall

LEMMA NextStored ==
  ASSUME Typed, Apart, Stored, [Next]_vars
  PROVE  Stored'
<1>1. ASSUME NEW c \in Calls, Own(c), ~Open(c), ~Create(c)
      PROVE  Stored'
  <2>1. \A d \in Calls \ {c} : StoredOK(d)'
    BY <1>1, StoredByOthers
  <2>2. Filled(c)'
    BY <1>1, FilledStays DEF Filled
  <2>3. ForeignOnDisk(c)'
    BY <1>1, FileEffectsOf, ForeignOnDiskStays
  <2>4. setup' = setup
    BY <1>1, OwnFixed
  <2>5. TempOnDisk(c)'
    BY <1>1, <2>4, TempOnDiskStays DEF TempOnDisk, Opt
  <2> QED
    BY <2>1, <2>2, <2>3, <2>5 DEF Stored, StoredOK
<1>2. ASSUME NEW c \in Calls, Open(c) \/ Create(c)
      PROVE  Stored'
  <2>1. Own(c)
    BY <1>2 DEF Own, Writing, Copying
  <2>2. setup' = setup /\ \A d \in Calls \ {c} : call'[d] = call[d]
    BY <2>1, OwnFixed, OthersStay
  <2>3. /\ CanCreate
        /\ \A i \in Inodes \ {Fresh} : body'[i] = body[i] /\ disk'.body[i] = disk.body[i]
        /\ \A d \in Calls \ {c} : temp'[d] = temp[d]
        /\ temp'[c] = temp[c] \/ (temp'[c] = Fresh /\ body'[Fresh] = "empty")
        /\ call'[c].pc \in {"identify", "admit", "copy", "finish"}
    <3>1. CASE Open(c)
      BY <3>1, FreshApart DEF Open, Typed, CallStates, CallState
    <3>2. CASE Create(c)
      BY <3>2, FreshApart DEF Create, Fails, Refuses, Typed, CallStates, CallState
    <3> QED
      BY <1>2, <3>1, <3>2
  <2>4. \A d \in Calls : temp[d] # None => temp[d] \in Inodes \ {Fresh}
    BY <2>3, FreshApart DEF Typed, Places
  <2>5. ASSUME NEW d \in Calls \ {c}
        PROVE  StoredOK(d)'
    <3>1. call[d].pc = "sync" => call[d].fd \in Inodes \ {Fresh}
      BY <2>3, FreshApart, CallFields DEF Typed, Places, Apart, FdApart, Filling
    <3> QED
      BY <2>2, <2>3, <2>4, <2>5, <3>1, StoredFrame DEF Stored
  <2>6. ForeignOnDisk(c)'
    BY <2>3, <2>4 DEF Stored, StoredOK, ForeignOnDisk
  <2>7. Filled(c)' /\ TempOnDisk(c)'
    BY <2>3 DEF Filled, TempOnDisk, Ready
  <2> QED
    BY <2>5, <2>6, <2>7 DEF Stored, StoredOK
<1>3. CASE Intrude
  <2>1. /\ CanCreate /\ call' = call /\ setup' = setup
        /\ body' = [body EXCEPT ![Fresh] = "foreign"]
        /\ disk' = [disk EXCEPT !.body[Fresh] = "foreign"]
        /\ \A d \in Calls : temp'[d] = temp[d] \/ temp'[d] = Fresh
    BY <1>3 DEF Intrude, Quiet, Typed
  <2>2. body'[Fresh] = "foreign" /\ disk'.body[Fresh] = "foreign"
    BY <2>1, FreshApart DEF Typed
  <2>3. ASSUME NEW d \in Calls
        PROVE  StoredOK(d)'
    <3>1. temp[d] # None => /\ body'[temp[d]] = body[temp[d]]
                            /\ disk'.body[temp[d]] = disk.body[temp[d]]
      BY <2>1, FreshApart DEF Typed, Places
    <3>2. call[d].pc = "sync" => body'[call[d].fd] = body[call[d].fd]
      BY <2>1, FreshApart, CallFields DEF Typed, Places, Apart, FdApart, Filling
    <3>3. CASE temp'[d] = temp[d]
      BY <2>1, <3>1, <3>2, <3>3, StoredFrame DEF Stored
    <3>4. CASE temp'[d] = Fresh
      BY <2>1, <2>2, <3>2, <3>4 DEF Stored, StoredOK, Filled, ForeignOnDisk, TempOnDisk
    <3> QED
      BY <2>1, <3>3, <3>4
  <2> QED
    BY <2>3 DEF Stored
<1>4. ASSUME NEW c \in Calls, Revoke(c) \/ Tidy(c)
      PROVE  Stored'
  BY <1>4 DEF Revoke, Tidy, Quiet, Stored, StoredOK, Filled, ForeignOnDisk, TempOnDisk, Opt, Typed
<1>5. CASE Dying
  <2> SUFFICES ASSUME NEW c \in Calls
               PROVE  StoredOK(c)'
    BY DEF Stored
  <2>1. /\ temp'[c] \in {temp[c], None} /\ setup' = setup /\ disk' = disk
        /\ temp[c] # None => body'[temp[c]] = body[temp[c]]
    BY <1>5, DyingEffects, DyingTyped DEF Apart, TempApart, Typed, Places
  <2>2. CASE call'[c] = call[c]
    <3>1. call[c].pc = "sync" => body'[call[c].fd] = body[call[c].fd]
      BY <1>5, DyingEffects, CallFields DEF Typed, Places, Apart, FdApart, Filling
    <3> QED
      BY <2>1, <2>2, <3>1, StoredFrame DEF Stored
  <2>3. CASE call'[c].pc \in Settled \cup {"idle"}
    BY <2>1, <2>3 DEF Stored, StoredOK, Filled, ForeignOnDisk, TempOnDisk, Settled, Ready
  <2> QED
    BY <1>5, <2>2, <2>3, DyingCalls
<1>6. CASE UNCHANGED vars
  BY <1>6 DEF vars, Stored, StoredOK, Filled, ForeignOnDisk, TempOnDisk, Opt
<1> QED
  BY <1>1, <1>2, <1>3, <1>4, <1>5, <1>6, NextSteps DEF Outside

-----------------------------------------------------------------------------
(* The refinement: what a reader of the path sees.                         *)

InProgress == {c \in Calls : call[c].pc \notin Waiting \cup Settled}
Copiers == {c \in Calls : Opt(c).fallback # "none"}

\* A call that changes what is seen is in progress and brings its content, unless
\* somebody else's was put in its place or it copies.
Shows(c) ==
  /\ call[c].pc \notin Waiting \cup Settled /\ call'[c].pc \notin Waiting \cup Settled
  /\ \/ Value' \in {c, "foreign"}
     \/ MayCopy(c) /\ Value' \in Whole \cup {"gone", "broken"}

LEMMA ValueOfBody ==
  ASSUME dest # None, body[dest] \in Whole
  PROVE  Value = body[dest]
  BY DEF Value

LEMMA SameValue ==
  ASSUME dest' = dest, dest # None => body'[dest] = body[dest]
  PROVE  Value' = Value
  BY DEF Value

LEMMA Values == Value' \in Whole \cup {"gone", "broken"}
  BY DEF Value

LEMMA OwnValue ==
  ASSUME Typed, Controlled, Apart, Stored, NEW c \in Calls, Own(c)
  PROVE  Value' = Value \/ Shows(c)
<1>1. CASE \/ Quietly(c) \/ SyncTemp(c) \/ DirSync(c) \/ CopySync(c) \/ RestoreSync(c) \/ Unlink(c)
  <2>1. dest' = dest /\ body' = body
    BY <1>1, QuietlyLeaves DEF SyncTemp, DirSync, CopySync, RestoreSync, Unlink
  <2> QED
    BY <2>1, SameValue
<1>2. CASE Open(c) \/ Fill(c)
  <2>1. dest' = dest
    BY <1>2 DEF Open, Fill, Quiet
  <2>2. dest # None => dest \in Inodes
    BY DEF Typed, Places
  <2>3. CASE Open(c)
    BY <2>1, <2>2, <2>3, FreshApart, SameValue DEF Open, Typed
  <2>4. CASE Fill(c)
    <3>1. call[c].fd # dest
      BY <2>4 DEF Fill, Apart, FdApart, Filling
    <3> QED
      BY <2>1, <2>2, <2>4, <3>1, SameValue DEF Fill, Typed
  <2> QED
    BY <1>2, <2>3, <2>4
<1>3. CASE Rename(c)
  <2>1. temp[c] \in Inodes /\ body[temp[c]] \in {c, "foreign"}
    BY <1>3 DEF Rename, Typed, Places, Stored, StoredOK, Filled, Ready
  <2>2. dest' # None /\ body'[dest'] = body[temp[c]]
    BY <1>3, <2>1, FreshApart, ReplaceAssumption DEF Rename, Typed
  <2>3. Value' \in {c, "foreign"}
    BY <2>1, <2>2 DEF Value, Whole
  <2>4. call[c].pc = "rename" /\ call'[c].pc \in {"verify", "finish"}
    BY <1>3 DEF Rename, Go, Fails, Typed, CallStates, CallState
  <2> QED
    BY <2>3, <2>4 DEF Shows, Waiting, Settled
<1>4. CASE Removing(c) \/ Create(c) \/ Truncate(c) \/ Copy(c) \/ Restore(c) \/ RestoreFails(c)
  <2>1. MayCopy(c)
    BY <1>4 DEF Controlled, Control, Route, CopySteps, Overwriting, Removing, Create, Truncate, Copy,
                Restore, RestoreFails
  <2>2. /\ call[c].pc \in {"removing", "create", "truncate", "copy", "copied", "restore", "restoring",
                           "restoreSync"}
        /\ call'[c].pc \in {"create", "admit", "copy", "copied", "copySync", "publish", "restoring",
                            "restoreSync", "finish"}
    <3>1. CASE Removing(c) \/ Create(c) \/ Truncate(c)
      BY <3>1 DEF Removing, Create, Truncate, Fails, Refuses, Typed, CallStates, CallState
    <3>2. CASE Copy(c) \/ Restore(c) \/ RestoreFails(c)
      BY <3>2 DEF Copy, Restore, RestoreFails, AfterCopy, Go, Refuses, FailsWith, Typed, CallStates,
                  CallState
    <3> QED
      BY <1>4, <3>1, <3>2
  <2> QED
    BY <2>1, <2>2, Values DEF Shows, Waiting, Settled
<1> QED
  BY <1>1, <1>2, <1>3, <1>4 DEF Own, Writing, Renaming, Copying, Ending, Quietly

LEMMA ServiceStep ==
  ASSUME Typed, Controlled, Apart, Stored, [Next]_vars
  PROVE  [Service!Next \/ up' = {}]_<<Value, call>>
<1>1. ASSUME Value' = Value, InProgress' \subseteq InProgress, Copiers' = Copiers
      PROVE  Service!Next
  BY <1>1 DEF Service!Next, Service!Die, InProgress, Copiers
<1>2. ASSUME setup' = setup
      PROVE  Copiers' = Copiers
  BY <1>2 DEF Copiers, Opt
<1>3. CASE Outside
  <2>1. call' = call /\ setup' = setup
    BY <1>3, OutsideTyped
  <2>2. InProgress' = InProgress
    BY <2>1 DEF InProgress
  <2>3. Value' = Value \/ Value' = "foreign"
    <3>1. CASE Intrude
      <4>1. CASE dest' = Fresh
        BY <3>1, <4>1, FreshApart DEF Intrude, Value, Whole, Typed
      <4>2. CASE dest' = dest
        BY <3>1, <4>2, FreshApart, SameValue DEF Intrude, Typed, Places
      <4> QED
        BY <3>1, <4>1, <4>2 DEF Intrude
    <3>2. ASSUME NEW c \in Calls, Revoke(c) \/ Tidy(c)
          PROVE  Value' = Value
      BY <3>2, SameValue DEF Revoke, Tidy, Quiet
    <3> QED
      BY <1>3, <3>1, <3>2 DEF Outside
  <2>4. CASE Value' = "foreign"
    BY <1>2, <2>1, <2>2, <2>4 DEF Service!Next, Service!Outside, InProgress, Copiers
  <2> QED
    BY <1>1, <1>2, <2>1, <2>2, <2>3, <2>4
<1>4. CASE Dying
  <2> SUFFICES ASSUME up' # {}
               PROVE  Service!Next
    OBVIOUS
  <2>1. Value' = Value
    BY <1>4, DyingEffects, SameValue
  <2>2. InProgress' \subseteq InProgress
    BY <1>4, DyingCalls DEF InProgress, Waiting
  <2> QED
    BY <1>1, <1>2, <1>4, <2>1, <2>2, DyingTyped
<1>5. ASSUME NEW c \in Calls, Own(c)
      PROVE  Service!Next
  <2>1. Copiers' = Copiers /\ \A d \in Calls \ {c} : call'[d] = call[d]
    BY <1>2, <1>5, OwnFixed, OthersStay
  <2>2. InProgress' \in {InProgress, InProgress \cup {c}, InProgress \ {c}}
    BY <2>1 DEF InProgress
  <2>3. CASE Value' = Value
    <3>1. CASE c \notin InProgress /\ c \in InProgress'
      <4>1. InProgress' = InProgress \cup {c}
        BY <2>2, <3>1
      <4> QED
        BY <2>1, <2>3, <3>1, <4>1 DEF Service!Next, Service!Begin, InProgress, Copiers
    <3>2. CASE ~(c \notin InProgress /\ c \in InProgress')
      BY <1>1, <2>1, <2>2, <2>3, <3>2
    <3> QED
      BY <3>1, <3>2
  <2>4. CASE Shows(c)
    <3>1. c \in InProgress /\ InProgress' = InProgress
      BY <2>1, <2>4 DEF InProgress, Shows
    <3>2. CASE Value' = c
      BY <2>1, <3>1, <3>2 DEF Service!Next, Service!Put, InProgress, Copiers
    <3>3. CASE Value' = "foreign"
      BY <2>1, <3>1, <3>3 DEF Service!Next, Service!Outside, InProgress, Copiers
    <3>4. CASE MayCopy(c) /\ Value' \in Whole
      <4>1. c \in Copiers
        BY <3>4 DEF MayCopy, Copiers
      <4> QED
        BY <2>1, <3>1, <3>4, <4>1 DEF Service!Next, Service!Restore, Service!Whole, Whole, InProgress,
           Copiers
    <3>5. CASE MayCopy(c) /\ Value' \in {"gone", "broken"}
      <4>1. c \in Copiers
        BY <3>5 DEF MayCopy, Copiers
      <4> QED
        BY <2>1, <3>1, <3>5, <4>1 DEF Service!Next, Service!Spoil, InProgress, Copiers
    <3> QED
      BY <2>4, <3>2, <3>3, <3>4, <3>5 DEF Shows
  <2> QED
    BY <1>5, <2>3, <2>4, OwnValue
<1>6. CASE UNCHANGED vars
  <2>1. Value' = Value
    BY <1>6, SameValue DEF vars
  <2> QED
    BY <1>6, <2>1 DEF vars
<1> QED
  BY <1>3, <1>4, <1>5, <1>6, NextSteps

LEMMA ServiceInit == Init => Service!Init
<1> SUFFICES ASSUME Init PROVE Service!Init
  OBVIOUS
<1>1. Value \in {"old", "gone"}
  <2>1. dest # None => dest \in Inodes
    BY InitTyped DEF Typed, Places
  <2> QED
    BY <2>1 DEF Init, Value, Whole
<1>2. {c \in Calls : call[c].pc \notin Waiting \cup Settled} = {}
  BY DEF Init, NewCall, Waiting
<1> QED
  BY <1>1, <1>2 DEF Service!Init

Sound == Typed /\ Controlled /\ Apart /\ Stored

LEMMA InitSound == Init => Sound
  BY InitTyped, InitControlled, InitApart, InitStored DEF Sound

LEMMA NextSound == Sound /\ [Next]_vars => Sound'
  BY NextTyped, NextControlled, NextApart, NextStored DEF Sound

\* replaceFileAtomic implements ReplaceService: readers of the path see whole contents
\* of calls in progress, and anything else only from a call with the copy fallback.
THEOREM ReplaceRefines == Spec => ReplacesAtomically
<1>1. Init => Sound /\ Service!Init
  BY InitSound, ServiceInit
<1>2. Sound /\ [Next]_vars => Sound'
  BY NextSound
<1>3. Sound /\ [Next]_vars => [Service!Next \/ up' = {}]_<<Value, call>>
  BY ServiceStep DEF Sound
<1> QED
  BY <1>1, <1>2, <1>3, PTL DEF Spec, ReplacesAtomically

-----------------------------------------------------------------------------
(* The temporary file until the exit.                                      *)

\* Until the call ends, the exit cleanup knows the identity of its file.
Known(c) ==
  call[c].exists /\ call[c].id # None /\ call[c].pc \notin Settled => call[c].reg = "identity"
\* TempTracked of one call.
TrackedOK(c) ==
  /\ Home(c) \in up /\ call[c].exists /\ call[c].id # None
  /\ temp[c] = call[c].id /\ body[temp[c]] # "foreign"
  => call[c].reg = "identity"
Tracked == \A c \in Calls : Known(c) /\ TrackedOK(c)

LEMMA KnownStays ==
  ASSUME Typed, Controlled, NEW c \in Calls, Own(c), Known(c)
  PROVE  call'[c].exists /\ call'[c].id # None /\ call'[c].pc \notin Settled
           => call'[c].reg = "identity"
<1> USE DEF Typed, CallStates, CallState, Known, Settled
<1>1. CASE Start(c) \/ Begin(c) \/ Lock(c)
  BY <1>1, SMTT(40) DEF Start, Begin, Lock, Go, Ends
<1>2. CASE Open(c)
  BY <1>2 DEF Open, Controlled, Control, Unnamed
<1>3. CASE Identify(c)
  BY <1>3 DEF Identify, FailsClosed, Controlled, Control, Unnamed
<1>4. CASE Fill(c) \/ SyncTemp(c)
  BY <1>4 DEF Fill, SyncTemp, FailsClosed, Go
<1>5. CASE Check(c) \/ Dispatch(c) \/ Rename(c) \/ RenameMissing(c) \/ RenameRefused(c)
  BY <1>5 DEF Check, Dispatch, Rename, RenameMissing, RenameRefused, Fails, Refuses, Go
<1>6. CASE Verify(c) \/ DirSync(c) \/ VerifyAgain(c)
  BY <1>6 DEF Verify, DirSync, VerifyAgain, FailsWith, Fails, Go
<1>7. CASE Source(c) \/ Truncate(c) \/ Remove(c) \/ Removing(c) \/ Create(c) \/ Admit(c)
  BY <1>7 DEF Source, Truncate, Remove, Removing, Create, Admit, Fails, Refuses, Go
<1>8. CASE Copy(c) \/ CopySync(c) \/ CopyFails(c) \/ Publish(c)
  BY <1>8 DEF Copy, CopySync, CopyFails, Publish, Fails, Refuses, Go
<1>9. CASE Restore(c) \/ RestoreSync(c) \/ RestoreFails(c)
  BY <1>9 DEF Restore, RestoreSync, RestoreFails, FailsWith, Refuses
<1>10. CASE Finish(c) \/ Unlink(c) \/ CleanupFails(c)
  <2>1. call[c].end \in Settled
    BY DEF Results
  <2> QED
    BY <1>10, <2>1, SMTT(40) DEF Finish, Unlink, CleanupFails, Ends, Go
<1>11. CASE OperationFails(c)
  BY <1>11 DEF OperationFails, Controlled, Control, Unnamed
<1> QED
  BY <1>1, <1>2, <1>3, <1>4, <1>5, <1>6, <1>7, <1>8, <1>9, <1>10, <1>11
     DEF Own, Writing, Renaming, Copying, Ending

LEMMA OwnTracked ==
  ASSUME Typed, Controlled, NEW c \in Calls, Own(c), Known(c)
  PROVE  /\ call'[c].exists /\ call'[c].id # None /\ temp'[c] = call'[c].id
         => call'[c].reg = "identity"
<1> USE DEF Typed, CallStates, CallState
<1>1. CASE call'[c].pc \notin Settled
  BY <1>1, KnownStays
<1>2. CASE Lock(c)
  BY <1>2 DEF Lock, Go, Ends, Controlled, Control, Unnamed, Waiting
<1>3. CASE Finish(c) \/ Unlink(c) \/ CleanupFails(c)
  BY <1>3, SMTT(40) DEF Finish, Unlink, CleanupFails, Ends, Go, Known, Current, Settled
<1>4. ASSUME ~Lock(c), ~(Finish(c) \/ Unlink(c) \/ CleanupFails(c))
      PROVE  call'[c].pc \notin Settled
  <2> USE DEF Settled
  <2>1. CASE Start(c) \/ Begin(c)
    BY <2>1 DEF Start, Begin, Go
  <2>2. CASE Writing(c)
    BY <2>2 DEF Writing, Open, Identify, Fill, SyncTemp, AfterFill, FailsClosed, Go
  <2>3. CASE Renaming(c)
    BY <2>3 DEF Renaming, Check, Dispatch, Rename, RenameMissing, RenameRefused, Verify, DirSync,
              VerifyAgain, FailsWith, Fails, Refuses, Go
  <2>4. CASE Copying(c)
    BY <2>4 DEF Copying, Source, Truncate, Remove, Removing, Create, Admit, Copy, CopySync, CopyFails,
              Restore, RestoreSync, RestoreFails, Publish, AfterCopy, FailsWith, Fails, Refuses, Go
  <2>5. CASE OperationFails(c)
    BY <2>5 DEF OperationFails
  <2> QED
    BY <1>4, <2>1, <2>2, <2>3, <2>4, <2>5 DEF Own, Ending
<1> QED
  BY <1>1, <1>2, <1>3, <1>4

LEMMA TrackedFrame ==
  ASSUME NEW c \in Calls, TrackedOK(c), setup' = setup, up' \subseteq up, call'[c] = call[c],
         temp'[c] \in {temp[c], None},
         temp[c] # None => body'[temp[c]] = body[temp[c]]
  PROVE  TrackedOK(c)'
  BY DEF TrackedOK, Home

LEMMA InitTracked == Init => Tracked
  BY DEF Init, Tracked, Known, TrackedOK, NewCall

LEMMA NextTracked ==
  ASSUME Sound, Tracked, [Next]_vars
  PROVE  Tracked'
<1> USE DEF Sound
<1>1. ASSUME NEW c \in Calls, Own(c)
      PROVE  Tracked'
  <2>1. /\ setup' = setup /\ up' = up
        /\ \A d \in Calls \ {c} : call'[d] = call[d]
    BY <1>1, OwnFixed, OthersStay
  <2>2. Known(c)' /\ TrackedOK(c)'
    BY <1>1, KnownStays, OwnTracked DEF Tracked, Known, TrackedOK
  <2>3. ASSUME NEW d \in Calls \ {c}
        PROVE  /\ temp'[d] = temp[d]
               /\ temp[d] # None => body'[temp[d]] = body[temp[d]]
    <3>1. temp[d] # None => temp[d] \in Inodes
      BY DEF Typed, Places
    <3>2. CASE Open(c)
      BY <3>1, <3>2, FreshApart DEF Open, Typed
    <3>3. CASE Create(c)
      BY <3>1, <3>3, FreshApart DEF Create, Quiet, Typed
    <3>4. CASE ~Open(c) /\ ~Create(c)
      <4>1. CallEffects(c) /\ FileEffects(c)
        BY <1>1, <3>4, CallEffectsOf, FileEffectsOf
      <4> QED
        BY <4>1, TempBodies DEF FileEffects
    <3> QED
      BY <3>2, <3>3, <3>4
  <2>4. ASSUME NEW d \in Calls \ {c}
        PROVE  Known(d)' /\ TrackedOK(d)'
    <3>1. call'[d] = call[d] /\ Known(d) /\ TrackedOK(d)
      BY <2>1 DEF Tracked
    <3>2. Known(d)'
      BY <3>1 DEF Known
    <3>3. TrackedOK(d)'
      BY <2>1, <2>3, <3>1, TrackedFrame
    <3> QED
      BY <3>2, <3>3
  <2> QED
    BY <2>2, <2>4 DEF Tracked
<1>2. CASE Intrude
  <2>1. /\ CanCreate /\ call' = call /\ setup' = setup /\ up' = up
        /\ body' = [body EXCEPT ![Fresh] = "foreign"]
        /\ \A d \in Calls : temp'[d] = temp[d] \/ temp'[d] = Fresh
    BY <1>2 DEF Intrude, Quiet, Typed
  <2>2. body'[Fresh] = "foreign"
    BY <2>1, FreshApart DEF Typed
  <2> SUFFICES ASSUME NEW c \in Calls
               PROVE  Known(c)' /\ TrackedOK(c)'
    BY DEF Tracked
  <2>3. Known(c)'
    BY <2>1 DEF Tracked, Known
  <2>4. CASE temp'[c] = Fresh
    BY <2>2, <2>3, <2>4 DEF TrackedOK
  <2>5. CASE temp'[c] = temp[c]
    <3>1. temp[c] # None => body'[temp[c]] = body[temp[c]]
      BY <2>1, FreshApart DEF Typed, Places
    <3> QED
      BY <2>1, <2>3, <2>5, <3>1, TrackedFrame DEF Tracked
  <2> QED
    BY <2>1, <2>4, <2>5
<1>3. ASSUME NEW c \in Calls, Revoke(c) \/ Tidy(c)
      PROVE  Tracked'
  <2>1. /\ call' = call /\ setup' = setup /\ up' = up /\ body' = body
        /\ \A d \in Calls : temp'[d] \in {temp[d], None}
    BY <1>3 DEF Revoke, Tidy, Quiet, Typed
  <2> QED
    BY <2>1, TrackedFrame DEF Tracked, Known
<1>4. CASE Dying
  <2> SUFFICES ASSUME NEW c \in Calls
               PROVE  Known(c)' /\ TrackedOK(c)'
    BY DEF Tracked
  <2>1. PICK S \in SUBSET Procs : Ended(S)
    BY <1>4, DyingTyped
  <2>2. setup' = setup /\ up' \subseteq up
    BY <1>4, <2>1, DyingTyped DEF Ended
  <2>3. CASE call'[c] = call[c] /\ up' # {}
    <3>1. temp'[c] \in {temp[c], None} /\ body' = body
      BY <1>4, <2>3, DyingEffects
    <3> QED
      BY <2>2, <2>3, <3>1, TrackedFrame DEF Tracked, Known
  <2>4. CASE call'[c] = call[c] /\ up' = {}
    BY <2>4 DEF Tracked, Known, TrackedOK
  <2>5. CASE /\ call'[c] = Dead(c) /\ Home(c) \notin up'
             /\ call'[c].pc \in Settled \cup {"idle"}
             /\ call'[c].pc = call[c].pc \/ call'[c].pc = "dead"
    <3>1. TrackedOK(c)'
      BY <2>2, <2>5 DEF TrackedOK, Home
    <3>2. Dead(c).id = call[c].id
      BY DEF Dead, Typed, CallStates, CallState
    <3>3. Known(c)'
      BY <2>5, <3>2 DEF Known, Controlled, Control, Unnamed, Waiting, Settled
    <3> QED
      BY <3>1, <3>3
  <2> QED
    BY <1>4, <2>3, <2>4, <2>5, DyingCalls
<1>5. CASE UNCHANGED vars
  BY <1>5 DEF vars, Tracked, Known, TrackedOK, Home
<1> QED
  BY <1>1, <1>2, <1>3, <1>4, <1>5, NextSteps DEF Outside

\* What removes a file from a temporary path.
LEMMA ForeignStep ==
  ASSUME Sound, [Next]_vars
  PROVE  ForeignKept
<1> USE DEF Sound
<1> SUFFICES ASSUME NEW c \in Calls, temp[c] # None, body[temp[c]] = "foreign",
                    temp'[c] # temp[c], temp'[c] = None
             PROVE  \/ call[c].pc \in {"rename", "unlink"} /\ up' = up
                    \/ Current(c)
  BY DEF ForeignKept
<1>1. ASSUME NEW d \in Calls, Own(d)
      PROVE  call[c].pc \in {"rename", "unlink"} /\ up' = up
  <2>1. up' = up
    BY <1>1, OwnFixed
  <2>2. ~Open(d) /\ ~Create(d)
    <3>1. ASSUME Open(d)
          PROVE  FALSE
      BY <3>1, FreshApart DEF Open, Typed
    <3>2. ASSUME Create(d)
          PROVE  FALSE
      BY <3>2 DEF Create
    <3> QED
      BY <3>1, <3>2
  <2>3. FileEffects(d)
    BY <1>1, <2>2, FileEffectsOf
  <2> QED
    BY <2>1, <2>3 DEF FileEffects
<1>2. CASE Outside
  <2>1. CASE Intrude
    BY <2>1, FreshApart DEF Intrude, Typed
  <2>2. ASSUME NEW d \in Calls, Revoke(d) \/ Tidy(d)
        PROVE  FALSE
    BY <2>2 DEF Revoke, Tidy, Typed
  <2> QED
    BY <1>2, <2>1, <2>2 DEF Outside
<1>3. CASE Dying
  <2>1. PICK h \in Procs : Exit(h)
    BY <1>3 DEF Dying, PowerLoss, Crash
  <2> QED
    BY <2>1 DEF Exit, Cleaned, Current
<1>4. CASE UNCHANGED vars
  BY <1>4 DEF vars
<1> QED
  BY <1>1, <1>2, <1>3, <1>4, NextSteps

\* The exit cleanup knows every temporary file that a settled call left, and removes
\* nothing else in its place.
THEOREM TempFilesOwned == Spec => TempOwned
<1>1. Init => Sound /\ Tracked
  BY InitSound, InitTracked
<1>2. Sound /\ Tracked /\ [Next]_vars => (Sound /\ Tracked)'
  BY NextSound, NextTracked
<1>3. Tracked' => TempTracked'
  BY DEF Tracked, TrackedOK, TempTracked
<1>4. Sound /\ Tracked /\ [Next]_vars => [TempTracked' /\ ForeignKept]_vars
  BY <1>2, <1>3, ForeignStep
<1> QED
  BY <1>1, <1>2, <1>4, PTL DEF Spec, TempOwned

-----------------------------------------------------------------------------
(* The receipts.                                                           *)

AllActive == \A c \in Calls : Opt(c).active
\* Where a call that is to blame for the destination may be.
Safe == {"copy", "copied", "restore", "restoring", "restoreSync"} \cup Over
Blamed(c) ==
  call[c].told.state = "writing" /\ call[c].told.file = dest /\ call[c].pc \in Safe
Removed(c) == call[c].told.state = "removed" /\ call[c].pc # "admit"
\* DamageReported, with the call whose receipt names the damage or whose admission did
\* not happen.
Damage ==
  up # {} /\ AllActive =>
    /\ dest = None /\ setup.exists => \E c \in Calls : Removed(c)
    /\ dest # None /\ body[dest] \notin Whole
         => \E c \in Calls : Blamed(c) \/ Unadmitted(c)

\* A receipt of removal is the last one until the path has a file again.
LEMMA RemovedStays ==
  ASSUME Typed, Controlled, NEW c \in Calls, Own(c), Removed(c), dest' = None
  PROVE  Removed(c)'
<1> USE StageNames DEF Typed, CallStates, CallState, Controlled, Control, ToldOK, Removed
<1>1. CASE Start(c) \/ Begin(c) \/ Lock(c)
  BY <1>1, SMTT(40) DEF Start, Begin, Lock, Go, Ends
<1>2. CASE Writing(c)
  BY <1>2 DEF Writing, Open, Identify, Fill, SyncTemp, FailsClosed, Go
<1>3. CASE Check(c) \/ Dispatch(c) \/ Rename(c) \/ RenameMissing(c) \/ RenameRefused(c)
  BY <1>3 DEF Check, Dispatch, Rename, RenameMissing, RenameRefused, Fails, Refuses, Go
<1>4. CASE DirSync(c) \/ VerifyAgain(c)
  BY <1>4 DEF DirSync, VerifyAgain, FailsWith, Fails, Go
<1>5. CASE Source(c) \/ Remove(c)
  BY <1>5 DEF Source, Remove, Fails, Refuses, Go
<1>6. CASE Verify(c) \/ Truncate(c) \/ Removing(c) \/ Restore(c) \/ Publish(c)
  BY <1>6 DEF Verify, Truncate, Removing, Restore, Publish
<1>7. CASE Create(c)
  BY <1>7, FreshApart DEF Create, Fails, Refuses
<1>8. CASE Copy(c) \/ CopySync(c) \/ CopyFails(c)
  BY <1>8 DEF Copy, CopySync, CopyFails, AfterCopy, Fails, Refuses, Go
<1>9. CASE RestoreSync(c) \/ RestoreFails(c)
  BY <1>9 DEF RestoreSync, RestoreFails, FailsWith, Refuses
<1>10. CASE Ending(c)
  <2>1. call[c].end # "admit"
    BY DEF Results
  <2> QED
    BY <1>10, <2>1, SMTT(40) DEF Ending, Finish, Unlink, CleanupFails, OperationFails, Ends, Go
<1>11. CASE Admit(c)
  BY <1>11 DEF Admit
<1> QED
  BY <1>1, <1>2, <1>3, <1>4, <1>5, <1>6, <1>7, <1>8, <1>9, <1>10, <1>11 DEF Own, Renaming, Copying

\* The blame stays until the destination is whole or another file.
LEMMA BlamedStays ==
  ASSUME Typed, Controlled, NEW c \in Calls, Own(c), Blamed(c), dest' = dest, dest # None,
         body'[dest] \notin Whole
  PROVE  Blamed(c)'
<1> USE StageNames DEF Typed, CallStates, CallState, Controlled, Control, ToldOK, Blamed
<1>1. call[c].pc \in Safe /\ Opt(c).active
  OBVIOUS
<1>2. CASE Copy(c)
  <2>1. CASE Refuses(c)
    BY <1>2, <2>1 DEF Copy, Refuses, Safe, Over
  <2>2. CASE call[c].pc = "copy" /\ ~Refuses(c)
    BY <1>2, <2>2 DEF Copy, Go, Safe
  <2>3. CASE call[c].pc = "copied" /\ ~Refuses(c)
    <3>1. body' = [body EXCEPT ![call[c].file] = c] /\ call[c].file = dest
      BY <1>2, <2>3 DEF Copy
    <3>2. dest \in Inodes
      BY DEF Places
    <3> QED
      BY <3>1, <3>2 DEF Whole
  <2> QED
    BY <1>2, <2>1, <2>2, <2>3 DEF Copy
<1>3. CASE CopyFails(c)
  BY <1>1, <1>3 DEF CopyFails, Fails, Safe, Over
<1>4. CASE Restore(c)
  BY <1>1, <1>4 DEF Restore, Refuses, Tell, Safe, Over
<1>5. CASE RestoreSync(c) \/ RestoreFails(c)
  BY <1>5 DEF RestoreSync, RestoreFails, FailsWith, Refuses, Safe, Over
<1>6. CASE Finish(c) \/ Unlink(c) \/ CleanupFails(c)
  <2>1. call[c].end \in Safe
    BY DEF Results, Safe, Over, Settled
  <2> QED
    BY <1>6, <2>1, SMTT(40) DEF Finish, Unlink, CleanupFails, Ends, Go, Safe, Over
<1> QED
  BY <1>1, <1>2, <1>3, <1>4, <1>5, <1>6 DEF Safe, Over, Settled, Own, Start, Begin, Lock, Writing,
     Open, Identify, Fill, SyncTemp, Renaming, Check, Dispatch, Rename, RenameMissing, RenameRefused,
     Verify, DirSync, VerifyAgain, Copying, Source, Truncate, Remove, Removing, Create, Admit, CopySync,
     Publish, Ending, OperationFails

\* A new file stays empty and unadmitted, or its call says that it is writing.
LEMMA UnadmittedStays ==
  ASSUME Typed, Controlled, NEW c \in Calls, Own(c), Unadmitted(c), dest' = dest,
         body'[dest] = body[dest]
  PROVE  Blamed(c)' \/ Unadmitted(c)'
<1> USE StageNames DEF Typed, CallStates, CallState, Controlled, Control, ToldOK, Unadmitted
<1>1. CASE Admit(c)
  BY <1>1 DEF Admit, Tell, Blamed, Safe
<1>2. CASE Create(c)
  BY <1>2 DEF Create, Fails, Refuses
<1>3. CASE Start(c) \/ Begin(c) \/ Lock(c)
  BY <1>3, SMTT(40) DEF Start, Begin, Lock, Go, Ends
<1>4. CASE Writing(c)
  BY <1>4 DEF Writing, Open, Identify, Fill, SyncTemp, FailsClosed, Go
<1>5. CASE Renaming(c)
  BY <1>5 DEF Renaming, Check, Dispatch, Rename, RenameMissing, RenameRefused, Verify, DirSync,
              VerifyAgain, FailsWith, Fails, Refuses, Go
<1>6. CASE Source(c) \/ Truncate(c) \/ Remove(c) \/ Removing(c) \/ Copy(c) \/ CopySync(c)
  BY <1>6 DEF Source, Truncate, Remove, Removing, Copy, CopySync, Fails, Refuses, Go
<1>7. CASE CopyFails(c) \/ Restore(c) \/ RestoreSync(c) \/ RestoreFails(c) \/ Publish(c)
  BY <1>7 DEF CopyFails, Restore, RestoreSync, RestoreFails, Publish, FailsWith, Fails, Refuses
<1>8. CASE Ending(c)
  BY <1>8, SMTT(40) DEF Ending, Finish, Unlink, CleanupFails, OperationFails, Ends, Go
<1> QED
  BY <1>1, <1>2, <1>3, <1>4, <1>5, <1>6, <1>7, <1>8 DEF Own, Copying

\* What a step of a call leaves at the destination is whole, as it was, to be blamed
\* on that call or its new file.
LEMMA OwnDamage ==
  ASSUME Sound, AllActive, NEW c \in Calls, Own(c), dest' # None, body'[dest'] \notin Whole
  PROVE  Blamed(c)' \/ Unadmitted(c)' \/ (dest' = dest /\ body'[dest] = body[dest])
<1> USE DEF Sound
<1>1. Opt(c).active /\ ToldOK(c)
  BY DEF AllActive, Controlled, Control
<1>2. dest \in Inodes \cup {None} /\ call[c].file \in Inodes \cup {None}
  BY CallFields DEF Typed, Places
<1>3. CASE \/ Quietly(c) \/ SyncTemp(c) \/ DirSync(c) \/ CopySync(c) \/ RestoreSync(c) \/ Unlink(c)
  BY <1>3, QuietlyLeaves DEF SyncTemp, DirSync, CopySync, RestoreSync, Unlink
<1>4. CASE Open(c)
  BY <1>2, <1>4, FreshApart DEF Open, Quiet, Typed
<1>5. CASE Fill(c)
  <2>1. dest' = dest /\ call[c].fd # dest
    BY <1>5 DEF Fill, Quiet, Apart, FdApart, Filling
  <2> QED
    BY <1>2, <1>5, <2>1 DEF Fill, Typed
<1>6. CASE Rename(c)
  <2>1. temp[c] \in Inodes /\ body[temp[c]] \in {c, "foreign"}
    BY <1>6 DEF Rename, Typed, Places, Stored, StoredOK, Filled, Ready
  <2>2. body'[dest'] = body[temp[c]]
    BY <1>6, <2>1, FreshApart DEF Rename, Typed
  <2> QED
    BY <2>1, <2>2 DEF Whole
<1>7. CASE Removing(c)
  BY <1>7 DEF Removing
<1>8. CASE Create(c)
  <2>1. CASE Allowed(c) /\ dest = None
    <3>1. call'[c].blank = Fresh /\ dest' = Fresh /\ body'[Fresh] = "empty"
      BY <1>1, <1>8, <2>1, FreshApart DEF Create, Typed, CallStates, CallState
    <3> QED
      BY <3>1 DEF Unadmitted
  <2>2. CASE ~(Allowed(c) /\ dest = None)
    BY <1>8, <2>2 DEF Create
  <2> QED
    BY <2>1, <2>2
<1>9. CASE Truncate(c)
  <2>1. CASE MayWrite(c)
    <3>1. /\ call'[c].told = [state |-> "writing", file |-> call[c].file] /\ call'[c].pc = "copy"
          /\ dest' = dest /\ dest = call[c].file
      BY <1>1, <1>9, <2>1 DEF Truncate, Tell, MayWrite, InPlace, Typed, CallStates, CallState
    <3> QED
      BY <3>1 DEF Blamed, Safe
  <2>2. CASE ~MayWrite(c)
    BY <1>9, <2>2 DEF Truncate
  <2> QED
    BY <2>1, <2>2
<1>10. CASE Copy(c)
  <2>1. CASE MayWrite(c) /\ call[c].pc = "copy"
    <3>1. /\ call'[c].told = call[c].told /\ call'[c].pc = "copied"
          /\ dest' = dest /\ dest = call[c].file
      BY <1>1, <1>10, <2>1 DEF Copy, Go, MayWrite, InPlace, Typed, CallStates, CallState
    <3>2. call[c].told.state = "writing" /\ call[c].told.file = dest
      BY <1>1, <2>1, <3>1, StageNames DEF ToldOK
    <3> QED
      BY <3>1, <3>2 DEF Blamed, Safe
  <2>2. CASE MayWrite(c) /\ call[c].pc = "copied"
    <3>1. dest' = dest /\ dest = call[c].file /\ body' = [body EXCEPT ![call[c].file] = c]
      BY <1>1, <1>10, <2>2 DEF Copy, MayWrite, InPlace
    <3> QED
      BY <1>2, <3>1 DEF Whole, Typed
  <2>3. CASE ~MayWrite(c)
    BY <1>10, <2>3 DEF Copy
  <2> QED
    BY <1>10, <2>1, <2>2, <2>3 DEF Copy
<1>11. CASE Restore(c)
  <2>1. CASE MayRestore(c) /\ dest = call[c].file
    <3>1. /\ call'[c].told = [state |-> "writing", file |-> dest] /\ dest' = dest
          /\ call'[c].pc \in {"restoring", "restoreSync"}
      BY <1>1, <1>11, <2>1 DEF Restore, Tell, Typed, CallStates, CallState
    <3> QED
      BY <3>1 DEF Blamed, Safe
  <2>2. CASE ~(MayRestore(c) /\ dest = call[c].file)
    BY <1>2, <1>11, <2>2 DEF Restore, Typed
  <2> QED
    BY <2>1, <2>2
<1>12. CASE RestoreFails(c)
  <2>1. CASE call[c].pc = "restoring" /\ dest = call[c].file
    <3>1. /\ call'[c].told = call[c].told /\ dest' = dest /\ call'[c].pc = "finish"
      BY <1>12, <2>1 DEF RestoreFails, FailsWith, Typed, CallStates, CallState
    <3>2. call[c].told.state = "writing" /\ call[c].told.file = dest
      BY <1>1, <2>1, <3>1, StageNames DEF ToldOK
    <3> QED
      BY <3>1, <3>2 DEF Blamed, Safe, Over
  <2>2. CASE ~(call[c].pc = "restoring" /\ dest = call[c].file)
    BY <1>2, <1>12, <2>2 DEF RestoreFails, Typed
  <2> QED
    BY <2>1, <2>2
<1> QED
  BY <1>3, <1>4, <1>5, <1>6, <1>7, <1>8, <1>9, <1>10, <1>11, <1>12
     DEF Own, Writing, Renaming, Copying, Ending, Quietly

\* A step of a call that takes the destination away says so.
LEMMA OwnRemoval ==
  ASSUME Sound, AllActive, NEW c \in Calls, Own(c), dest' = None
  PROVE  dest = None \/ Removed(c)'
<1> USE DEF Sound
<1>1. CASE Removing(c)
  BY <1>1 DEF Removing, Tell, Removed, AllActive, Typed, CallStates, CallState
<1>2. CASE ~Removing(c)
  <2>1. ~Open(c) /\ ~Create(c) => FileEffects(c)
    BY FileEffectsOf
  <2>2. CASE \/ Quietly(c) \/ SyncTemp(c) \/ DirSync(c) \/ CopySync(c) \/ RestoreSync(c) \/ Unlink(c)
    BY <2>2, QuietlyLeaves DEF SyncTemp, DirSync, CopySync, RestoreSync, Unlink
  <2>3. CASE Rename(c) \/ Create(c)
    BY <2>3, FreshApart DEF Rename, Create
  <2>4. CASE Open(c) \/ Fill(c) \/ Truncate(c) \/ Copy(c) \/ Restore(c) \/ RestoreFails(c)
    BY <2>4 DEF Open, Fill, Truncate, Copy, Restore, RestoreFails, Quiet
  <2> QED
    BY <1>2, <2>2, <2>3, <2>4 DEF Own, Writing, Renaming, Copying, Ending, Quietly
<1> QED
  BY <1>1, <1>2

LEMMA InitDamage == Init => Damage
<1> SUFFICES ASSUME Init PROVE Damage
  OBVIOUS
<1>1. dest # None => dest \in Inodes
  BY InitTyped DEF Typed, Places
<1>2. setup.exists => dest # None
  BY ReplaceAssumption DEF Init
<1> QED
  BY <1>1, <1>2 DEF Init, Damage, Whole

LEMMA NextDamage ==
  ASSUME Sound, Damage, [Next]_vars
  PROVE  Damage'
<1> USE DEF Sound
<1> SUFFICES ASSUME up' # {}, AllActive'
             PROVE  /\ dest' = None /\ setup'.exists => \E c \in Calls : Removed(c)'
                    /\ dest' # None /\ body'[dest'] \notin Whole
                         => \E c \in Calls : Blamed(c)' \/ Unadmitted(c)'
  BY DEF Damage
<1>1. CASE Outside
  <2>1. call' = call /\ setup' = setup /\ up' = up
    BY <1>1, OutsideTyped
  <2>2. AllActive /\ up # {}
    BY <2>1 DEF AllActive, Opt
  <2>3. \/ dest' = dest /\ (dest # None => body'[dest] = body[dest])
        \/ dest' # None /\ body'[dest'] = "foreign"
    <3>1. CASE Intrude
      BY <3>1, FreshApart DEF Intrude, Typed, Places
    <3>2. ASSUME NEW c \in Calls, Revoke(c) \/ Tidy(c)
          PROVE  dest' = dest /\ body' = body
      BY <3>2 DEF Revoke, Tidy, Quiet
    <3> QED
      BY <1>1, <3>1, <3>2 DEF Outside
  <2>4. CASE dest' # None /\ body'[dest'] = "foreign"
    BY <2>4 DEF Whole
  <2>5. CASE dest' = dest /\ (dest # None => body'[dest] = body[dest])
    BY <2>1, <2>2, <2>5 DEF Damage, Removed, Blamed, Unadmitted
  <2> QED
    BY <2>3, <2>4, <2>5
<1>2. CASE Dying
  <2>1. dest' = dest /\ body' = body /\ setup' = setup
    BY <1>2, DyingEffects, DyingTyped
  <2>2. AllActive /\ up # {}
    BY <1>2, <2>1, DyingTyped DEF AllActive, Opt, Ended
  <2>3. \A c \in Calls : /\ call'[c].told = call[c].told /\ call'[c].blank = call[c].blank
                         /\ call[c].pc \in Safe => call'[c].pc \in Safe
                         /\ call[c].pc # "admit" => call'[c].pc # "admit"
    <3> SUFFICES ASSUME NEW c \in Calls
                 PROVE  /\ call'[c].told = call[c].told /\ call'[c].blank = call[c].blank
                        /\ call[c].pc \in Safe => call'[c].pc \in Safe
                        /\ call[c].pc # "admit" => call'[c].pc # "admit"
      OBVIOUS
    <3>1. Dead(c).told = call[c].told /\ Dead(c).blank = call[c].blank
      BY DEF Dead, Typed, CallStates, CallState
    <3> QED
      BY <1>2, <3>1, DyingCalls DEF Dead, Safe, Over, Settled, Typed, CallStates, CallState
  <2> QED
    BY <2>1, <2>2, <2>3 DEF Damage, Removed, Blamed, Unadmitted
<1>3. ASSUME NEW c \in Calls, Own(c)
      PROVE  /\ dest' = None /\ setup'.exists => \E d \in Calls : Removed(d)'
             /\ dest' # None /\ body'[dest'] \notin Whole
                  => \E d \in Calls : Blamed(d)' \/ Unadmitted(d)'
  <2>1. setup' = setup /\ up' = up /\ \A d \in Calls \ {c} : call'[d] = call[d]
    BY <1>3, OwnFixed, OthersStay
  <2>2. AllActive /\ up # {}
    BY <2>1 DEF AllActive, Opt
  <2>3. ASSUME dest' = None, setup'.exists
        PROVE  \E d \in Calls : Removed(d)'
    <3>1. CASE dest # None
      BY <1>3, <2>2, <2>3, <3>1, OwnRemoval
    <3>2. CASE dest = None
      <4>1. PICK d \in Calls : Removed(d)
        BY <2>1, <2>2, <2>3, <3>2 DEF Damage
      <4> QED
        BY <1>3, <2>1, <2>3, <4>1, RemovedStays DEF Removed
    <3> QED
      BY <3>1, <3>2
  <2>4. ASSUME dest' # None, body'[dest'] \notin Whole, ~Blamed(c)', ~Unadmitted(c)'
        PROVE  \E d \in Calls : Blamed(d)' \/ Unadmitted(d)'
    <3>1. dest' = dest /\ body'[dest] = body[dest]
      BY <1>3, <2>2, <2>4, OwnDamage
    <3>2. PICK d \in Calls : Blamed(d) \/ Unadmitted(d)
      BY <2>2, <2>4, <3>1 DEF Damage
    <3>3. d # c
      BY <1>3, <2>4, <3>1, <3>2, BlamedStays, UnadmittedStays
    <3> QED
      BY <2>1, <3>1, <3>2, <3>3 DEF Blamed, Unadmitted
  <2> QED
    BY <2>3, <2>4
<1>4. CASE UNCHANGED vars
  BY <1>4 DEF vars, Damage, AllActive, Opt, Removed, Blamed, Unadmitted
<1> QED
  BY <1>1, <1>2, <1>3, <1>4, NextSteps

\* Callers with onDestinationState can tell a destination that their copies removed or
\* left incomplete: while a process runs, some receipt names it, or it is the empty new
\* file of a call whose admission (captureAtomicDestination) did not come about.
THEOREM DamageIsReported == Spec => []DamageReported
<1>1. Init => Sound /\ Damage
  BY InitSound, InitDamage
<1>2. Sound /\ Damage /\ [Next]_vars => (Sound /\ Damage)'
  BY NextSound, NextDamage
<1>3. Sound /\ Damage => DamageReported
  <2> SUFFICES ASSUME Sound, Damage, up # {}, Value \in {"gone", "broken"}, AllActive
               PROVE  \/ Value = "gone" /\ ~setup.exists
                      \/ \E c \in Calls :
                           \/ Value = "gone" /\ call[c].told.state = "removed"
                           \/ Value = "broken" /\ call[c].told = [state |-> "writing", file |-> dest]
                           \/ Unadmitted(c)
    BY DEF DamageReported, AllActive
  <2>1. CASE Value = "gone"
    <3>1. dest = None
      BY <2>1, ReplaceAssumption DEF Value, Whole
    <3> QED
      BY <2>1, <3>1 DEF Damage, Removed
  <2>2. CASE Value = "broken"
    <3>1. dest # None /\ body[dest] \notin Whole
      BY <2>2, ReplaceAssumption DEF Value, Whole
    <3>2. PICK c \in Calls : Blamed(c) \/ Unadmitted(c)
      BY <3>1 DEF Damage
    <3>3. call[c].told \in Receipt
      BY CallFields DEF Sound, Typed
    <3>4. Unadmitted(c) \/ call[c].told = [state |-> "writing", file |-> dest]
      BY <3>2, <3>3 DEF Blamed, Receipt
    <3> QED
      BY <2>2, <3>4
  <2> QED
    BY <2>1, <2>2
<1> QED
  BY <1>1, <1>2, <1>3, PTL DEF Spec

-----------------------------------------------------------------------------
(* Power loss.                                                             *)

\* A file that a power loss leaves as it is.
OnDisk(i) == i # None => body[i] \in Whole /\ disk.body[i] = body[i]
AllDurable == \A c \in Calls : Opt(c).fallback = "none" /\ Opt(c).sync /\ ~call[c].weak
\* Where nothing is copied and everything synced, both destinations are such files.
WholeOnDisk == AllDurable => OnDisk(dest) /\ OnDisk(disk.entry)

\* The calls of a process that has ended go no further.
Fallen == \A c \in Calls : Home(c) \notin up => call[c].pc \in Settled \cup {"idle"}

LEMMA Moves ==
  ASSUME Typed, NEW c \in Calls, Own(c)
  PROVE  /\ call'[c].pc # "idle"
         /\ call[c].pc \in Settled \cup {"idle"} => Home(c) \in up
<1> USE DEF Typed, CallStates, CallState, Settled
<1>1. CASE Start(c) \/ Begin(c) \/ Lock(c)
  BY <1>1, SMTT(40) DEF Start, Begin, Lock, Go, Ends
<1>2. CASE Writing(c)
  BY <1>2 DEF Writing, Open, Identify, Fill, SyncTemp, AfterFill, FailsClosed, Go
<1>3. CASE Renaming(c)
  BY <1>3 DEF Renaming, Check, Dispatch, Rename, RenameMissing, RenameRefused, Verify, DirSync,
              VerifyAgain, FailsWith, Fails, Refuses, Go
<1>4. CASE Source(c) \/ Truncate(c) \/ Remove(c) \/ Removing(c) \/ Create(c) \/ Admit(c)
  BY <1>4 DEF Source, Truncate, Remove, Removing, Create, Admit, Fails, Refuses, Go
<1>5. CASE Copy(c) \/ CopySync(c) \/ CopyFails(c) \/ Publish(c)
  BY <1>5 DEF Copy, CopySync, CopyFails, Publish, AfterCopy, Fails, Refuses, Go
<1>6. CASE Restore(c) \/ RestoreSync(c) \/ RestoreFails(c)
  BY <1>6 DEF Restore, RestoreSync, RestoreFails, FailsWith, Refuses
<1>7. CASE Finish(c) \/ Unlink(c) \/ CleanupFails(c)
  BY <1>7, SMTT(40) DEF Finish, Unlink, CleanupFails, Ends, Go, Results
<1>8. CASE OperationFails(c)
  BY <1>8 DEF OperationFails
<1> QED
  BY <1>1, <1>2, <1>3, <1>4, <1>5, <1>6, <1>7, <1>8 DEF Own, Copying, Ending

\* A sync that was skipped is not forgotten.
LEMMA WeakStays ==
  ASSUME Typed, NEW c \in Calls, Own(c), call[c].weak
  PROVE  call'[c].weak
<1> USE DEF Typed, CallStates, CallState
<1>1. CASE Start(c) \/ Begin(c) \/ Lock(c)
  BY <1>1, SMTT(40) DEF Start, Begin, Lock, Go, Ends
<1>2. CASE Writing(c)
  BY <1>2 DEF Writing, Open, Identify, Fill, SyncTemp, FailsClosed, Go
<1>3. CASE Renaming(c)
  BY <1>3 DEF Renaming, Check, Dispatch, Rename, RenameMissing, RenameRefused, Verify, DirSync,
              VerifyAgain, FailsWith, Fails, Refuses, Go
<1>4. CASE Copying(c)
  BY <1>4 DEF Copying, Source, Truncate, Remove, Removing, Create, Admit, Copy, CopySync, CopyFails,
              Restore, RestoreSync, RestoreFails, Publish, FailsWith, Fails, Refuses, Go
<1>5. CASE Ending(c)
  BY <1>5, SMTT(40) DEF Ending, Finish, Unlink, CleanupFails, OperationFails, Ends, Go
<1> QED
  BY <1>1, <1>2, <1>3, <1>4, <1>5 DEF Own

LEMMA WeakEver ==
  ASSUME Typed, [Next]_vars, NEW c \in Calls, call[c].weak
  PROVE  call'[c].weak
<1>1. Dead(c).weak = call[c].weak
  BY DEF Dead, Typed, CallStates, CallState
<1> QED
  BY <1>1, NextSteps, OutsideTyped, DyingCalls, OthersStay, WeakStays DEF vars

LEMMA NextFallen ==
  ASSUME Typed, Fallen, [Next]_vars
  PROVE  Fallen'
<1>1. CASE Outside \/ UNCHANGED vars
  BY <1>1, OutsideTyped DEF Fallen, Home, vars
<1>2. CASE Dying
  <2>1. PICK S \in SUBSET Procs : Ended(S)
    BY <1>2, DyingTyped
  <2>2. \A c \in Calls : Dead(c).pc \in Settled \cup {"idle"}
    BY DEF Dead, Typed, CallStates, CallState, Settled
  <2> QED
    BY <1>2, <2>1, <2>2, DyingTyped DEF Ended, Fallen, Home
<1>3. ASSUME NEW c \in Calls, Own(c)
      PROVE  Fallen'
  BY <1>3, OwnFixed, OthersStay, Moves DEF Fallen, Home
<1> QED
  BY <1>1, <1>2, <1>3, NextSteps

LEMMA OwnOnDisk ==
  ASSUME Sound, AllDurable, OnDisk(dest), OnDisk(disk.entry), NEW c \in Calls, Own(c)
  PROVE  OnDisk(dest)' /\ OnDisk(disk.entry)'
<1> USE DEF Sound
<1>1. call[c].pc \notin CopySteps
  BY DEF AllDurable, MayCopy, Controlled, Control, Route
<1>2. (dest # None => dest \in Inodes) /\ (disk.entry # None => disk.entry \in Inodes)
  BY DEF Typed, Places
<1>3. CASE Quietly(c) \/ Unlink(c)
  <2>1. dest' = dest /\ body' = body /\ disk' = disk
    BY <1>3, QuietlyLeaves DEF Unlink
  <2> QED
    BY <2>1 DEF OnDisk
<1>4. CASE Open(c)
  BY <1>2, <1>4, FreshApart DEF Open, Quiet, OnDisk, Typed
<1>5. CASE Fill(c)
  <2>1. call[c].fd # dest /\ call[c].fd # disk.entry
    BY <1>5 DEF Fill, Apart, FdApart, Filling
  <2> QED
    BY <1>2, <1>5, <2>1 DEF Fill, OnDisk, Typed
<1>6. CASE SyncTemp(c)
  BY <1>2, <1>6 DEF SyncTemp, Synced, OnDisk, Typed
<1>7. CASE Rename(c)
  <2>1. /\ temp[c] \in Inodes /\ body[temp[c]] \in {c, "foreign"}
        /\ disk.body[temp[c]] = body[temp[c]]
    BY <1>7 DEF Rename, Typed, Places, Stored, StoredOK, Filled, TempOnDisk, Ready, AllDurable
  <2>2. CASE dest' = temp[c] /\ UNCHANGED <<body, disk>>
    BY <2>1, <2>2 DEF OnDisk, Whole
  <2>3. CASE /\ CanCreate /\ dest' = Fresh
             /\ body' = [body EXCEPT ![Fresh] = body[temp[c]]]
             /\ disk' = [disk EXCEPT !.body[Fresh] = disk.body[temp[c]]]
    BY <1>2, <2>1, <2>3, FreshApart DEF OnDisk, Whole, Typed
  <2> QED
    BY <1>7, <2>2, <2>3 DEF Rename
<1>8. CASE DirSync(c)
  BY <1>8 DEF DirSync, SyncEntry, OnDisk, Typed
<1>9. CASE \/ Truncate(c) \/ Removing(c) \/ Create(c) \/ Copy(c) \/ CopySync(c) \/ Restore(c)
           \/ RestoreSync(c) \/ RestoreFails(c)
  BY <1>1, <1>9 DEF CopySteps, Overwriting, Truncate, Removing, Create, Admit, Copy, CopySync, Restore,
     RestoreSync, RestoreFails
<1> QED
  BY <1>3, <1>4, <1>5, <1>6, <1>7, <1>8, <1>9
     DEF Own, Writing, Renaming, Copying, Ending, Quietly

LEMMA InitOnDisk == Init => WholeOnDisk /\ Fallen
<1> SUFFICES ASSUME Init PROVE WholeOnDisk /\ Fallen
  OBVIOUS
<1>1. dest # None => dest \in Inodes
  BY InitTyped DEF Typed, Places
<1> QED
  BY <1>1 DEF Init, WholeOnDisk, OnDisk, Whole, Fallen, NewCall

LEMMA NextOnDisk ==
  ASSUME Sound, WholeOnDisk, [Next]_vars
  PROVE  WholeOnDisk'
<1> USE DEF Sound
<1> SUFFICES ASSUME AllDurable'
             PROVE  OnDisk(dest)' /\ OnDisk(disk.entry)'
  BY DEF WholeOnDisk
<1>1. setup' = setup
  BY NextSteps, OutsideTyped, DyingTyped, OwnFixed DEF vars
<1>2. AllDurable /\ OnDisk(dest) /\ OnDisk(disk.entry)
  BY <1>1, WeakEver DEF AllDurable, Opt, WholeOnDisk
<1>3. (dest # None => dest \in Inodes) /\ (disk.entry # None => disk.entry \in Inodes)
  BY DEF Typed, Places
<1>4. CASE Intrude
  BY <1>2, <1>3, <1>4, FreshApart DEF Intrude, OnDisk, Whole, Typed
<1>5. ASSUME NEW c \in Calls, Revoke(c) \/ Tidy(c)
      PROVE  OnDisk(dest)' /\ OnDisk(disk.entry)'
  BY <1>2, <1>5 DEF Revoke, Tidy, Quiet, OnDisk
<1>6. CASE Dying
  BY <1>2, <1>3, <1>6, DyingEffects DEF OnDisk
<1>7. ASSUME NEW c \in Calls, Own(c)
      PROVE  OnDisk(dest)' /\ OnDisk(disk.entry)'
  BY <1>2, <1>7, OwnOnDisk
<1>8. CASE UNCHANGED vars
  BY <1>2, <1>8 DEF vars, OnDisk
<1> QED
  BY <1>4, <1>5, <1>6, <1>7, <1>8, NextSteps DEF Outside

\* The file has the content of the call, or somebody else's, and keeps it.
Keeps(c, i) == i # None /\ body[i] \in {c, "foreign"} /\ disk.body[i] = body[i]
Alone(c) == \A d \in Calls \ {c} : call[d].pc = "idle"
Copied == {"truncate", "admit", "copy", "copied", "copySync"}
Brought == {"verify", "publish", "dirsync"}
Succeeds(c) ==
  call[c].pc \in {"verified", "done"} \/ (call[c].pc \in {"finish", "unlink"} /\ call[c].end = "done")
\* The way to success of a call that is alone: the file is written, then on disk, then
\* its entry is.  A file that somebody else puts in its place is on disk as well.
Kept(c) ==
  /\ call[c].pc \in Copied =>
       /\ call[c].file # None /\ dest # None
       /\ dest = call[c].file \/ (body[dest] = "foreign" /\ disk.body[dest] = "foreign")
  /\ call[c].pc = "copySync" => body[call[c].file] = c
  /\ call[c].pc \in Brought => Keeps(c, dest)
  /\ Succeeds(c) => Keeps(c, dest) /\ Keeps(c, disk.entry)
Lasting == \A c \in Calls : AsksDurable(c) /\ Alone(c) => Kept(c)

\* The steps after which nothing has been brought to the destination.
Empty(c) == call'[c].pc \notin Copied \cup Brought /\ ~Succeeds(c)'

LEMMA EmptySteps ==
  ASSUME Sound, NEW c \in Calls,
         \/ Start(c) \/ Begin(c) \/ Lock(c) \/ Writing(c)
         \/ Check(c) \/ Dispatch(c) \/ RenameMissing(c) \/ RenameRefused(c)
         \/ Remove(c) \/ Removing(c) \/ CopyFails(c) \/ Restore(c) \/ RestoreSync(c)
         \/ RestoreFails(c) \/ OperationFails(c)
  PROVE  Empty(c)
<1> USE DEF Sound, Typed, CallStates, CallState, Empty, Copied, Brought, Succeeds
<1>1. call[c].pc \notin {"verified"} \cup Over => call[c].end = "failed"
  BY DEF Controlled, Control, EndOK
<1>2. CASE Start(c) \/ Begin(c) \/ Lock(c)
  BY <1>2, SMTT(40) DEF Start, Begin, Lock, Go, Ends
<1>3. CASE Writing(c)
  BY <1>1, <1>3 DEF Writing, Open, Identify, Fill, SyncTemp, AfterFill, FailsClosed, Go, Over, Settled
<1>4. CASE Check(c) \/ Dispatch(c) \/ RenameMissing(c) \/ RenameRefused(c)
  BY <1>4 DEF Check, Dispatch, RenameMissing, RenameRefused, Fails, Refuses, Go
<1>5. CASE Remove(c) \/ Removing(c) \/ CopyFails(c)
  BY <1>5 DEF Remove, Removing, CopyFails, Fails, Refuses, Go
<1>6. CASE Restore(c) \/ RestoreSync(c) \/ RestoreFails(c)
  BY <1>6 DEF Restore, RestoreSync, RestoreFails, FailsWith, Refuses
<1>7. CASE OperationFails(c)
  BY <1>7 DEF OperationFails
<1> QED
  BY <1>2, <1>3, <1>4, <1>5, <1>6, <1>7

\* The steps that decide nothing about the files.
LEMMA DecidingSteps ==
  ASSUME Sound, NEW c \in Calls, Kept(c),
         \/ Verify(c) \/ VerifyAgain(c) \/ Publish(c) \/ Finish(c) \/ Unlink(c) \/ CleanupFails(c)
  PROVE  Kept(c)'
<1> USE DEF Sound, Typed, CallStates, CallState, Kept, Keeps, Copied, Brought, Succeeds
<1>1. call[c].pc \notin {"verified"} \cup Over => call[c].end = "failed"
  BY DEF Controlled, Control, EndOK
<1>2. UNCHANGED <<dest, body, disk>>
  BY QuietlyLeaves DEF Quietly, Unlink
<1>3. CASE Verify(c)
  BY <1>1, <1>2, <1>3 DEF Verify, Over, Settled
<1>4. CASE VerifyAgain(c)
  BY <1>2, <1>4 DEF VerifyAgain, Fails, FailsWith
<1>5. CASE Publish(c)
  BY <1>1, <1>2, <1>5 DEF Publish, Refuses, Over, Settled
<1>6. CASE Finish(c) \/ Unlink(c) \/ CleanupFails(c)
  <2>1. call[c].end \notin Copied \cup Brought \cup {"verified", "finish", "unlink"}
    BY DEF Results
  <2> QED
    BY <1>2, <1>6, <2>1 DEF Finish, Unlink, CleanupFails, Ends, Go
<1> QED
  BY <1>3, <1>4, <1>5, <1>6

LEMMA OwnKept ==
  ASSUME Sound, NEW c \in Calls, Own(c), AsksDurable(c), ~call'[c].weak, Kept(c)
  PROVE  Kept(c)'
<1> USE DEF Sound, Typed, CallStates, CallState
<1>1. (dest # None => dest \in Inodes) /\ (call[c].file # None => call[c].file \in Inodes)
  BY DEF Places
<1>2. Empty(c) => Kept(c)'
  BY DEF Empty, Kept, Copied
<1>3. CASE Rename(c)
  <2>1. /\ temp[c] \in Inodes /\ body[temp[c]] \in {c, "foreign"}
        /\ disk.body[temp[c]] = body[temp[c]]
    BY <1>3 DEF Rename, Places, Stored, StoredOK, Filled, TempOnDisk, Ready, AsksDurable
  <2>2. ASSUME dest' = temp[c], UNCHANGED <<body, disk>>
        PROVE  Keeps(c, dest)'
    BY <2>1, <2>2, ReplaceAssumption DEF Keeps
  <2>3. ASSUME CanCreate, dest' = Fresh,
               body' = [body EXCEPT ![Fresh] = body[temp[c]]],
               disk' = [disk EXCEPT !.body[Fresh] = disk.body[temp[c]]]
        PROVE  Keeps(c, dest)'
    BY <2>1, <2>3, FreshApart DEF Keeps
  <2>4. Keeps(c, dest)'
    BY <1>3, <2>2, <2>3 DEF Rename
  <2>5. call'[c].pc = "verify" \/ (call'[c].pc = "finish" /\ call'[c].end = "failed")
    BY <1>3 DEF Rename, Go, Fails
  <2> QED
    BY <2>4, <2>5 DEF Kept, Copied, Brought, Succeeds
<1>4. CASE DirSync(c)
  <2>1. Keeps(c, dest)
    BY <1>4 DEF DirSync, Kept, Brought
  <2>2. CASE SyncEntry /\ UNCHANGED <<dest, body>>
    <3>1. Keeps(c, dest)' /\ Keeps(c, disk.entry)'
      BY <2>1, <2>2 DEF SyncEntry, Keeps
    <3>2. call'[c].pc \in {"finish", "verified"}
      BY <1>4 DEF DirSync, Go, Fails, FailsWith
    <3> QED
      BY <3>1, <3>2 DEF Kept, Copied, Brought
  <2>3. CASE Fails(c)
    BY <2>3 DEF Fails, Kept, Copied, Brought, Succeeds
  <2> QED
    BY <1>4, <2>2, <2>3 DEF DirSync, AsksDurable
<1>5. CASE Source(c)
  <2>1. CASE /\ dest # None
             /\ call' = [call EXCEPT ![c].pc = "truncate", ![c].file = dest, ![c].orig = body[dest]]
    BY <1>5, <2>1 DEF Source, Kept, Copied, Brought, Succeeds
  <2>2. CASE Go(c, "remove") \/ Fails(c) \/ Refuses(c)
    BY <1>2, <2>2 DEF Go, Fails, Refuses, Empty, Copied, Brought, Succeeds
  <2> QED
    BY <1>5, <2>1, <2>2 DEF Source
<1>6. CASE Create(c)
  <2>1. CASE Allowed(c) /\ dest = None
    <3>1. /\ call'[c].pc \in {"admit", "copy"} /\ call'[c].file = Fresh
          /\ dest' = Fresh /\ Fresh # None
      BY <1>6, <2>1, FreshApart DEF Create
    <3> QED
      BY <3>1 DEF Kept, Copied, Brought, Succeeds
  <2>2. CASE Fails(c) \/ Refuses(c)
    BY <1>2, <2>2 DEF Fails, Refuses, Empty, Copied, Brought, Succeeds
  <2> QED
    BY <1>6, <2>1, <2>2 DEF Create
<1>7. CASE Truncate(c) \/ Admit(c) \/ Copy(c)
  <2>1. CASE Refuses(c)
    BY <1>2, <2>1 DEF Refuses, Empty, Copied, Brought, Succeeds
  <2>2. CASE ~Refuses(c)
    <3>1. /\ call[c].pc \in Copied /\ call'[c].pc \in Copied /\ call'[c].file = call[c].file
          /\ dest' = dest /\ disk' = disk
          /\ \A i \in Inodes : i # call[c].file => body'[i] = body[i]
      BY <1>7, <2>2 DEF Truncate, Admit, Copy, AfterCopy, Go, Copied, AsksDurable
    <3>2. call'[c].pc = "copySync" => body'[call[c].file] = c
      <4>1. call[c].file \in Inodes
        BY <1>1, <3>1 DEF Kept
      <4> QED
        BY <1>7, <2>2, <4>1 DEF Truncate, Admit, Copy, Go
    <3>3. /\ call[c].file # None /\ dest # None
          /\ dest = call[c].file \/ (body[dest] = "foreign" /\ disk.body[dest] = "foreign")
      BY <3>1 DEF Kept
    <3>4. dest = call[c].file \/ (body'[dest] = "foreign" /\ disk'.body[dest] = "foreign")
      BY <1>1, <3>1, <3>3
    <3>5. call'[c].pc \notin Brought /\ ~Succeeds(c)'
      BY <3>1 DEF Copied, Brought, Succeeds
    <3> QED
      BY <3>1, <3>2, <3>3, <3>4, <3>5 DEF Kept
  <2> QED
    BY <2>1, <2>2
<1>8. CASE CopySync(c)
  <2>1. CASE Refuses(c)
    BY <1>2, <2>1 DEF Refuses, Empty, Copied, Brought, Succeeds
  <2>2. CASE Synced(call[c].file) /\ Go(c, "publish")
    <3>1. /\ call[c].file \in Inodes /\ dest \in Inodes /\ body[call[c].file] = c
          /\ dest = call[c].file \/ (body[dest] = "foreign" /\ disk.body[dest] = "foreign")
      BY <1>1, <1>8 DEF CopySync, Kept, Copied
    <3>2. call'[c].pc = "publish" /\ dest' = dest /\ body' = body
      BY <1>8, <2>2 DEF CopySync, Go
    <3>3. Keeps(c, dest)'
      BY <1>1, <2>2, <3>1, <3>2, ReplaceAssumption DEF Synced, Keeps
    <3> QED
      BY <3>2, <3>3 DEF Kept, Copied, Succeeds
  <2> QED
    BY <1>8, <2>1, <2>2 DEF CopySync
<1>9. CASE \/ Verify(c) \/ VerifyAgain(c) \/ Publish(c) \/ Finish(c) \/ Unlink(c) \/ CleanupFails(c)
  BY <1>9, DecidingSteps
<1>10. CASE \/ Start(c) \/ Begin(c) \/ Lock(c) \/ Writing(c)
            \/ Check(c) \/ Dispatch(c) \/ RenameMissing(c) \/ RenameRefused(c)
            \/ Remove(c) \/ Removing(c) \/ CopyFails(c) \/ Restore(c) \/ RestoreSync(c)
            \/ RestoreFails(c) \/ OperationFails(c)
  BY <1>2, <1>10, EmptySteps
<1> QED
  BY <1>3, <1>4, <1>5, <1>6, <1>7, <1>8, <1>9, <1>10 DEF Own, Renaming, Copying, Ending

LEMMA InitLasting == Init => Lasting
  BY DEF Init, Lasting, Kept, NewCall, Copied, Brought, Succeeds

LEMMA NextLasting ==
  ASSUME Sound, Fallen, Lasting, [Next]_vars
  PROVE  Lasting'
<1> USE DEF Sound
<1> SUFFICES ASSUME NEW c \in Calls, AsksDurable(c)', Alone(c)'
             PROVE  Kept(c)'
  BY DEF Lasting
<1>1. setup' = setup
  BY NextSteps, OutsideTyped, DyingTyped, OwnFixed DEF vars
<1>2. AsksDurable(c) /\ ~call'[c].weak
  BY <1>1, WeakEver DEF AsksDurable, Opt
<1>3. (dest # None => dest \in Inodes) /\ (disk.entry # None => disk.entry \in Inodes)
      /\ (call[c].file # None => call[c].file \in Inodes)
  BY CallFields DEF Typed, Places
<1>4. CASE Intrude
  <2>1. /\ CanCreate /\ call' = call
        /\ body' = [body EXCEPT ![Fresh] = "foreign"]
        /\ disk' = [disk EXCEPT !.body[Fresh] = "foreign"]
        /\ dest' \in {dest, Fresh}
    BY <1>4 DEF Intrude, Quiet
  <2>2. /\ body'[Fresh] = "foreign" /\ disk'.body[Fresh] = "foreign" /\ disk'.entry = disk.entry
        /\ \A i \in Inodes \ {Fresh} : body'[i] = body[i] /\ disk'.body[i] = disk.body[i]
    BY <2>1, FreshApart DEF Typed
  <2>3. Kept(c)
    BY <1>2, <2>1 DEF Lasting, Alone
  <2> QED
    BY <1>3, <2>1, <2>2, <2>3, FreshApart DEF Kept, Keeps, Copied, Succeeds
<1>5. ASSUME NEW d \in Calls, Revoke(d) \/ Tidy(d)
      PROVE  Kept(c)'
  <2>1. call' = call /\ UNCHANGED <<dest, body, disk>>
    BY <1>5 DEF Revoke, Tidy, Quiet
  <2> QED
    BY <1>2, <2>1 DEF Lasting, Alone, Kept, Keeps, Succeeds
<1>6. CASE Dying
  <2>1. Alone(c)
    <3>1. ASSUME NEW d \in Calls \ {c}
          PROVE  call[d].pc = "idle"
      BY <1>6, DyingCalls DEF Alone
    <3> QED
      BY <3>1 DEF Alone
  <2>2. Kept(c)
    BY <1>2, <2>1 DEF Lasting
  <2>3. call'[c].pc = call[c].pc \/ call'[c].pc = "dead"
    BY <1>6, DyingCalls
  <2>4. CASE call'[c].pc = "dead"
    BY <2>4 DEF Kept, Copied, Brought, Succeeds
  <2>5. CASE call'[c].pc \in Settled \cup {"idle"}
    BY <1>3, <1>6, <2>2, <2>3, <2>5, DyingEffects
       DEF Kept, Keeps, Copied, Brought, Succeeds, Settled
  <2>6. CASE call'[c].pc \notin Settled \cup {"idle"}
    <3>1. call'[c] = call[c] /\ Home(c) \in up'
      BY <1>1, <1>6, <2>6, DyingCalls, NextFallen DEF Fallen, Home
    <3>2. UNCHANGED <<dest, body, disk>>
      BY <1>6, <3>1, DyingEffects
    <3> QED
      BY <2>2, <3>1, <3>2 DEF Kept, Keeps, Succeeds
  <2> QED
    BY <2>5, <2>6
<1>7. ASSUME NEW d \in Calls, Own(d)
      PROVE  Kept(c)'
  <2>1. d = c
    BY <1>7, Moves DEF Alone
  <2>2. Alone(c)
    BY <1>7, <2>1, OthersStay DEF Alone
  <2> QED
    BY <1>2, <1>7, <2>1, <2>2, OwnKept DEF Lasting
<1>8. CASE UNCHANGED vars
  BY <1>2, <1>8 DEF vars, Lasting, Alone, Kept, Keeps, Succeeds
<1> QED
  BY <1>4, <1>5, <1>6, <1>7, <1>8, NextSteps DEF Outside

\* A power loss neither undoes a call that resolved with its file and directory synced,
\* nobody else having begun, nor leaves half a content where every call syncs its
\* temporary file and none copies.
THEOREM PowerLossIsSafe == Spec => []PowerLossSafe
<1>1. Init => Sound /\ WholeOnDisk /\ Fallen /\ Lasting
  BY InitSound, InitOnDisk, InitLasting
<1>2. Sound /\ WholeOnDisk /\ Fallen /\ Lasting /\ [Next]_vars
        => (Sound /\ WholeOnDisk /\ Fallen /\ Lasting)'
  BY NextSound, NextOnDisk, NextFallen, NextLasting DEF Sound
<1>3. WholeOnDisk /\ Lasting => PowerLossSafe
  BY DEF WholeOnDisk, AllDurable, OnDisk, WholeAfterPowerLoss, Lasting, Alone, Kept, Keeps, Succeeds,
         DurableSuccess, PowerLossSafe
<1> QED
  BY <1>1, <1>2, <1>3, PTL DEF Spec
=============================================================================
