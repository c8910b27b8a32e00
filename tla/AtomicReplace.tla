---------------------------- MODULE AtomicReplace ----------------------------
(***************************************************************************)
(* Calls of replaceFileAtomic on one path (replace-file*.ts): a sibling    *)
(* temporary file is written, checked and renamed over the destination;    *)
(* where rename is refused the copy fallback may overwrite or recreate the *)
(* destination; the temporary file is cleaned up by the call or at exit.   *)
(*                                                                         *)
(* Inodes are files, and are used again once no entry and no descriptor    *)
(* refers to them.  A file has the content of a call (the call itself), an *)
(* older or foreign content, or is empty or partly written.  Path          *)
(* operations take effect in a step of their own after their check.        *)
(***************************************************************************)
EXTENDS Naturals, Sequences, FiniteSets

CONSTANTS
  Calls,
  Procs,
  Setups,     \* the situations to choose from: process and options of each call, whether
              \* the destination exists at first, and whether renames over it are refused
  Inodes,     \* bound: files that exist or are open at one time
  None,
  Free, Stale,
  MaxRetries, \* renameMaxRetries
  Unstable,   \* whether a rename may give the file another identity
  MaxFaults,  \* bound: failures, revocations and foreign changes
  FaultKinds

Option == [fallback: {"none", "remove", "restore"},  \* copyFallback..., ...Restore
           sync: BOOLEAN,                            \* syncTempFile
           dir: {"none", "best", "strict"},          \* syncParentDir, or syncParent
           locked: BOOLEAN,                          \* verify-content-with-lock
           active: BOOLEAN]                          \* a mutation callback is given

ASSUME ReplaceAssumption ==
  /\ Setups \subseteq [home: [Calls -> Procs], opt: [Calls -> Option], exists: BOOLEAN,
                       refuses: BOOLEAN]
  /\ Inodes # {}
  /\ Free \notin Calls /\ Stale \notin Calls /\ Free # Stale /\ None \notin Inodes
  /\ {"old", "foreign", "empty", "part", "gone", "broken"} \cap Calls = {}
  /\ MaxRetries \in Nat /\ MaxFaults \in Nat /\ Unstable \in BOOLEAN
  /\ FaultKinds \subseteq {"error", "revoke", "intruder", "crash", "exit", "power"}

VARIABLES
  setup,
  dest,   \* the file at the destination
  body,   \* the content of a file
  disk,   \* what a power loss keeps: the entry, and the synced contents
  temp,   \* the file at the temporary path of a call
  call,   \* the state of a call
  valid,  \* the calls whose authority is not revoked
  queue,  \* writeQueues of each process
  lock,   \* the lock of the locked policy
  up,
  faults

vars == <<setup, dest, body, disk, temp, call, valid, queue, lock, up, faults>>

Whole == Calls \cup {"old", "foreign"}
Bodies == Whole \cup {"empty", "part"}
Places == Inodes \cup {None}
Home(c) == setup.home[c]
Opt(c)  == setup.opt[c]

Waiting == {"idle", "queued", "lock"}
Settled == {"done", "failed", "restored", "restore-failed", "dead"}
Steps == Waiting \cup Settled \cup {"open", "identify", "fill", "filled", "sync", "check", "dispatch",
  "rename", "verify", "dirsync", "verified", "finish", "unlink", "source", "truncate",
  "copy", "copied", "copySync", "restore", "restoring", "restoreSync", "remove", "removing", "create",
  "admit", "publish"}

\* id, fd: recordedIdentity and resource of the temp owner; file, orig: the
\* descriptor of the copy fallback and the restore snapshot; blank: the destination
\* that it created and has not admitted; byFd: restore without the path; exists: the
\* temporary file is the call's to remove; reg: what the exit cleanup knows of it;
\* refused: the mutation is refused; told: the last receipt; tries: of rename; weak: a
\* best-effort sync was skipped; end: the result once the file is cleaned up.
NewCall == [pc |-> "idle", id |-> None, fd |-> None, file |-> None, orig |-> "none",
            blank |-> None, byFd |-> FALSE, exists |-> FALSE, reg |-> "none", refused |-> FALSE,
            told |-> [state |-> "none", file |-> None], tries |-> 0, weak |-> FALSE,
            end |-> "failed"]

-----------------------------------------------------------------------------
(* Parts of the steps.                                                     *)

Busy == {dest, disk.entry} \cup {temp[c] : c \in Calls}
          \cup UNION {{call[c].fd, call[c].file} : c \in Calls}
Fresh == CHOOSE i \in Inodes : i \notin Busy
CanCreate == \E i \in Inodes : i \notin Busy

Fault(kind) == kind \in FaultKinds /\ faults < MaxFaults /\ faults' = faults + 1

Go(c, to)  == call' = [call EXCEPT ![c].pc = to]

\* What the step of a call leaves alone unless it says otherwise.
Fixed == <<setup, valid, up>>
Quiet == <<setup, valid, up, queue, lock>>

\* An error inside the try block: on to finish().
Fails(c) == call' = [call EXCEPT ![c].pc = "finish", ![c].end = "failed"]
FailsWith(c, result) == call' = [call EXCEPT ![c].pc = "finish", ![c].end = result]
\* An error inside writeTempFile closes the descriptor first.
FailsClosed(c) ==
  call' = [call EXCEPT ![c].pc = "finish", ![c].end = "failed", ![c].fd = None]
Snapshot(c) == call[c].orig # "none"

\* Fault seeded in Refuses: the refusal is noted, and the rename dispatched all the same.
RefusesAndRenames(c) ==
  call' = [call EXCEPT ![c].pc = IF @ = "dispatch" THEN "rename" ELSE "finish",
                       ![c].end = "failed", ![c].refused = TRUE]
\* rethrowRefusal: the first refusal is the end of the operation.
Refuses(c) ==
  call' = [call EXCEPT ![c].pc = "finish", ![c].end = "failed", ![c].refused = TRUE]

\* mutation.assert() passes.
Allowed(c) == Opt(c).active => c \in valid /\ ~call[c].refused

\* Fault seeded in MayCopy: EPERM and EEXIST always lead to the copy.
MayCopyAlways(c) == TRUE
\* copyFallbackOnPermissionError.
MayCopy(c) == Opt(c).fallback # "none"

\* assertCurrent.
Current(c) == temp[c] = call[c].id

\* assertPublished; the locked policy accepts another file of the same content.
Published(c) == \/ dest = call[c].id
                \/ Opt(c).locked /\ dest # None /\ body[dest] = c

\* AtomicDestination.verify and beforeWrite; without callbacks there is none.
InPlace(c) == Opt(c).active => dest = call[c].file
MayWrite(c) == Allowed(c) /\ InPlace(c)

\* Fault seeded in Tell: the receipt of a removal is not given.
TellOnlyFiles(c, state, file) ==
  IF Opt(c).active /\ state # "removed" THEN [state |-> state, file |-> file] ELSE call[c].told
\* onDestinationState.
Tell(c, state, file) ==
  IF Opt(c).active THEN [state |-> state, file |-> file] ELSE call[c].told

\* The end of finish(), of the lock and of the turn in the queue.
Ends(c, result, clean) ==
  /\ call' = [call EXCEPT ![c].pc = result, ![c].fd = None, ![c].file = None,
                          ![c].reg = IF clean THEN "none" ELSE @]
  /\ queue' = [queue EXCEPT ![Home(c)] = Tail(@)]
  /\ lock' = IF lock = c THEN Free ELSE lock

-----------------------------------------------------------------------------
(* Turn and lock.                                                          *)

Start(c) ==
  /\ call[c].pc = "idle" /\ Home(c) \in up
  /\ Go(c, "queued")
  /\ queue' = [queue EXCEPT ![Home(c)] = Append(@, c)]
  /\ UNCHANGED <<Fixed, dest, body, disk, temp, lock, faults>>

Begin(c) ==
  /\ call[c].pc = "queued" /\ Head(queue[Home(c)]) = c
  /\ Go(c, IF Opt(c).locked THEN "lock" ELSE "open")
  /\ UNCHANGED <<Quiet, dest, body, disk, temp, faults>>

Lock(c) ==
  /\ call[c].pc = "lock"
  /\ \/ lock = Free /\ lock' = c /\ Go(c, "open") /\ UNCHANGED queue
     \/ lock # Free /\ Ends(c, "failed", TRUE)
  /\ UNCHANGED <<Fixed, dest, body, disk, temp, faults>>

-----------------------------------------------------------------------------
(* The temporary file: writeTempFile.                                      *)

\* The path is registered for exit when the owner is made, without identity.
Open(c) ==
  /\ call[c].pc = "open" /\ CanCreate
  /\ IF Allowed(c)
     THEN /\ temp' = [temp EXCEPT ![c] = Fresh]
          /\ body' = [body EXCEPT ![Fresh] = "empty"]
          /\ disk' = [disk EXCEPT !.body[Fresh] = "part"]
          /\ call' = [call EXCEPT ![c].pc = "identify", ![c].fd = Fresh,
                                  ![c].exists = TRUE, ![c].reg = "path"]
     ELSE /\ call' = [call EXCEPT ![c].pc = "finish", ![c].exists = TRUE,
                                  ![c].refused = TRUE, ![c].end = "failed"]
          /\ UNCHANGED <<temp, body, disk>>
  /\ UNCHANGED <<Quiet, dest, faults>>

Identify(c) ==
  /\ call[c].pc = "identify"
  /\ \/ /\ call' = [call EXCEPT ![c].id = call[c].fd, ![c].reg = "identity",
                      ![c].pc = IF Allowed(c) THEN "fill" ELSE "finish",
                      ![c].fd = IF Allowed(c) THEN @ ELSE None,
                      ![c].refused = ~Allowed(c)]
        /\ UNCHANGED faults
     \/ Fault("error") /\ FailsClosed(c)
  /\ UNCHANGED <<Quiet, dest, body, disk, temp>>

AfterFill(c) == IF Opt(c).sync THEN "sync" ELSE "check"

\* The bytes arrive in parts.
Fill(c) ==
  /\ call[c].pc \in {"fill", "filled"}
  /\ \/ /\ body' = [body EXCEPT ![call[c].fd] = IF call[c].pc = "fill" THEN "part" ELSE c]
        /\ Go(c, IF call[c].pc = "fill" THEN "filled" ELSE AfterFill(c))
        /\ UNCHANGED faults
     \/ Fault("error") /\ FailsClosed(c) /\ UNCHANGED body
  /\ UNCHANGED <<Quiet, dest, disk, temp>>

Synced(i) == disk' = [disk EXCEPT !.body[i] = body[i]]

\* syncBestEffort goes on after EPERM; any other error is one of writeTempFile.
SyncTemp(c) ==
  /\ call[c].pc = "sync"
  /\ \/ Synced(call[c].fd) /\ Go(c, "check") /\ UNCHANGED faults
     \/ Fault("error") /\ UNCHANGED disk /\ FailsClosed(c)
     \/ Fault("error") /\ UNCHANGED disk
        /\ call' = [call EXCEPT ![c].pc = "check", ![c].weak = TRUE]
  /\ UNCHANGED <<Quiet, dest, body, temp>>

-----------------------------------------------------------------------------
(* The rename.                                                             *)

\* After the caller's beforeRename, and before each retry.
Check(c) ==
  /\ call[c].pc = "check"
  /\ IF Current(c) THEN Go(c, "dispatch") ELSE Fails(c)
  /\ UNCHANGED <<Quiet, dest, body, disk, temp, faults>>

Dispatch(c) ==
  /\ call[c].pc = "dispatch"
  /\ IF Allowed(c) THEN Go(c, "rename") ELSE Refuses(c)
  /\ UNCHANGED <<Quiet, dest, body, disk, temp, faults>>

\* rename takes whatever is at the temporary path by then.  Its error may come
\* with or without the effect.
Rename(c) ==
  /\ call[c].pc = "rename" /\ temp[c] # None
  /\ \/ dest' = temp[c] /\ UNCHANGED <<body, disk>>
     \/ /\ Unstable /\ CanCreate
        /\ dest' = Fresh
        /\ body' = [body EXCEPT ![Fresh] = body[temp[c]]]
        /\ disk' = [disk EXCEPT !.body[Fresh] = disk.body[temp[c]]]
  /\ temp' = [temp EXCEPT ![c] = None]
  /\ \/ Go(c, "verify") /\ UNCHANGED faults
     \/ Fault("error") /\ Fails(c)
  /\ UNCHANGED Quiet

RenameMissing(c) ==
  /\ call[c].pc = "rename" /\ temp[c] = None
  /\ Fails(c)
  /\ UNCHANGED <<Quiet, dest, body, disk, temp, faults>>

\* EBUSY is tried again; EPERM and EEXIST lead to the copy fallback.
RenameRefused(c) ==
  /\ call[c].pc = "rename" /\ (Fault("error") \/ (setup.refuses /\ UNCHANGED faults))
  /\ \/ call[c].tries < MaxRetries
        /\ call' = [call EXCEPT ![c].pc = "check", ![c].tries = @ + 1]
     \/ MayCopy(c) /\ Go(c, "source")
     \/ Fails(c)
  /\ UNCHANGED <<Quiet, dest, body, disk, temp>>

\* markRenamed and assertPublished.
Verify(c) ==
  /\ call[c].pc = "verify"
  /\ call' = [call EXCEPT
       ![c].exists = FALSE, ![c].reg = "none",
       ![c].pc = IF Published(c) THEN "dirsync" ELSE "finish",
       ![c].id = IF Published(c) THEN dest ELSE @,
       ![c].fd = IF Published(c) THEN dest ELSE @,
       ![c].told = IF Published(c) THEN Tell(c, "published", dest) ELSE @]
  /\ UNCHANGED <<Quiet, dest, body, disk, temp, faults>>

\* Fault seeded in SyncEntry: the directory is not synced.
SyncEntryNot == UNCHANGED disk
SyncEntry == disk' = [disk EXCEPT !.entry = dest]

\* syncDirectoryBestEffort ignores every error, syncParent none.
DirSync(c) ==
  /\ call[c].pc = "dirsync"
  /\ \/ /\ Opt(c).dir = "none" /\ UNCHANGED <<disk, faults>>
        /\ FailsWith(c, "done")
     \/ /\ Opt(c).dir # "none" /\ SyncEntry /\ UNCHANGED faults
        /\ IF call[c].exists THEN FailsWith(c, "done") ELSE Go(c, "verified")
     \/ /\ Opt(c).dir = "best" /\ Fault("error") /\ UNCHANGED disk
        /\ call' = [call EXCEPT ![c].pc = IF call[c].exists THEN "finish" ELSE "verified",
                                ![c].weak = TRUE, ![c].end = "done"]
     \/ Opt(c).dir = "strict" /\ Fault("error") /\ UNCHANGED disk /\ Fails(c)
  /\ UNCHANGED <<Quiet, dest, body, temp>>

\* assertPublished after the directory was synced.
VerifyAgain(c) ==
  /\ call[c].pc = "verified"
  /\ IF Published(c) THEN FailsWith(c, "done") ELSE Fails(c)
  /\ UNCHANGED <<Quiet, dest, body, disk, temp, faults>>

-----------------------------------------------------------------------------
(* The copy fallback.                                                      *)

\* readOwnedCopySource; with restore-original an existing file is opened and
\* its content kept.
Source(c) ==
  /\ call[c].pc = "source"
  /\ \/ ~Current(c) /\ Fails(c)
     \/ Current(c) /\ (Opt(c).fallback # "restore" \/ dest = None) /\ Go(c, "remove")
     \/ /\ Current(c) /\ Opt(c).fallback = "restore" /\ dest # None
        /\ IF Allowed(c)
           THEN call' = [call EXCEPT ![c].pc = "truncate", ![c].file = dest,
                                     ![c].orig = body[dest]]
           ELSE Refuses(c)
  /\ UNCHANGED <<Quiet, dest, body, disk, temp, faults>>

Truncate(c) ==
  /\ call[c].pc = "truncate"
  /\ IF MayWrite(c)
     THEN /\ body' = [body EXCEPT ![call[c].file] = "empty"]
          /\ call' = [call EXCEPT ![c].pc = "copy",
                                  ![c].told = Tell(c, "writing", call[c].file)]
     ELSE Refuses(c) /\ UNCHANGED body
  /\ UNCHANGED <<Quiet, dest, disk, temp, faults>>

Remove(c) ==
  /\ call[c].pc = "remove"
  /\ \/ dest = None /\ Go(c, "create")
     \/ dest # None /\ IF Allowed(c) THEN Go(c, "removing") ELSE Refuses(c)
  /\ UNCHANGED <<Quiet, dest, body, disk, temp, faults>>

Removing(c) ==
  /\ call[c].pc = "removing"
  /\ dest' = None
  /\ call' = [call EXCEPT ![c].pc = "create", ![c].told = Tell(c, "removed", None)]
  /\ UNCHANGED <<Quiet, body, disk, temp, faults>>

\* The exclusive creation fails with EEXIST when somebody was faster.
Create(c) ==
  /\ call[c].pc = "create" /\ CanCreate
  /\ IF Allowed(c) /\ dest = None
     THEN /\ dest' = Fresh
          /\ body' = [body EXCEPT ![Fresh] = "empty"]
          /\ disk' = [disk EXCEPT !.body[Fresh] = "part"]
          /\ call' = [call EXCEPT ![c].pc = IF Opt(c).active THEN "admit" ELSE "copy",
                                  ![c].file = Fresh,
                                  ![c].blank = IF Opt(c).active THEN Fresh ELSE @]
     ELSE /\ IF Allowed(c) THEN Fails(c) ELSE Refuses(c)
          /\ UNCHANGED <<dest, body, disk>>
  /\ UNCHANGED <<Quiet, temp, faults>>

\* captureAtomicDestination of the new file, and its receipt.
Admit(c) ==
  /\ call[c].pc = "admit"
  /\ call' = [call EXCEPT ![c].pc = "copy", ![c].blank = None,
                          ![c].told = Tell(c, "writing", call[c].file)]
  /\ UNCHANGED <<Quiet, dest, body, disk, temp, faults>>

AfterCopy(c) == IF Snapshot(c) \/ Opt(c).sync THEN "copySync" ELSE "publish"

Copy(c) ==
  /\ call[c].pc \in {"copy", "copied"}
  /\ IF MayWrite(c)
     THEN /\ body' = [body EXCEPT ![call[c].file] = IF call[c].pc = "copy" THEN "part" ELSE c]
          /\ Go(c, IF call[c].pc = "copy" THEN "copied" ELSE AfterCopy(c))
     ELSE Refuses(c) /\ UNCHANGED body
  /\ UNCHANGED <<Quiet, dest, disk, temp, faults>>

CopySync(c) ==
  /\ call[c].pc = "copySync"
  /\ IF InPlace(c) THEN Synced(call[c].file) /\ Go(c, "publish")
                   ELSE Refuses(c) /\ UNCHANGED disk
  /\ UNCHANGED <<Quiet, dest, body, temp, faults>>

\* A failed write, mode or sync; an EIO of the destination's metadata also makes
\* the restore go by the descriptor alone.  Without a snapshot there is no restore.
CopyFails(c) ==
  /\ call[c].pc \in {"truncate", "copy", "copied", "copySync"} /\ Fault("error")
  /\ IF Snapshot(c)
     THEN \E fd \in {FALSE, Opt(c).active /\ call[c].pc # "truncate"} :
            call' = [call EXCEPT ![c].pc = "restore", ![c].byFd = fd]
     ELSE Fails(c)
  /\ UNCHANGED <<Quiet, dest, body, disk, temp>>

MayRestore(c) == Allowed(c) /\ (call[c].byFd \/ InPlace(c))

\* writeAtomicDestination again, which truncates, gives the receipt and writes.
Restore(c) ==
  /\ call[c].pc \in {"restore", "restoring"}
  /\ IF MayRestore(c)
     THEN /\ body' = [body EXCEPT ![call[c].file] =
                        IF call[c].pc = "restore" THEN "empty" ELSE call[c].orig]
          /\ call' = [call EXCEPT
               ![c].pc = IF call[c].pc = "restore" THEN "restoring" ELSE "restoreSync",
               ![c].told = Tell(c, "writing", call[c].file)]
     ELSE Refuses(c) /\ UNCHANGED body
  /\ UNCHANGED <<Quiet, dest, disk, temp, faults>>

RestoreSync(c) ==
  /\ call[c].pc = "restoreSync"
  /\ IF call[c].byFd \/ InPlace(c)
     THEN Synced(call[c].file) /\ FailsWith(c, "restored")
     ELSE Refuses(c) /\ UNCHANGED disk
  /\ UNCHANGED <<Quiet, dest, body, temp, faults>>

RestoreFails(c) ==
  /\ call[c].pc \in {"restore", "restoring", "restoreSync"} /\ Fault("error")
  /\ \/ UNCHANGED body
     \/ call[c].pc = "restoring" /\ MayRestore(c)
        /\ body' = [body EXCEPT ![call[c].file] = "part"]
  /\ FailsWith(c, "restore-failed")
  /\ UNCHANGED <<Quiet, dest, disk, temp>>

\* The last verification and receipt; the close, which counts for a file that
\* was created and not synced; then assertCurrent of the temporary file.
Publish(c) ==
  /\ call[c].pc = "publish"
  /\ \/ /\ UNCHANGED faults
        /\ IF InPlace(c)
           THEN call' = [call EXCEPT
                  ![c].told = Tell(c, "published", call[c].file), ![c].file = None,
                  ![c].pc = IF Current(c) THEN "dirsync" ELSE "finish"]
           ELSE Refuses(c)
     \/ /\ Fault("error") /\ ~Snapshot(c) /\ ~Opt(c).sync /\ InPlace(c)
        /\ call' = [call EXCEPT ![c].told = Tell(c, "published", call[c].file),
                                ![c].file = None, ![c].pc = "finish"]
  /\ UNCHANGED <<Quiet, dest, body, disk, temp>>

-----------------------------------------------------------------------------
(* finish(): the temporary file is compared and then unlinked.             *)

Finish(c) ==
  /\ call[c].pc = "finish"
  /\ IF call[c].exists /\ call[c].id # None /\ Current(c)
     THEN Go(c, "unlink") /\ UNCHANGED <<queue, lock>>
     ELSE Ends(c, call[c].end, TRUE)
  /\ UNCHANGED <<Fixed, dest, body, disk, temp, faults>>

Unlink(c) ==
  /\ call[c].pc = "unlink"
  /\ temp' = [temp EXCEPT ![c] = None]
  /\ Ends(c, call[c].end, TRUE)
  /\ UNCHANGED <<Fixed, dest, body, disk, faults>>

\* throwOnCleanupError is FALSE: the result stands and the path stays registered.
CleanupFails(c) ==
  /\ call[c].pc \in {"finish", "unlink"} /\ call[c].exists /\ call[c].id # None
  /\ Fault("error")
  /\ Ends(c, call[c].end, FALSE)
  /\ UNCHANGED <<Fixed, dest, body, disk, temp>>

\* Any other operation fails; open() comes after start(), a verification after
\* markRenamed().
OperationFails(c) ==
  /\ call[c].pc \in {"open", "check", "verify", "verified", "source", "remove", "removing",
                     "create", "admit"}
  /\ Fault("error")
  /\ call' = [call EXCEPT ![c].pc = "finish", ![c].end = "failed",
       ![c].exists = IF call[c].pc \in {"open", "verify"} THEN call[c].pc = "open" ELSE @,
       ![c].reg = IF call[c].pc = "verify" THEN "none" ELSE @]
  /\ UNCHANGED <<Quiet, dest, body, disk, temp>>

-----------------------------------------------------------------------------
(* Around the calls.                                                       *)

\* The authority that assertBeforeMutation checks is revoked, or given back.
Revoke(c) ==
  /\ Opt(c).active /\ call[c].pc \notin Waiting \cup Settled /\ Fault("revoke")
  /\ valid' = IF c \in valid THEN valid \ {c} ELSE valid \cup {c}
  /\ UNCHANGED <<setup, dest, body, disk, temp, call, queue, lock, up>>

\* Another program puts a file of its own at a temporary path or at the destination.
Intrude ==
  /\ CanCreate /\ Fault("intruder")
  /\ \/ \E c \in Calls : temp' = [temp EXCEPT ![c] = Fresh] /\ UNCHANGED dest
     \/ dest' = Fresh /\ UNCHANGED temp
  /\ body' = [body EXCEPT ![Fresh] = "foreign"]
  /\ disk' = [disk EXCEPT !.body[Fresh] = "foreign"]
  /\ UNCHANGED <<Quiet, call>>

\* Another program tidies the temporary file of a call away.
Tidy(c) ==
  /\ temp[c] # None /\ body[temp[c]] # "foreign" /\ Fault("intruder")
  /\ temp' = [temp EXCEPT ![c] = None]
  /\ UNCHANGED <<Quiet, dest, body, disk, call>>

Dead(c) == [call[c] EXCEPT !.pc = IF @ \in Settled \cup {"idle"} THEN @ ELSE "dead",
                           !.fd = None, !.file = None, !.reg = "none"]

\* The processes of S end.
Ended(S) ==
  /\ up' = up \ S
  /\ call' = [c \in Calls |-> IF Home(c) \in S THEN Dead(c) ELSE call[c]]
  /\ queue' = [h \in Procs |-> IF h \in S THEN <<>> ELSE queue[h]]
  /\ lock' = IF lock \in Calls /\ Home(lock) \in S THEN Stale ELSE lock

Crash(h) ==
  /\ h \in up /\ Fault("crash") /\ Ended({h})
  /\ UNCHANGED <<setup, dest, body, disk, temp, valid>>

\* Fault seeded in Cleaned: the exit cleanup looks at no identity.
CleanedByPath(c) == call[c].reg # "none"
\* pathStillMatchesReceipt.
Cleaned(c) == call[c].reg = "identity" /\ temp[c] = call[c].id

\* cleanupRegisteredTempPathsSync.
Exit(h) ==
  /\ h \in up /\ Fault("exit") /\ Ended({h})
  /\ temp' = [c \in Calls |-> IF Home(c) = h /\ Cleaned(c) THEN None ELSE temp[c]]
  /\ UNCHANGED <<setup, dest, body, disk, valid>>

\* Every process ends; an entry or content that was not synced may be lost.
PowerLoss ==
  /\ up # {} /\ Fault("power") /\ Ended(up)
  /\ dest' \in {dest, disk.entry}
  /\ \E kept \in {body[i] : i \in {dest'} \cap Inodes} \cup {"part"} :
       body' = [i \in Inodes |-> IF i = dest' /\ disk.body[i] # body[i] THEN kept ELSE body[i]]
  /\ UNCHANGED <<setup, disk, temp, valid>>

-----------------------------------------------------------------------------

\* The destination exists or not; no call has begun.
Init ==
  /\ setup \in Setups
  /\ dest = IF setup.exists THEN CHOOSE i \in Inodes : TRUE ELSE None
  /\ body = [i \in Inodes |-> "old"]
  /\ disk = [entry |-> dest, body |-> body]
  /\ temp = [c \in Calls |-> None]
  /\ call = [c \in Calls |-> NewCall]
  /\ valid = Calls
  /\ queue = [h \in Procs |-> <<>>]
  /\ lock = Free
  /\ up = Procs
  /\ faults = 0

Writing(c) == Open(c) \/ Identify(c) \/ Fill(c) \/ SyncTemp(c)
Renaming(c) == \/ Check(c) \/ Dispatch(c) \/ Rename(c) \/ RenameMissing(c) \/ RenameRefused(c)
               \/ Verify(c) \/ DirSync(c) \/ VerifyAgain(c)
Copying(c) == \/ Source(c) \/ Truncate(c) \/ Remove(c) \/ Removing(c) \/ Create(c) \/ Admit(c) \/ Copy(c)
              \/ CopySync(c) \/ CopyFails(c) \/ Restore(c) \/ RestoreSync(c)
              \/ RestoreFails(c) \/ Publish(c)
Ending(c) == Finish(c) \/ Unlink(c) \/ CleanupFails(c) \/ OperationFails(c)

Next ==
  \/ \E c \in Calls : \/ Start(c) \/ Begin(c) \/ Lock(c) \/ Writing(c) \/ Renaming(c)
                      \/ Copying(c) \/ Ending(c) \/ Revoke(c) \/ Tidy(c)
  \/ Intrude \/ PowerLoss
  \/ \E h \in Procs : Crash(h) \/ Exit(h)

Spec == Init /\ [][Next]_vars

-----------------------------------------------------------------------------
(* Properties.                                                             *)

Value == IF dest = None THEN "gone" ELSE IF body[dest] \in Whole THEN body[dest] ELSE "broken"

Service == INSTANCE ReplaceService WITH
  Old <- "old", Foreign <- "foreign", Gone <- "gone", Broken <- "broken", value <- Value,
  open <- {c \in Calls : call[c].pc \notin Waiting \cup Settled},
  copiers <- {c \in Calls : Opt(c).fallback # "none"}

\* A reader of the path sees whole contents only, each brought by a call in
\* progress, whatever other calls, processes and programs do to the paths; only
\* copyFallbackOnPermissionError lets a call be seen between.  After a power loss
\* see WholeAfterPowerLoss.
ReplacesAtomically == Service!Init /\ [][Service!Next \/ up' = {}]_<<Value, call>>

\* "The first callback refusal is terminal": neither a refused authority nor a
\* destination that changed under the call is followed by another change of the
\* destination, the restore of the old content included.
RefusalIsTerminal ==
  [][\A c \in Calls : call[c].refused /\ call'[c] # call[c] /\ up' = up
                       => UNCHANGED <<dest, body>>]_vars

\* "Failed or indeterminate admission can leave no identity receipt"
\* (docs/atomic.md:222): the destination is the empty file that the call created.
Unadmitted(c) == dest # None /\ dest = call[c].blank /\ body[dest] = "empty"

\* Callers with onDestinationState learn what their copies did: a destination that
\* is missing or incomplete is the one some receipt names, or one still empty whose
\* admission is pending, failed or was cut off by a crash.  Nothing but a copy makes
\* it so, a power loss aside.
DamageReported ==
  up # {} /\ Value \in {"gone", "broken"} /\ (\A c \in Calls : Opt(c).active)
    => \/ Value = "gone" /\ ~setup.exists
       \/ \E c \in Calls :
            \/ Value = "gone" /\ call[c].told.state = "removed"
            \/ Value = "broken" /\ call[c].told = [state |-> "writing", file |-> dest]
            \/ Unadmitted(c)

AsksDurable(c) == Opt(c).sync /\ Opt(c).dir = "strict" /\ ~call[c].weak

\* Nobody else having begun, the destination has the content of a synced call.
DurableSuccess ==
  \A c \in Calls :
    /\ call[c].pc = "done" /\ AsksDurable(c)
    /\ \A d \in Calls \ {c} : call[d].pc = "idle"
    => dest # None /\ body[dest] \in {c, "foreign"}

\* With syncTempFile the destination is whole.
WholeAfterPowerLoss ==
  (\A c \in Calls : Opt(c).fallback = "none" /\ Opt(c).sync /\ ~call[c].weak)
    => dest = None \/ body[dest] \in Whole

\* A power loss neither undoes a call that resolved with file and directory synced
\* nor leaves half a content where the temporary files are synced.
PowerLossSafe == DurableSuccess /\ WholeAfterPowerLoss

\* A temporary file that a settled call could not remove stays registered for
\* the exit of the process, with its identity.
TempTracked ==
  \A c \in Calls :
    /\ Home(c) \in up /\ call[c].exists /\ call[c].id # None
    /\ temp[c] = call[c].id /\ body[temp[c]] # "foreign"
    => call[c].reg = "identity"

\* A file that somebody else put at a temporary path goes only with the rename
\* or unlink already under way after its check, or if it bears the identity of
\* the call's own file; the cleanup at exit keeps it.
ForeignKept ==
  \A c \in Calls :
    temp[c] # None /\ body[temp[c]] = "foreign" /\ temp'[c] # temp[c] /\ temp'[c] = None
      => \/ call[c].pc \in {"rename", "unlink"} /\ up' = up
         \/ Current(c)

\* Every temporary file is removed or still known to the exit cleanup, and nothing
\* else is removed in its place.
TempOwned == [][TempTracked' /\ ForeignKept]_vars
=============================================================================
