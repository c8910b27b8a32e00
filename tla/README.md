# Verification of fs-safe

fs-safe is a TypeScript library (with two Rust crates) for file system work that
must survive hostile directory layouts, concurrent processes, failing system
calls and crashes: reads and writes below a root, atomic replacement, file
locks, durable queues, archives, temporary workspaces. This directory holds TLA+
models of the parts whose correctness depends on interleavings and crashes, the
TLC configurations that check them, and proofs checked by TLAPS.

Paths such as `json-durable-queue.ts:72` are below `src/` of the repository;
`docs/...` is its documentation. The sections are: the system (every component,
its state, operations, hard behaviours and correctness properties), the modules
and their correspondence to the code, the runs with their bounds and fairness,
the proofs, findings, what is not modelled, and the plan.

## The system

### Components that are modelled

**JSON durable queue** (`json-durable-queue*.ts`). *State*: per entry id the files
`<id>.json` (pending), `<id>.processing` (claimed), `<id>.delivered`
(acknowledged, about to go), `<failedDir>/<id>.json` (evidence), the retirement
record `.fs-safe-retirements/<id>.json/entry`, and the transfer lock of the id, a
sidecar lock. *Operations*: enqueue (atomic replacement of `<id>.json`, no lock),
load and batch load (claim by hardlink, retire the source by rename into a
record, read through a pinned descriptor, callback, optional migration), ack
(rename to `.delivered`, unlink), quarantine (link into the failed directory,
unlink), completion of delivered markers, recovery of an interrupted retirement.
*Interactions*: producers and consumers share only the files; consumers exclude
each other through the sidecar lock; enqueue and migration go through the atomic
replacement. *Hard*: producers act between any two steps of a consumer; every step
can be the last one before a process crash or a power loss; a transition may have
taken effect although its sync failed and the call threw. *Correct when*: no
accepted entry is lost, nothing settled returns, claims and evidence are never
replaced, and an interrupted transition can be completed.

**Sidecar file lock, asynchronous** (`sidecar-lock*.ts`, `file-lock.ts`). *State*: the
lock file with owner and ownership token, the reclaim guard directory
`<lockPath>.reclaim`, and in each process a manager: held entries with a reference
count, the admission of each path, the set of guard directories to remove at
exit. *Operations*: acquire (admission, creation, stale admission, guarded removal
of a stale record, registration), reentrant reuse, release, drain and forced
release, reset, exit cleanup. *Interactions*: the durable queue, the document store
and callers use it; processes meet only in the two names on disk. *Hard*: nearly
every check and the operation that relies on it are separated by an await, so
tasks of the process and other processes come in between; owners are killed.
*Correct when*: one owner at a time, a live owner's file is never removed, a dead
owner's can be, and no admission, guard or reference leaks.

**Atomic replacement** (`replace-file*.ts`, `temp-cleanup.ts`, `write-queue.ts`).
*State*: the destination; per call a temporary file with its owner (descriptor, recorded
identity, registration for exit), the authority and the receipts given to the caller; per
process and path a promise queue; for one policy a lock. *Operations*: write, sync and
check the temporary file, rename with retries, verify, the copy fallback (remove and
create, or overwrite with restore), directory sync, cleanup by the call and at exit.
*Interactions*: the queue, the stores and callers use it; other programs change the same
directory. *Hard*: every check is an operation before the one that relies on it; the copy
fallback destroys before it creates; a callback may refuse at any step; syncs may be
refused and power be lost. *Correct when*: a reader sees an old or a new whole content, the
caller is told of every other state, and only own temporary files are removed.

**JSON document store** (`json-document-store.ts`, `write-queue.ts`). *State*: the document;
per process and path a promise queue; per call a token in its asynchronous context; the
file lock. *Operations*: write, update, updateOr. *Interactions*: serialized by the queue in
a process and by the sidecar lock between processes. *Hard*: the updater is asynchronous
and may call the store again, await it or not, in an order that crosses another update.
*Correct when*: no update is lost, no call waits for itself, every call settles.

**Watch** (`watch*.ts`). *State*: the scope generation with its abort controller and waiter,
snapshot, pending requests and hints, two timers, the backend, the calls that wait.
*Operations*: hints, reconcile, setScopes, close, and the pass: probe, scan, handover,
publication. *Interactions*: the backend calls back, the consumer's callbacks may call the
subscription, the worker reads the file system. *Hard*: everything can happen between two
awaits of a pass; requests are coalesced; an error of a retired generation is no failure.
*Correct when*: every waiter settles, nothing of an old generation is delivered, every change
reaches the consumer.

**Publication** (`publish-file*.ts`, `publish-rename-fallback.ts`). *State*: source and
target, descriptors of both, the identity of what was created. *Operations*: create-only
publication by hardlink, copy or no-replace rename, the fallback of a rename by link and
unlink, fences, directory sync, undo. *Hard*: links, removals and the fallback's rename are by
name, after a check; the sync may fail when the target is visible. *Correct when*: an existing
target is never replaced, a failed publication leaves what its result says.

**Directory replacement** (`replace-directory.ts`, `retained-directory-replacement.ts`).
*State*: target, staged directory, backup, and the retained identities. *Operations*: backup,
publication, rollback, removal of the original. *Hard*: a crash or failure between two
renames; a rename that failed may have happened; another creator. *Correct when*: the old or
the new tree is reachable and the backup is never lost.

**Moves** (`move-path*.ts`, `guarded-mutation.ts`). *State*: source fingerprint, staged copy
and its registration for exit. *Operations*: rename, or copy, commit, removal of the source,
cleanup. *Hard*: the source changes during the copy; removals by path; exits. *Correct when*:
what is removed was copied, and nothing staged is left in silence.

**Private temporary workspaces** (`private-temp-workspace.ts`, `temp-workspace-owner.ts`).
*State*: directory, its identity and descriptor, quarantine, first result. *Operations*:
create, register, clean up, clean up at exit. *Hard*: the synchronous cleanup at exit during
an asynchronous one. *Correct when*: only own directories are removed, each once, and what
could not be removed is told.

These four act on names of the same directories, in one process or several.

**Archive publication** (`archive-deadline.ts`, `archive-merge.ts`, `archive-durability.ts`).
*State*: the tree at the destination with its modes; per call the walk with the directories it
has open, the files and directories still to finalize, the deadline with the set of mutations
under way. *Operations*: walk of the staged tree, creation of directories, publication of files,
syncs in batches, modes and syncs of directories, the timer, the answer. *Interactions*: files
are copied by the Root facade, directories pinned by `directory-mode-node.ts`; the rest of
`archive*.ts` reads, admits and stages before. *Hard*: the deadline elapses between any two
operations while batches are under way; modes may shut the call out of its own tree; two calls
may share a destination. *Correct when*: the answer is final, success means a whole and durable
tree, and no call waits for its archive after its deadline.

### Components that are not modelled yet, or only in part

| Component | State and operations | Hard behaviours | Correct when |
|---|---|---|---|
| Sidecar lock, synchronous (`file-lock-sync*.ts`) | same files on disk; acquire, release, reset without awaits | interleaves with other processes; caller's callbacks reenter it | as the asynchronous lock |
| Staged files and producer handoff (`sibling-*.ts`, `retained-file*.ts`) | staged file, leases, retained descriptors; stage, publish, hand off, settle | late producers, settlement during cleanup | a staged file has one owner |
| Moves of trees (`move-path-cleanup.ts`) | alias groups of hardlinks in a tree | a hardlink outside the tree | a stale group is kept whole |
| Other temporary files (`temp-target.ts`, `private-*.ts`) | files, leases; create, keep, hand off, clean up | identity checks across awaits | only own files are removed |
| Archive input (`archive-read.ts`, `archive-tar-*.ts`, `archive-zip-*.ts`, ...) | limits, byte budgets; inspect, admit, stage | malformed headers, limits at boundaries | limits hold |
| Root facade (`root*.ts`, `pinned-*.ts`, `guarded-*.ts`, `write-*.ts`, ...) | a root's identity, policies; reads, writes, removals below it | path components change between check and use | operations stay below the root |
| File and secret stores (`file-store*.ts`, `secret*.ts`, `secure-file*.ts`) | files below a root; read, write, prune, admit | expiry races with a writer | only expired entries are removed; a secret is never readable by others |
| Permissions, Windows security | none; query, format, repair | none of its own | reported modes are the file's |
| Copy and clone | write leases, descriptors; copy, clone, transfer | ambiguous close, descriptor reuse | a descriptor has one owner |
| Pure path algorithms | none | boundaries of prefixes and separators | agree with their definition |
| Bounded reads | byte budgets; read, hash, observe | short reads, growth during the read | never more than the budget |
| Native bindings, guest dispatch | the loaded addon | none of its own | calls reach the chosen backend |
| Small services (`async-lock.ts`, `timing.ts`, `trash.ts`, ...) | promise chain; withLock, withTimeout | reentrance, a late answer after a timeout | callers run one at a time |
| Rust native addon, Rust archive core | tar meter state; feed headers and bytes | limits at boundaries, extension headers | limits are never exceeded |

`PROJECT.json` lists each with its files, and the hazards with their lines.

## Modules

| Module | What it is |
|---|---|
| `DurableQueue` | one entry id of the queue, one system call a step |
| `QueueEntry` | the abstract entry: pending, claimed, evidence |
| `LockService` | the abstract lock: an owner, those inside, a stale lock |
| `DurableQueueImpl` | `DurableQueue` as an implementation of `QueueEntry` and as a user of `LockService`; the worker and its fairness |
| `DurableQueueProofs` | theorems about `DurableQueue`: types, exclusion, evidence, claims; what holds between the steps of a transition; the queue as a user of its lock; no entry is lost; with one worker, the refinement of `QueueEntry` and what becomes of settled entries |
| `SidecarLock` | one lock path: disk, managers of processes, tasks |
| `SidecarLockImpl` | `SidecarLock` as an implementation of `LockService`; the fairness of recovery |
| `SidecarLockProofs` | theorems about `SidecarLock` and its refinement |
| `SidecarAdmissionProofs` | the admission of a lock path is never leaked, and the last handle releases; over the lemmas of `SidecarLockProofs` |
| `AtomicReplace` | replacements of one file, in several processes, with foreign programs |
| `ReplaceService` | what a replacement promises to the readers of the path |
| `AtomicReplaceProofs` | theorems about `AtomicReplace` and its refinement |
| `DocumentStore` | the calls of a document store, their contexts, queues and locks |
| `DocumentStoreProofs` | theorems about `DocumentStore` |
| `WatchScheduler` | one watch subscription |
| `WatchSchedulerProofs` | theorems about `WatchScheduler` |
| `Entries` | names, objects, processes and foreign programs of one directory; what its calls share |
| `Publication`, `DirectorySwap`, `MovePath`, `TempWorkspace` | the steps of a call of each of these components, over `Entries` |
| `Placement` | the four composed: calls of any kind against each other |
| `PlacementProofs` | theorems about `Placement` |
| `ArchivePublication` | extractions and merges of a tree into one destination, each with its deadline |
| `ArchivePublicationProofs` | theorems about `ArchivePublication` |
| `MCDurableQueue`, `MCSidecarLock`, `MCAtomicReplace`, `MCDocumentStore`, `MCWatchScheduler`, `MCPlacement`, `MCArchivePublication` | instances for TLC |

`LockService` ties three components together: the queue uses its transfer lock within what
`LockService` allows (`UsesLock`), and the sidecar protocol provides it (`KeepsService`). The
document store's file lock is the same: an owner, or a stale lock. Queue and store are
therefore checked with an atomic lock, and the lock protocol by itself.

A definition under a comment "Fault seeded ..." is a mutant: a plausible bug in
the definition that follows it. No specification uses it; each property is shown to
fail when its mutant replaces the original.

### DurableQueue

*State*. `fs` maps each name to the file identity behind it, `disk` to what a power
loss is certain to leave; `content` is the generation (number of the enqueue) in a
file; `pin` the descriptor a process holds; `lock` the transfer lock; `pc`, `op`,
`ret` the running call; `got` and `verdict` what a consumer loaded and decided.
`published`, `enqueued`, `loaded`, `acked`, `settled` record what happened, for the
properties.

| Actions | Code |
|---|---|
| `Publish`, `AssertPublished`, `SyncParent`, `WriteRejected` | `writeQueueEntry` (`json-durable-queue.ts`) through `replaceFileAtomicWithDirectorySync` and `AtomicTempOwner.assertPublished` |
| `Load`, `LoadPending`, `Ack`, `MoveToFailed` | the exported calls |
| `AcquireLock`, `LockTimeout`, `Unlock` | `withQueueTransferLock` |
| `Recover`, `RecoverRejects`, `Relink`, `UnlinkEntry`, `RmdirRecord` | `recoverDurableQueueRetirement`, `removeRetirementRecord` |
| `Claim`, `Link`, `Retire`, `MkdirRecord`, `TakePending`, `Claimed` | `claimDurableQueueEntryUnlocked`, `retireDurableQueueSource` |
| `Open`, `Read`, `CallbackReturns`, `CallbackMigrates`, `CallbackThrows` | `withJsonDurableQueueEntry` |
| `MigrateAssert`, `MigratePublish`, `Migrated` | `migrateDurableQueueEntry` |
| `AckStart` to `AckDone`, `Sweep`, `SweepDone` | `acknowledgeDurableQueueEntry`, `completeDeliveredQueueEntry` |
| `Fail` to `FailDone` | `moveDurableQueueEntryToFailed` |
| `SyncStep`, `SyncFails` | every `syncDirectory` of the consumers |
| `Crash`, `ProducerCrash`, `PowerLoss`, `RemoveStaleLock` | the environment |

*Abstractions.* One id; the failed directory and the retirement root exist. The
content of a file is its generation; parsing, bounds on bytes and validation of ids
are left out. A temporary file is written and renamed in one step: it is private until
then. A retirement record is read in one step, because under the lock only
`<id>.json` can change meanwhile. The branches for EEXIST and ENOENT of the claim's
own link and for more than two links cannot be reached under the lock and are left
out. The in-process queue of transitions (`serializePathWrite`) is part of the lock.
The early release of the read pin on Windows is not modelled. A refused hardlink is
the fault `link`.

*File identities* are reused: an identity is free again when no name, durable or
current, and no descriptor refers to it, so a comparison of identities is only as
good as the descriptor that pins the file.

*Power loss.* An fsync of a directory makes its current names durable. A power loss
keeps or loses every other change name by name, with two constraints: a rename
never loses the file it moves, and the content of a record needs the record.

*Consumers* acknowledge or quarantine what their last load returned and retry the
operation they chose until it succeeds or they load again (`got`, `verdict`); with
`failUnloaded` they may also quarantine an id they did not load. A consumer that
crashes leaves its lock `Stale`. The queue's lock fails closed
(`json-durable-queue-ownership.ts:441`), so it takes an operator to remove it:
`RemoveStaleLock`.

### SidecarLock

*State*. `file` is the record at the lock path and `whole` the records written to
their last byte; `guardDir` whether the guard directory exists; `mgr` the manager of
each process for this path; `task` the local variables of each call; `maker` who
created a record. A step is what happens between two awaits or one operation on
the file system.

| Actions | Code |
|---|---|
| `Admit`, `Reuse`, `CreateRefused`, `CreateFile`, `CreateConflict`, `Created`, `Register`, `UndoCompare`, `UndoRemove` | `acquireSidecarLock` (`sidecar-lock-acquire.ts`) |
| `WriteFile`, `WriteFails` | `createSidecarFile` (`sidecar-lock-publication.ts`) |
| `Inspect`, `Recheck`, `GuardMade`, `Boundary` | `handleStaleSidecarAdmission` |
| `TakeGuard`, `GuardRemove`, `GuardRemoved` | `tryAcquireSidecarReclaimGuard` (`sidecar-lock-reclaim.ts:379-392`) |
| `Approve`, `Confirm`, `Remove` | `removeStaleSidecarLockIfAllowed` |
| `ReleaseHandle`, `ReleaseCompare` to `ReleaseDone`, `Drain` | `releaseHeldLock`, `removeSidecarLockIfUnchanged`, `drain` |
| `Reset`, `Exit`, `CleanUp` | `reset`, `releaseAllLocksSync` |
| `Crash` | a killed process |

*Abstractions.* Raw lock paths (no Root). A record stands for the bytes of a lock file,
which differ for every creation because of the ownership token. `Hardlinks` chooses
between the publication of a whole staged file and the O_EXCL fallback that fills
the file after it is visible. Reserving the admission and looking up the guard are
one step; so are the check after the payload callback and the creation that
follows. The age and the caller's `shouldReclaim` decide nondeterministically; the
caller's `shouldRemoveStaleLock` approves only a record whose process has ended,
because `docs/sidecar-lock.md:594` requires a reliable liveness policy. A failed
attempt retries or times out nondeterministically. A process that exits does not
come back, and its operations under way do not take effect. The comparison and the
removal in reset and exit cleanup are synchronous and one step.

### AtomicReplace

*State*. `dest` is the file at the destination, `temp` the one at the temporary path of each
call, `body` the content of a file, `disk` what a power loss keeps; `call` the locals of each
call and of its owner; `valid` the calls whose authority stands; `queue` the promise queue of
each process, `lock` the lock of `verify-content-with-lock`. Options, processes and
the first destination are chosen in the initial state from `Setups`.

| Actions | Code |
|---|---|
| `Start`, `Begin`, `Lock` | `replaceFileAtomicWithDirectorySync`, `serializePathWrite`, `withAtomicRenameIdentityLock` |
| `Open`, `Identify`, `Fill`, `SyncTemp` | `writeTempFile` |
| `Check`, `Dispatch`, `Rename`, `RenameMissing`, `RenameRefused` | `AtomicTempOwner.assertCurrent`, `renameWithRetry` |
| `Verify`, `DirSync`, `VerifyAgain` | `assertPublished`, `syncDirectoryBestEffort` |
| `Source`, `Remove`, `Removing`, `Create`, `Admit`, `Copy`, `CopySync`, `CopyFails`, `Publish` | `readOwnedCopySource`, `copyFallbackReplace`, `captureAtomicDestination`, `writeAtomicDestination` |
| `Truncate`, `Restore`, `RestoreSync`, `RestoreFails` | `replacePinnedWithRestore` |
| `Finish`, `Unlink`, `CleanupFails` | `AtomicTempOwner.finish`, `cleanupOwnedPath` |
| `Exit` | `cleanupRegisteredTempPathsSync` |
| `Revoke`, `Intrude`, `Tidy`, `Crash`, `PowerLoss` | the caller, other programs, the host |

*Abstractions.* A content is one of: a call's, an older, a foreign, empty, partial. A
write truncates, gives the receipt and then writes in two parts; a restore, which goes through
the same `writeAtomicDestination`, does so in one. File
identities are used again as in `DurableQueue`. `Unstable` lets a rename give the file
another identity, the case `verify-content-with-lock` is for. The observer of receipts does
not throw; it would end the call as a refused authority does. Modes, the hardlink policy,
DrvFS recovery, `dirMode` and the synchronous variant (the same generator, without steps
of others in between) are left out. An exit ends all calls of the process, and a call of an
ended process takes no further effect.

### DocumentStore

*State*. `pc`, `ok`, `ctx` (the tokens of `activeStoreMutations`), `seen` for each call,
`queue` and `lock` for each path, `doc` the set of updates a document's value includes. The
program, that is who calls what from where and awaits it, is chosen in the initial state from
`Shapes`.

| Actions | Code |
|---|---|
| `Called`, `Admit`, `Begin` | `withSerializedMutation`, `serializePathWrite` |
| `Acquire`, `LockTimeout`, `LockFails`, `Release`, `ReleaseFails` | `withLock` of the sidecar lock, `prepareLock` |
| `Read`, `Updater`, `Throw`, `Write`, `BodyFails` | `write`, `update`, `updateOr` over the adapter of `file-store.ts` |
| `Crash` | a killed process |

*Abstractions.* The lock is `LockService`; a stale one is removed or not by `Recovery`. The
replacement of the file is one step, `AtomicReplace` has the rest. A call whose canonical
path cannot be resolved fails before it does anything and is left out, as are plain reads.
An updater awaits the calls it makes in any order, and ends after those it awaits.

### WatchScheduler

*State*. `world` and `cache` are the version of each name and the version the consumer read
when it was last told; `gen`, `waiter`, `call` the generation and all promises; `health` the
failure, the retirement failure and the close; `backend`, `listening`, `mode` the transport;
`flags`, `hints`, `timer`, `hintTimer` the pending requests; `pass` the locals of `pump` and
`observe`; `noted` and `served` record what happened, for the properties.

| Actions | Code (`watch.ts`) |
|---|---|
| `Hint`, `HintLost`, `HintError`, `HintTimerFires`, `TimerFires` | `onHint`, `scheduleInterval` |
| `Reconcile`, `SetScopes`, `RetireIdle`, `Restart`, `Close`, `Join` | `request`, `setScopes`, `close` |
| `Turn`, `Retire`, `AfterRetire`, `Admit`, `Notify`, `Probe`, `ProbeDone`, `Create`, `Read`, `FallBack`, `FellBack`, `ScanDone`, `Publish`, `Ready` | `observe`, `fallBack`, with `probeWatchSnapshot`, `scanWatch`, `admittedNativeChanges`, `guardedHintChanges` |
| `Stale`, `Fails`, `Done`, `Unwind`, `Clear`, `Settle` | `check` and `pump` |

*Abstractions.* A version stands for the fingerprint of an entry. What alias and identity
checks, merges of slices, reuse and handovers come to is nondeterministic: each may ask for
more than is needed, never for less. The age of the last full pass is nondeterministic. The
consumer reads what it is told when it is told. A pass of a retired generation stops at its
next check; the calls in between change nothing that counts. Hints for names outside the
scopes, and for changes the consumer has not read, are unlimited; a hint for what it has read or
with stale directories costs a move, like changes, calls, the fallback, failures and the end. Exclusion, budgets of entries, the
directory inventory that asks for a fresh backend (`watch.ts:352-357`), failures of the
backend's immediate `close()`, the worker endpoint and the native backends are left out.

### Entries, Publication, DirectorySwap, MovePath, TempWorkspace, Placement

*State*. `ent` is the object behind each name, `body` its data and whether it is complete, `op`
the locals of each call (identities recorded, what it created, fingerprint and data copied,
registration for exit, outcome), `up` whether a process runs, exits, or has ended. `setup`, the
calls and what the file system supports, is chosen in the initial state from `Setups`. `taken`
records the objects that lost a name in a way no check can prevent: to a foreign program, to the
replacing rename of a move, or to a removal by path in the gap after its check.

| Actions | Code |
|---|---|
| `OpenSource`, `CheckSource`, `LinkTarget`, `CreateCopy`, `AdmitCopy`, `FillCopy`, `RenameSource` | `publishFileExclusive`, `copyPinnedSource` |
| `CreateNative`, `NativeCopy`, `NativeUndo`, `NativeRemove`, `AdoptNative` | `copy_file_range_exclusive` and `remove_created_target_checked` (`native/src/unix.rs`), called by `copyPinnedSource` |
| `CheckSingle`, `LinkPair`, `CheckPair`, `UnlinkSource` | `publishRenameFallback` |
| `VerifyTarget`, `SyncParent`, `FinishPublication`, `CheckUndo`, `RemoveCreated` | `syncPublishedParent`, `removeCreatedTargetIfUnchanged` |
| `Admit`, `CheckBackup`, `RenameBackup`, `ObserveBackup`, `CheckPlace`, `RenamePlace`, `ObservePlace` | `replaceDirectoryAtomicUnserialized`, `renameRetainedDirectory` |
| `CheckClean`, `RemoveOriginal`, `CheckRollback`, `RenameRollback`, `ObserveRollback` | `removeOriginal`, `rollback` |
| `StartMove`, `RenameDirect`, `InspectSource`, `CreateStage`, `RecordStage`, `CopySource`, `RecheckSource` | `movePathWithCopyFallback`, `copyRegularFilePinned`, `record` |
| `SendCommit`, `CommitStage`, `NoteCommit`, `CheckRemoval`, `RemoveSource`, `CheckDrop`, `DropStage` | `guardedRename`, `cleanupCopiedEntry`, `cleanup` |
| `CreateWorkspace`, `AdmitWorkspace`, `StartCleanup`, `PrepareCleanup`, `HideWorkspace`, `ObserveHidden`, `EraseOwned`, `ConfirmHidden`, `ErasePath` | `createTempWorkspace`, `registerTempWorkspace`, `#prepare`, `#remove` |
| `Exit`, `ExitCheckStage`, `ExitRemoveStage`, `ExitWorkspace`, `EndExit` | `cleanupRegisteredTempPathsSync` and the registered handlers |
| `Intrude`, `Edit`, `Crash` | foreign programs, a killed process |

*Abstractions.* A move is of one regular file: directory trees and their alias groups, symbolic
links, modes and ACLs are left out. An object stands for a file or a directory, and its number
for its identity: descriptors held by the calls keep identities from being used again. Private
names are random, so nobody else creates one. A check and the operation by path that follows
are two steps; where the code does both in one synchronous turn, other calls of the same
process come in between in the model and not in the program, so the model allows more. An
operation that was sent to a worker thread takes effect while the exit handlers run, and its
caller hears nothing. One attempt of the addon stands for its two, a clone and a copy by range, and
the error it throws leads to the portable copy or to the caller, either way. An exit comes between
two turns. A failed removal of a tree leaves it
incomplete. Every check between the creation of a stage or workspace and its registration is one
step, which may fail. Power loss (syncs are only steps that may fail), Windows, `directoryGuard`,
leases and handoff, the empty-directory shortcut, and sibling staged files are left out.

### ArchivePublication

*State*. `mode` is the permissions of each directory or `Absent`, `cell` the call whose file is
at each name; `data` and `names` what a power loss could still take: contents, and names whose
directory was not synced since they changed. `run` holds the locals of each call (`path` is
`ancestors`, `files` and `dirs` are `publishedFiles` and `publishedDirectories`, `sync` the batch
under way), `clock` the deadline (`elapsed` before anybody looked, `aborted` after), `answer` what the
caller was told. The tree is fixed; who calls what with which final modes, and what is there
before, is chosen in the initial state from `Setups`.

| Actions | Code |
|---|---|
| `Call`, `Stage` | `extractArchive` up to the merge |
| `NextEntry`, `MakeDirectory`, `EnterDirectory`, `LeaveDirectory`, `EndWalk` | `walk` in `mergeTree`, `prepareOutputPath`, `pinNodeDirectoryForMode` |
| `StageCopy`, `PublishFile`, `KeepPublished`, `VerifyPublished` | `copyIn` with `runPinnedStagedWrite` and `onCopyPublication`, then the guards of `walk` |
| `StartBatch`, `OpenFile`, `SyncFile`, `LookAgain`, `EndBatch` | `finalizeArchivePublication`, files |
| `PinDirectory`, `ApplyMode`, `VerifyMode`, `SyncDirectory`, `EndDirectories`, `SyncRoot` | the same, directories; `ownDirectoryMode` |
| `EndExtraction`, `EndUnwind` | `withStagedArchivePublication`, `withStagedArchiveDestination` |
| `Elapse`, `Timer`, `Resolve`, `Reject`, `Join` | `createExtractionDeadline`, `waitForDeadline`, `withExtractionDeadline`; `Owned` is `ownDestinationMutation` |

*Abstractions.* Modes are the owner's three bits, and the caller is not root. Everything before
the walk is one step that may fail or never come. A file is staged and synced by its writer
before the rename in one step; a failed operation ends the call with an error. Guards find a
directory or file replaced only by what another call of the model did: foreign programs, links,
the bounds on entries and Windows are left out, as is the shortcut of a directory that already
has its mode. A system without a way to open a search-only directory (no `O_PATH`, no `O_SEARCH`) refuses
such modes from the start and is left out.

## Runs

| Run | Question | Instance | Distinct states |
|---|---|---|---|
| `queue_recovery` | Does one worker with any faults lose or resurrect an entry, do the files implement the abstract entry, and is the lock used properly? | 1 consumer, 1 producer, 3 inodes, 3 enqueues, 2 faults of failed sync, refused link, crash, power loss; together at most 4, and no power loss with 3 enqueues | 1,094,378 |
| `queue_shared` | Do two consumers keep claims and transitions apart, and what can strand a retirement? | 2 consumers, 1 producer, quarantine without a load allowed; 2 enqueues without faults, or 1 and one consumer at a time with 2 of failed sync, refused link, crash, power loss, and a third beside a power loss | 3,366,180 |
| `queue_progress` | Is every entry settled in the end? | `WorkerSpec`, 2 enqueues, 1 fault | 189,957 |
| `queue_stale_ack` | finding | 2 consumers, 2 enqueues | |
| `sidecar_reclaim` | Is recovery safe for owners, with and without failures? | 3 processes, 3 records, 2 failures, no hardlinks | 885,897 |
| `sidecar_manage` | Are references and admissions counted right through failures, resets and exits? | 2 tasks of one owner and a rival process, 3 records, fail-closed, 2 of failed operations, crash, reset, exit | 819,995 |
| `sidecar_recovery` | Is the lock of a killed owner recovered, and does draining keep the references right? | 2 tasks of one owner and a rival process, 2 records, 1 crash, drains | 41,101 |
| `document_store` | Is any update lost, does any call wait for itself, does every call settle? | 4 calls, 43 programs on 2 paths in 2 processes, 1 failure or crash | 423,036 |
| `atomic_replace` | What do readers, callers and other programs see of a replacement? | 2 calls, 11 setups, 5 identities, 2 of failures, revocations, foreign changes, crash, exit, power loss | 3,066,479 |
| `watch_scheduler` | Does every waiter settle, and does every change reach the consumer? | 2 names, 2 calls, 2 generations, 1 pending path, 3 moves | 1,132,543 |
| `placement` | What do publications, swaps, moves and cleanups of one directory do to each other's objects, and what do they leave behind? | 2 calls in 10 situations, 3 names, 2 processes, exits, 2 of failures, lost replies, crashes, foreign changes | 3,957,818 |
| `archive_publication` | Is an answer final, does success mean a whole and durable tree, do own modes harm, is a timeout answered? | 1 or 2 calls in 38 setups, 2 nested directories, 3 files, batches of 2, 1 failed operation, any deadline | 503,515 |

Each run is `tlc -config <run>.cfg <module>`, the module named after the component; none takes
more than about four minutes on two workers.

### Properties

* `NoEntryLost`: a generation whose enqueue succeeded is under some name, acknowledged,
  or was replaced while pending by a later enqueue.
* `SettledStaysGone`: after a successful ack or quarantine no name that loads use has
  the generation, now or after a power loss.
* `RetirementRecoverable`: no step takes the claim from a retirement record that holds an
  entry, without which every later load rejects. Two kinds of step do in the code and are excepted:
  a caller settles a claim that its load did not return (`ClosesUnloaded`), and a power loss brings
  back a record whose removal was not synced (`RecordReturns`). See the observations.
* `LoadedIsDurable`: what a load returns has a claim on disk.
* `EvidenceKept`: durable evidence is never replaced or removed.
* `AckIsGenerationBound`: an ack removes what its caller loaded. It holds for one
  consumer and fails for two, see the findings.
* `ClaimKeepsGeneration`, `TransferExclusion`: a claim keeps its generation, and one
  consumer at a time is in a transition.
* `KeepsPromise`, `UsesLock`, `KeepsService`: the refinements.
* `EventuallySettled`: a published entry is acknowledged, evidence, or replaced.
* `HeldOnDisk`: a registered lock not being released is the file on disk, so two
  processes never hold it together.
* `LiveRecordKept`: the file of a running owner goes only by a step of its process.
* `LastReferenceReleases`: removal by a handle waits for the last open handle.
* `AdmissionOwned`: an admission belongs to an attempt that is going to return it.
* `StaleRecovered`: the whole record of a killed process is removed as long as somebody
  keeps running into it.
* `ReplacesAtomically`: readers see whole contents only, each brought by an open call, except
  where the caller allowed the copy fallback.
* `RefusalIsTerminal`: after a refused authority or a destination that changed, the call
  changes nothing more, the restore included.
* `DamageReported`: a destination that is missing or incomplete is the one a receipt names, or the
  empty file of a call whose admission is pending, failed or was cut off, for which
  `docs/atomic.md:222` promises no receipt (`Unadmitted`).
* `PowerLossSafe`: what a synced call brought stays, and what a power loss leaves is whole.
* `TempOwned`: a temporary file that could not be removed stays registered; a file somebody
  else put there is kept.
* `NoLostUpdate`: an update that resolved is in the document until a plain write.
* `ReentrantRejected`: a call that would wait for itself is rejected, and no other.
* `EverySettles`: every call settles, with one exception, see the observations.
* `ReconcileComplete`: reconcile() resolves after a complete pass that began after the call.
* `HintKept`: no hint is forgotten.
* `NoLateReport`: nothing is reported of retired scopes, nor after a failure or the close.
* `EveryWaiterSettles`, `ChangeReported`: every promise settles, and every change of a selected
  name is reported, hinted or not.
* `LastNameKept`: no call takes the last name of an object that is not its own, except through
  the gaps recorded in `taken`. Publication by rename and the swap, which take a name away and
  give another, never lose what they carry.
* `SourceOutlivesCopy`: a copying move sends the unlink of its source only when a complete copy of
  what the source holds then was published.
* `TargetWhole`: an incomplete object is under a public name only while a copying publication
  runs, when its caller was told, or when the publication failed before it recognised what it had
  created (`Unrecognised`, see the observations).
* `Accounted`: a stage, a backup or a workspace that is left belongs to a running call, is
  registered for exit, was told to the caller, or met a failure of the exit handler. Excepted is
  what a crash leaves, and what a creation leaves that fails before the registration
  (`Unadmitted`): `docs/temp.md:164`, `docs/temp.md:258` and `docs/temp.md:307` leave such a child
  to the caller.
* `AnswerIsFinal`: once the caller has its answer, nothing of its call changes the destination.
* `OkMeansStored`: a call that resolved published its whole tree with its final modes, and what a
  durable one published survives a power loss, names on the way included.
* `OwnModesHarmless`: an extraction is denied only by what it found or by another call, never by
  the modes it sets itself.
* `TimeoutAnswered`: a call with a timeout is answered, also if its archive is never read.

### Why the bounds are enough

*Queue.* Two generations are what a retirement can confuse: the claimed one and the
one enqueued meanwhile; the third is the one enqueued while the
second is put back. Three inodes serve those, and a migration takes the fourth in `queue_shared`
and one that is free again in `queue_recovery`. Two faults allow a fault during the recovery from a
fault; three enqueues meet one fault, and no power loss (`Bounded`).
`KeepsPromise` asks nothing of the step of a power loss, which takes back enqueues that were never
durable and the abstract entry does not; the steps that follow are held to it. `queue_shared`
follows two enqueues and both consumers at work without faults, and with faults one enqueue and one
consumer at a time (`OneWithFaults`); a consumer that crashed leaves the lock to the other. Two
faults are a failure and a crash in its recovery; a third is allowed beside a power loss, since the
second exception of `RetirementRecoverable` needs it. The theorems `Exclusion` and `ClaimIsStable` cover any number of
consumers together with any faults.

*Sidecar.* Three processes are a dead owner and two reclaimers, or a reclaimer, its
rival and the new owner; three records the stale one, the one that replaces it and
the one a late removal would hit. Two failures allow a crash of the owner and of a
reclaimer.

*Replacement.* Two calls are a call and its rival, in one process or two; a third would wait
in the same queue. Two faults are a refused rename and what goes wrong in the fallback; in two
setups renames are refused without counting, so both are left for a copy and its restore. Five
identities serve destination, two temporary files, a recreated destination and a foreign file.

*Document store.* Four calls make two nested pairs, a chain of three with an independent one,
or four rivals; two paths are what a crossing needs. One fault ends any call at any point.

*Placement.* Two calls are a call and its rival; the ten situations pair the strategies that can
meet on a source or a target, on file systems with and without links, no-replace renames and one
device. Three names are two sources and a target. Two faults are a failure and one more in its
undo, rollback or cleanup, or a foreign change and the one that follows it.

*Archive.* Two nested directories with a file in each, and one beside them, give every order of
what is above and below; three files are a full batch and one that is left. Two calls are a call
and one whose modes shut it out. The setups are one durable call with a deadline over what it may
find and set, calls without deadline or durability, and the pairs: with a merge, where it has no
deadline, and with another extraction, where it has one. One fault is a failure during
a batch, a mode or a sync; what the call does after it is only to unwind.

*Watch.* Two names separate what is selected from what is not after the scopes are narrowed; one
pending path makes the second fold; three moves are a change during a pass with its hint and a
scope replacement, failure, fallback, call or close at any point of it.

Symmetry is used for inodes, consumers and records in safety runs and not in the
liveness runs. Every cfg says `CHECK_DEADLOCK FALSE`: enqueues, records and faults are
bounded and every process may end, so each behaviour of an instance stops.

### Fairness

*Worker* (`WorkerSpec`). Calls that have started go on: weak fairness of each consumer's
and producer's step. The worker calls again (weak fairness of `WorkerCall`), and
strong fairness says what a loop of calls amounts to: it uses `Load` again and again
and not only the batch call, its attempts at a lock that is free again and again
succeed, and its callback returns in the end instead of throwing or migrating each
time. An operator removes a stale lock. The run acknowledges only: after a crash
between quarantine's link and unlink the claim has two links, loads refuse it, and
progress is up to the caller repeating the quarantine.

*Recovery* (`FairSpec`). Started attempts go on; the caller's policies, asked again and
again, judge the record stale and approve its removal, and somebody who keeps coming
to a free guard takes it. Nothing is assumed about acquiring, so the property is
conditional: as long as attempts run into the record. A guard directory whose
reclaimer was killed stays and keeps every acquirer waiting before it inspects the
record, as `docs/sidecar-lock.md:600` says.

*Document store* (`FairSpec`). Calls go on (promises settle, the file system answers, a lock
attempt ends at its timeout), and an updater makes the calls that it awaits. Weak fairness is
enough: a queue position and a lock are waited for with a timeout or in a fixed order.

*Watch* (`FairSpec`). Weak fairness of the steps of a pass, of the two timers and of the end of
`close()`. Nothing is assumed about hints or callers: `ChangeReported` holds by the interval
timer alone, while hints for other names never end.

*Archive* (`FairSpec`). Operations on the destination end, and timers fire late but do. Nothing
is assumed of `Stage`: an archive on a hanging file system may never be read.

`Placement` has no liveness property: its calls wait for nothing but the file system and, for
swaps of one target in a process, for each other in a fixed order.

## Proofs

`DurableQueueProofs` (3099 obligations) proves in its first part, for every number of consumers,
producers, identities, enqueues and faults, with `QueueAssumption` as the only
assumption (bounds are naturals, the kinds of fault and call are those that exist,
consumers are no producers, and the values for no file, a directory and a stale lock
are none of the identities and consumers):

| Theorem | Statement | Argument |
|---|---|---|
| `TypeCorrect` | `Spec => []TypeOK` | inductive by itself; one lemma per group of actions |
| `Exclusion` | `Spec => []TransferExclusion` | with `TypeOK`: every step of a call stays under the lock (`UnderLock`), leaves the transition together with the lock (`Leaves`), or takes a free lock; crashes and power losses end the transition |
| `EvidenceIsKept` | `Spec => EvidenceKept` | strengthened by `EvidenceStands`: durable evidence is the current one, so a power loss cannot bring back an older name; only `FailLink` sets the name, from nothing |
| `ClaimIsStable` | `Spec => ClaimKeepsGeneration` | strengthened by `ClaimTargetFree`: from the check to the claim's link `.processing` is absent, which needs exclusion; a migration copies the generation it pinned |

The strengthenings are needed because the statements themselves are not inductive:
`EvidenceKept` speaks of the durable name, which a sync copies from the current one,
and nothing in `ClaimKeepsGeneration` excludes a link over an existing claim.

Its second part builds on these, for the same constants. Two more assumptions appear, each in
the theorems that are false without it: `PowerStaysOn` (no power loss; failed syncs, refused links and crashes of anybody
remain) and `OneWorker` (one consumer, which settles only what it loaded; producers remain
any number). The observations below give the behaviours that need them.

| Theorem | Statement | Argument |
|---|---|---|
| `QueueUsesLock` | `Spec => UsesLock` | from `TypeOK` and `UnderLock`: who is in a transition owns the lock, and leaves not after it |
| `TransferHolds` | `Spec => []TransferOK` | for each step of a transition the names, records and pins it may rely on, since the lock keeps other workers away and producers change `<id>.json` only |
| `EntriesNotLost` | `PowerStaysOn`: `Spec => []NoEntryLost` | strengthened by `EntriesKept`: the newest generation that nobody has read has a name; a record holds an older generation than `<id>.json` beside it; what was read is never pending again; a marker is of what was acknowledged |
| `QueueKeepsPromise` | `OneWorker`: `Spec => KeepsPromise` | `WorkerOK`: each step of load, ack and quarantine knows what the names still show of its generation; every system call is one step of `QueueEntry` or none |
| `LoadsAreDurable` | `OneWorker`: `Spec => LoadedIsDurable` | from `WorkerOK`: between the sync of the claim and the callback nobody else moves it |
| `AckIsBound` | `OneWorker`: `Spec => AckIsGenerationBound` | from `WorkerOK`: the claim is still the generation loaded (the run `queue_stale_ack` shows two workers break it) |
| `SettledEntriesStayGone` | both: `Spec => []SettledStaysGone` | `ClosingOK`: what is settled is under no name, visible or durable, and what is about to be settled is under those alone that the transition removes and syncs |
| `RetirementsAreRecoverable` | both: `Spec => []Recoverable /\ RetirementRecoverable` | from `ClosingOK`: while a record has an entry, its claim is there, in every state; the two exceptions of the property cannot happen |

`SidecarLockProofs` (2606 obligations) proves, for every number of processes, tasks,
records and faults, every assignment of tasks and reentrant owners, with and without
hardlinks and recovery. It assumes `LockAssumption` (tasks have a process, the bounds
and options are of their kinds, the values for no task and no record are none of
them) and, for the refinement, `OwnerAssumption` (the values of a lock without an owner
are no processes). `Undisturbed` says that neither `reset()` nor the exit handler runs:
`HeldOnDisk` is false with either, as the observations below show. Drain, failed operations and crashes are included.

| Theorem | Statement | Argument |
|---|---|---|
| `LockTypeCorrect` | `Spec => []TypeOK` | with `Local`: a handle and a creation always have a record |
| `HeldStaysOnDisk` | `Undisturbed`: `Spec => []HeldOnDisk` | with `Steady` below |
| `OneGuard` | `Undisturbed`: `Spec => []GuardExclusive` | strengthened to `GuardOwned`, which also covers the attempt between mkdir and its await |
| `LiveRecordStays` | `Undisturbed`: `Spec => LiveRecordKept` | `FileSteps`: the four ways in which the lock path changes hands |
| `IncompleteStays` | `Undisturbed`: `Spec => IncompleteKept` | with `WholeOK`: what is judged, registered or about to be is whole |
| `LockImplementsService` | `Undisturbed`: `Spec => KeepsService` | `OwnerInside` (who is inside owns the lock) and `OwnerSteps`, from `FileSteps` |
| `EntryIsNotReplaced` | `Spec => EntryNotReplaced` | the check of token and entry before the registration |

The inductive invariant `Steady` joins four parts. `Local` says of each task and
manager what its own steps establish, and survives reset and exit: the record of a
creation is the task's own, judged records have a maker, the guarded section has its
variable set, a held record was made by the manager's process. `GuardOwned` is the
mutual exclusion of the reclaim guard. `LockOK` relates tasks, managers and disk: an
entry has one releaser, and what it is about to remove is its file (`ReleaserOK`); a file
that is not yet registered is the one at the lock path and in no manager (`MakerOK`); a
record that passed approval has an ended maker, and before its removal it is the file
(`JudgeOK`). `HeldOnDisk` alone is not inductive, because the three removals (`UndoRemove`,
`Remove`, `ReleaseRemove`) take whatever is at the path: each is safe only as its
comparison, an operation earlier, still holds. For `UndoRemove` and `ReleaseRemove`
the maker runs, so no reclaim can have approved it; for `Remove` nobody running
relies on the file, and the guard excludes a second reclaimer.

`OneGuard`, `IncompleteStays` and `EntryIsNotReplaced` state properties that no run checks: the
first is what the argument for `HeldOnDisk` rests on, the others say of partly written files and
of registrations what no other property covers.

`SidecarAdmissionProofs` (1195 obligations) adds `AdmissionNotLeaked`, `Spec => []AdmissionOwned`, with nothing
assumed of reset, exit, drain, failures or crashes. The statement alone is not inductive: a
step into the guard's cleanup on the way to a handle keeps its pc among the admitted ones and
has given the admission back. `TokenOK` excludes that, by where a cleanup goes when it is done,
and `HomeOK` says that a manager admits tasks of its own process, so that a crash takes
admission and attempt together. `LastHandleReleases`, `Spec => []LastReferenceReleases`,
assumes only that drains do not fail (`DrainsSucceed`), which the observation "A failed drain"
needs. By `RefsOK` the reference count of a manager is at least the number of its tasks that have
an open handle of the registered record or are about to return one, except while a forced
release is under way, and a handle that removes the file is the only one of its record.

`DocumentStoreProofs` (1167 obligations) assumes `StoreAssumption`: the calls are finitely many,
the programs of the instance are programs,
a nested call is made by an update of the same process, and the values for no call and for
free and stale locks are no calls. It proves for every number of calls, processes and documents:

| Theorem | Statement | Argument |
|---|---|---|
| `OneInside` | two calls of one document are never both between their read and the release | a running call heads its queue (`QueueOK`), and between processes it owns the lock (`LockOK`) |
| `NoUpdateIsLost` | `Spec => []NoLostUpdate` | strengthened by `DocOK`: from its read to its write an update's view is the document, which nobody else may write because of `OneInside`; `DoneOK`: a call that resolves has written |
| `ReentrantCallsAreRejected` | `Spec => ReentrantRejected` | `Nested`: whatever a call would wait for is in the asynchronous context it was made in, for as long as it runs, and contexts hold only calls around their own, at any depth |

`Around`, the calls outwards from a call, is a recursive function, and its two properties (no
set that is closed under "was made by an updater of" and holds the call leaves any of them out, and
they are closed themselves) need induction. The library's induction theorems cannot be
used here, since they take an operator; `SetOfNumbers` states induction for a set of
numbers instead, and follows from the well-founded order of finite sets.
That they are closed is a counting argument: each step outwards that is not the last adds a call,
and there are as many steps as calls.

`WatchSchedulerProofs` (1784 obligations) assumes `WatchAssumption` (names and
generations are finitely many, each generation has a scope of names, the bounds are
naturals) and proves for every number of names, calls, generations and moves:

| Theorem | Statement | Argument |
|---|---|---|
| `ReconcileResolves` | `Spec => []ReconcileComplete` | `CallsOK`: a call that waits has a full pass asked for, or is covered by one that began after it and has not failed or been overtaken |
| `HintsAreKept` | `Spec => []HintKept` | `HintsOK`: a hint the consumer has not read is pending with a turn of the pump to come, or in the pass under way, through coalescing, folding, errors and scope changes; `OrderOK` and `ScanOK`: what a scan saw is no newer than the file system and no older than what was reported, and what it takes over from the last one is as that observed it |
| `ReportsAreCurrent` | `Spec => NoLateReport` | the one step that reports checks generation, failure and close |

`AtomicReplaceProofs` (2668 obligations) assumes `ReplaceAssumption` (options and faults are of
their kinds, there is a file, and the values for no file, free and stale locks and for contents
that are no call's are no calls or files) and proves for every number of calls, processes
and files, every choice of options, and every kind and number of faults:

| Theorem | Statement | Argument |
|---|---|---|
| `ReplaceTyped` | `Spec => []Typed` | inductive by itself |
| `RefusalHolds` | `Spec => RefusalIsTerminal` | `Controlled`: a refused call is in its cleanup, which changes neither destination nor contents |
| `ReplaceRefines` | `Spec => ReplacesAtomically` | `Apart`: while a call prepares its temporary file, nobody else has it open, and it is neither the destination nor what a power loss may bring back as such; `Stored`: what is at the temporary path before the rename is the call's whole content or somebody else's; only calls with the fallback copy (`Route`) |
| `TempFilesOwned` | `Spec => TempOwned` | `Tracked`: from the moment its identity is known, the path of a live process is registered with it until the file is gone or was renamed; removals compare identities |
| `DamageIsReported` | `Spec => []DamageReported` | `Damage`: a destination that is not whole is named by the receipt of a call that is still writing it, restoring it or ending, or is an empty file not yet admitted; a receipt is given before the first byte (`ToldOK`) |
| `PowerLossIsSafe` | `Spec => []PowerLossSafe` | `WholeOnDisk` and `Lasting`: the way to success of a call, stage by stage, with what is then on disk: the file, then its entry |

`ReplacesAtomically` is not inductive because the rename brings whatever is at the
temporary path: that this is the content of the call rests on where every other descriptor
and name may point meanwhile. The proof of `DamageIsReported` failed at first for a good
reason: the model gave no receipt for a restore, where the code does
(`replace-file-buffer.ts:11`), so a copy that another call's restore cut short had no receipt.
The model follows the code now.

`ArchivePublicationProofs` (3190 obligations) assumes `ArchiveAssumption`: the directories are finitely
many and a tree (every set of them has one whose parent is outside), no directory is a file, the
values for no directory and no call are none, permissions differ from the value for an absent
directory, a merge has neither a deadline nor durability, and the batch holds at least one file. It
proves for every number of calls, every tree, every choice of permissions found and set, and
every number of faults:

| Theorem | Statement | Argument |
|---|---|---|
| `PublicationSound` | `Spec => []Inv` | the invariant below |
| `AnswersAreFinal` | `Spec => AnswerIsFinal` | `Answered`: after its answer, a call has no operation under way that it does not join, and only closes what it holds |
| `SuccessIsStored` | `Spec => []OkMeansStored` | from `Inv` at the end of a call: everything was published, every mode applied, nothing is left to sync |
| `NotLockedOut` | `Spec => []OwnModesHarmless` | from `Inv` where a call is denied: the directory that lacks the permission is still open by its own doing |

None of the three is inductive: each speaks of the end of a call and follows from what is
done by then. `Inv` says it for every step on the way. `Walked`: what is published is closed
under "lies in", and nothing above the entry in hand is finished. `Deepest`: the directories without
their final mode contain all that lie above one of them, so the next one can be reached through
directories that the call has not closed itself. `Foreign`: where a call did
not apply its mode, the mode is the one found or another call's. `Pending` and `NamesKept`:
a file or name that is not on stable storage is one that its call still has to sync, or is about to
remember for that. Each
step is treated in two halves, what happens to the destination (which no other call's invariant
may mind) and where the call goes next.

The directories above an entry are a recursive function. That it is defined for all of them follows
from the assumption on trees, applied to the set of directories where it might not be; the
same argument takes the place of an induction for each lemma about them.

`PlacementProofs` (6589 obligations) assumes `EntriesAssumption`: names and calls are finitely
many and no call is a name, options and faults are of their kinds, calls for directories and calls
for files have names of their own, a directory has one name, and the random name of a workspace
is that of no other call. It proves for every number of calls, processes and names, every
situation (who calls what on which entries, on what file system) and every kind and number of
faults:

| Theorem | Statement | Argument |
|---|---|---|
| `PlacementInvariant` | `Spec => []Inv` | inductive by itself: `Typed`; `Sole` (a directory, and what a call keeps at its private name, has no second name); `CallOK`, what each step of each kind of call knows of its private name, the identities it recorded and its registration |
| `NothingForgotten` | `Spec => []Accounted` | from `Inv`: an entry at a private name is registered until a removal took it or the caller was told; before that the call runs or failed in its admission |
| `TargetsAreWhole` | `SourcesApart`: `Spec => []TargetWhole` | `CopiesOK`: what a call is about to put under a name is whole (`WholeOK`), nobody else's source or directory is what a call created (`MadeOK`), and a copy is half only before it was recognised, while it is filled or undone |
| `SourcesOutliveCopies` | `SourcesApart`: `Spec => SourceOutlivesCopy` | `CopyOK`: what was read is between what the fingerprint had and what the source has, as contents only grow newer, so an equal fingerprint at the end means that all was read |
| `LastNamesAreKept` | `SourcesApart`: `Spec => LastNameKept` | `SourcesOK`: two sources never become names of one object, and as long as a source is where a publication found it, so is the link it made (`HeldOK`) |

`LastNameKept` is not inductive: the unlink that ends a rename by link and unlink takes a name by
path, and is safe only because the link made several steps earlier still stands. A rival that
removes that link in its undo must have created it itself; a move that replaces the target, and a
removal in a gap, are in `taken`. The steps of the environment are treated once, by what they may do to names
and contents (`Outside`), and those of a call once by what they leave of the others' (`OthersKept`).

`SourcesApart` says that no call for a file reads what another publishes or moves away, and that two
sources are not links of one file at the start; two calls for one source name are included. All
situations of the run `placement` satisfy it. `TargetsAreWhole` is false without it, see the
observations. The proofs of the other two use it, and whether they hold without was not settled:
with one fault, TLC finds no violation in 1200 situations of two publications and moves, most of
which have a target that is a source, or sources that are links of each other.

Only model-checked: beyond the assumptions named above, the properties
of the queue: power losses (`queue_recovery`, at its bounds), and `RetirementRecoverable` with two
workers, quarantines without a load and power losses (`queue_shared`). Liveness
(`EventuallySettled`, `StaleRecovered`, `EverySettles`, `EveryWaiterSettles`, `ChangeReported`,
`TimeoutAnswered`) is beyond the prover and stays with TLC. Type invariants are stated where they
are proved (`TypeOK` of queue and lock, `Types` of the document store); the other modules give
the types of their variables in comments. `Typed` of `AtomicReplace`, `TypeOK` of
`WatchScheduler`, `Typed` of `Placement` and the types in `Inv` of `ArchivePublication` are
stated with the proofs.

## Findings and observations

One run ends in a violation of something the documentation says; `PROJECT.json` quotes both
sides. `queue_stale_ack`: acknowledgement compares no generation. Two consumers may load one
claim (`docs/queue-link-free-design.md:24`); after the first acknowledges it and the next entry
is claimed, the second removes an entry it never loaded.

More can be reproduced by changing the constants of a run:

* *Quarantine without recovery.* `RetirementRecoverable` without `ClosesUnloaded`, with one `sync`
  fault and `Calls <- AnyCall`: quarantine takes an existing `.processing` without the recovery a
  load begins with (`json-durable-queue-ownership.ts:292`). After a load that failed inside a
  retirement it leaves a record with an entry and no claim, which every later load rejects
  (`json-durable-queue-ownership.ts:388`). `docs/store.md:75` says to retry the same operation to
  complete its state; a repeated quarantine finds its evidence and skips the record again.
* *Exit during a guarded section.* `HeldOnDisk` with `Ops = {"exit"}`, `Home <- Apart`,
  `Recovery = "remove-if-unchanged"`: the guard's path leaves the exit cleanup's set only after
  the await of `rmdir` (`sidecar-lock-reclaim.ts:389`). An exit in between removes the guard
  another process made, and two reclaimers meet.
* *reset() during a release.* `HeldOnDisk` with `Ops = {"reset"}`, fail-closed, two
  processes: `reset()` (`sidecar-lock.ts:136-150`) does not join a pending release, and the
  removal that release has under way (`sidecar-lock-reclaim.ts:310`) deletes the lock file of
  the next owner.
* *Quarantine leaves the pending name.* The claim's sync fails after its link
  (`json-durable-queue-ownership.ts:149`), and a quarantine without a load moves `.processing`
  while `<id>.json` is still the same file, so evidence is also pending.
* *A removed record returns.* `RetirementRecoverable` without `RecordReturns`, with three faults of
  `{"sync", "power"}` and `Calls <- Settling`: a record that is not visible is taken as
  recovered without a sync (`json-durable-queue-ownership.ts:375`), and a power loss
  brings it back after its claim was settled.
  The same return needs no bound on the number of generations: with four faults and two
  generations it brings back the settled entry itself, and `SettledStaysGone` fails.
* *A record that outlives a newer entry.* `NoEntryLost` with one worker, three enqueues and four
  faults of all kinds: a failed sync of an acknowledgement leaves its `.delivered`, and a later
  claim fails at the sync of its record, which has the newer entry by then. The sweep of the
  next load (`completeDeliveredQueueEntry`) syncs the directory of the queue first and the
  record's never, so a power loss can keep the removal from the one and lose the addition to
  the other. It takes a file system that persists each directory by itself.
* *A claim that is not yet durable.* `LoadedIsDurable` with two consumers that only
  acknowledge, without faults and with three enqueues: after its transition a worker opens `.processing` by
  name, and by then the name may be the claim of a later entry, linked by the other worker and
  not yet synced. A power loss leaves that entry pending, and it is delivered again, which
  `docs/store.md:77` allows.
* *A settlement that is late.* `KeepsPromise` and `SettledStaysGone` with two consumers and one
  failed sync, or with one that quarantines what it did not load: the settlement applies to
  a generation its caller never had, as in the finding `queue_stale_ack`.
* *reset() during a guarded section.* `GuardExclusive` with `Ops = {"reset"}`,
  `Home <- Apart`, `Recovery = "remove-if-unchanged"`: `sidecar-lock.ts:153` removes the
  guard directory of an attempt that goes on. The documentation promises to preserve
  only a pending guard below a Root (`docs/sidecar-lock.md:63-64`).
* *A failed drain.* `LastReferenceReleases` with one process, three tasks of one owner,
  `Ops = {"error", "drain"}` and one fault: after a forced release that failed, the
  reference count is zero and the entry is still registered, so the next reentrant
  handle releases it under the others (`sidecar-lock.ts:227`).
* *Crossed updates.* `EverySettles` without its condition `~Crossed`: an updater of one
  document that awaits an update of another, and the reverse in the same process, wait for
  each other for ever; the promise queue has no timeout (`write-queue.ts:5`) and the token
  check only knows paths of the own context (`json-document-store.ts:98`).
* *A recycled identity.* `ForeignKept` without `Current(c)`, with three faults:
  `writeTempFile` closes its descriptor when it fails
  (`replace-file-descriptor.ts:166-168`), before `finish()` compares the identity, and so
  does a call whose cleanup failed before the cleanup at exit. A foreign file that was
  given the same identity meanwhile is removed. `docs/atomic.md` says a substitute observed
  at the temporary name is preserved.

The model of `Placement` allows these; its properties except them by name, and `SourcesApart`
excludes the fourth:

* A plain rename of one name of a file over another name of it is no operation (rename(2)) and
  is reported as a successful move: the source stays (`move-path.ts:401`).
* The undo of a publication compares the target and then removes by path
  (`publish-file.ts:243`). What another program or call put there in between is removed, and
  if that was the target of a rename by link and unlink, the unlink that follows removes the last
  name (`taken`).
* A swap whose target was substituted between its check and its rename finds the foreign
  directory under the backup name and leaves it there, with the path in its error.
* *Half a file that is moved on.* `TargetWhole` with a copying publication of `a` to `t` and a direct
  move of `t` to `b`: the move takes the half copy away, and the publication, which then fails,
  finds its target missing and reports it as removed (`publish-file.ts:248`).
* *A target that was not recognised.* `TargetWhole` with `Unrecognised` only for calls that run, and
  one fault: an `fstat` that fails right after the creation (`publish-file.ts:161`, `publish-file.ts:203`) leaves an empty
  or whole target, and, as `targetCreated` is still false, the error is thrown as it came
  (`publish-file.ts:452`). With two, on Linux with the addon: the copy by range fails, and so does the
  addon's removal of what it created, whose error is discarded (`native/src/unix.rs:1447`): half a
  file stays under the target, and nothing in the error says that it is there.
  `docs/durability.md:391` says that a publication that fails after creating the target throws a
  `details` receipt.
* *A stage or workspace that was not admitted.* `Accounted` without `Unadmitted` and one fault: a
  failed check between the creation and the registration leaves the directory, and the
  error does not name it (`private-temp-workspace.ts:243-261`, `temp-workspace-owner.ts:198-211`); the
  documentation leaves it to the caller. So does a failed `fstat` after the creation of the stage of a
  copying move (`move-path.ts:220`).
* An exit during a pending cleanup of a workspace leaves the quarantine, and an exit between the
  creation of a stage or workspace and its registration leaves that (`Unreached`).

An enqueue whose verification races a claim rejects although its entry was accepted;
`docs/store.md:77` disclaims exactly-once delivery, so this is no finding.

## What is not modelled

Of the queue: directory admission and creation, id validation, JSON parsing, removal of
temporary files by age, the Windows pin. Of the sidecar lock: Root-backed locks (native
retained sidecars, token files in guards, `retainOnExit`), compromise monitoring,
transient Windows denials, nested acquires of one asynchronous context, parser
callbacks, staging files, retry arithmetic, and two copies of the package in one
process. Of archives: containers, their limits, and everything before the staged tree is
published. Of the other modelled components: what their
abstractions above name. The other components of the table above are planned or, where the table lists no hard
behaviour, are queries and formatting without a protocol of their own. The repository's
scripts, tests and site build are tooling and no part of the library.

## Plan

In order of importance:

1. `NoEntryLost` with power losses, for file systems that persist a rename as one change.
2. `SyncLock` and Root-backed sidecars over the same disk as `SidecarLock`.
3. Staged files and producer handoff over `Entries`; moves of trees with alias groups.
4. `TarMeter` and the path and byte-budget algorithms as operators checked against
   reference definitions.

Properties of these share instances with existing runs or take the place of shallower ones.
