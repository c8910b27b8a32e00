---------------------------- MODULE DurableQueue ----------------------------
(***************************************************************************)
(* One entry id of the JSON durable queue (json-durable-queue*.ts):        *)
(* producers replace <id>.json atomically and take no lock; consumers move *)
(* an entry through hardlinks and renames under the transfer lock.         *)
(*                                                                         *)
(* A file identity (dev/ino) is a member of Inodes, free again once no     *)
(* name and no open descriptor refers to it.  The payload of an inode is   *)
(* the generation (enqueue number) it holds.  Each system call is a step,  *)
(* so producers, other consumers and crashes come between any two of them. *)
(***************************************************************************)
EXTENDS Naturals

CONSTANTS
  Consumers,           \* callers of load, ack and moveToFailed
  Producers,           \* callers of writeJsonDurableQueueEntry
  Inodes,              \* file identities the file system hands out
  MaxGen,              \* bound: enqueues in a behaviour
  MaxFaults,           \* bound: faults in a behaviour
  FaultKinds,          \* the kinds of fault that may happen
  Calls,               \* how consumers close an entry: "ack", "fail", and
                       \* "failUnloaded" for a quarantine without a load
  None,                \* an absent name, an absent descriptor, a free lock
  Directory,           \* what the name of a retirement record refers to
  Stale                \* the transfer lock of a consumer that crashed

Gens  == 1..MaxGen
Procs == Consumers \cup Producers

ASSUME QueueAssumption ==
  /\ MaxGen \in Nat \ {0}
  /\ MaxFaults \in Nat
  /\ FaultKinds \subseteq {"sync", "link", "crash", "power"}
  /\ Calls \subseteq {"ack", "fail", "failUnloaded"}
  /\ Consumers \cap Producers = {}
  /\ None \notin Inodes \cup Consumers \cup {Directory, Stale}
  /\ Directory \notin Inodes
  /\ Stale \notin Consumers

\* The names the protocol uses, by the directory whose fsync persists them.
QueueNames  == {"json", "processing", "delivered"}
RecordNames == {"entry"}           \* .fs-safe-retirements/<id>.json/entry
RootNames   == {"record", "entry"} \* a record comes and goes with its content
FailedNames == {"failed"}          \* <failedDir>/<id>.json
FileNames   == QueueNames \cup RecordNames \cup FailedNames
Names       == FileNames \cup RootNames

VARIABLES
  fs,        \* what each name refers to now
  disk,      \* what each name refers to after a power loss, if all else is lost
  content,   \* the generation held by an inode
  pin,       \* the inode a process keeps a descriptor open on
  lock,      \* the owner of the transfer lock
  pc,        \* the next system call of a process
  op,        \* the operation a consumer runs
  ret,       \* where recoverDurableQueueRetirement returns to
  got,       \* the generation a consumer's last load returned, or 0
  verdict,   \* whether it acknowledges or quarantines that generation
  nextGen,   \* the next generation to enqueue
  faults,    \* faults so far
  boots,     \* power losses so far
  published, \* history: generations renamed to <id>.json
  enqueued,  \* history: generations whose enqueue returned success
  loaded,    \* history: generations a load returned
  acked,     \* history: generations renamed to <id>.delivered
  settled    \* history: generations whose ack or quarantine returned success

files   == <<fs, disk, content>>
locals  == <<op, ret, got, verdict>>
budget  == <<nextGen, faults, boots>>
history == <<published, enqueued, loaded, acked, settled>>
vars    == <<files, pin, lock, pc, locals, budget, history>>

-----------------------------------------------------------------------------
(* The file system.                                                        *)

Links(i)  == {n \in FileNames : fs[n] = i}         \* nlink is its size
Owned(n)  == Links(fs[n]) = {n}                    \* a regular file, nlink 1
Holds(i)  == IF i = None THEN 0 ELSE content[i]    \* the generation in a file
Gen(n)    == Holds(fs[n])
DiskGen(n) == Holds(disk[n])
Free(i)   == \A n \in FileNames : fs[n] # i /\ disk[n] # i
Unused    == {i \in Inodes : Free(i) /\ \A p \in Procs : pin[p] # i}

Sync(D) == disk' = [n \in Names |-> IF n \in D THEN fs[n] ELSE disk[n]]

\* A power loss keeps or loses every change no fsync covered, name by name,
\* but a rename never loses the file it moves, and a record's entry needs the
\* record.
Kept(K) == [n \in Names |-> IF n \in K THEN fs[n] ELSE disk[n]]

CrashImages ==
  {f \in {Kept(K) : K \in SUBSET {n \in Names : fs[n] # disk[n]}} :
     /\ f["entry"] # None => f["record"] # None
     /\ \A i \in Inodes :
          (\E n \in FileNames : fs[n] = i) /\ (\E n \in FileNames : disk[n] = i)
            => \E n \in FileNames : f[n] = i}

-----------------------------------------------------------------------------
(* Initial state: an empty queue whose directories exist.                  *)

Init ==
  /\ fs = [n \in Names |-> None]
  /\ disk = [n \in Names |-> None]
  /\ content = [i \in Inodes |-> 0]
  /\ pin = [p \in Procs |-> None]
  /\ lock = None
  /\ pc = [p \in Procs |-> "idle"]
  /\ op = [c \in Consumers |-> "none"]
  /\ ret = [c \in Consumers |-> "claim"]
  /\ got = [c \in Consumers |-> 0]
  /\ verdict = [c \in Consumers |-> "none"]
  /\ nextGen = 1
  /\ faults = 0
  /\ boots = 0
  /\ published = {}
  /\ enqueued = {}
  /\ loaded = {}
  /\ acked = {}
  /\ settled = {}

-----------------------------------------------------------------------------
(* Control of one operation.                                               *)

Goto(p, l)    == pc' = [pc EXCEPT ![p] = l]
At(p, l)      == pc[p] = l
Unpin(p)      == pin' = [pin EXCEPT ![p] = None]

\* Fault seeded for TransferExclusion: whoever owns the lock, it is released.
UnlockAny(c) == lock' = None

Unlock(c) == lock' = IF lock = c THEN None ELSE lock

\* The operation of c ends, by returning or by throwing: withSidecarLock
\* releases the lock and the reader closes its descriptor.
Finish(c) ==
  /\ Goto(c, "idle")
  /\ op' = [op EXCEPT ![c] = "none"]
  /\ Unpin(c)
  /\ Unlock(c)
  /\ UNCHANGED <<ret, got, verdict>>

Throw(c) == Finish(c) /\ UNCHANGED <<files, budget, history>>

Fault(kind) ==
  /\ kind \in FaultKinds
  /\ faults < MaxFaults
  /\ faults' = faults + 1

SyncSteps ==
  {"resync", "unlinkSync", "recordSync", "claimSync", "linkSync", "ensureRoot",
   "newRecord", "takenSync", "retiredSync", "migrateSync", "markerSync", "ackSync",
   "ackedSync", "ensureFailed", "evidenceSync", "repairSync", "failedSync", "movedSync",
   "sweptSync"}

\* Every syncDirectory of the consumers: the directory it persists and the
\* step after it.
Synced(l) ==
  CASE l \in {"recordSync", "newRecord"}    -> RootNames
    [] l \in {"unlinkSync", "takenSync"}    -> RecordNames
    [] l \in {"ensureFailed", "evidenceSync", "failedSync"} -> FailedNames
    [] OTHER                                -> QueueNames

Returned(c) ==
  CASE ret[c] = "claim"  -> "claim"
    [] ret[c] = "retire" -> "ensureRoot"
    [] OTHER             -> "claimed"

AfterSync(c) ==
  CASE At(c, "resync")       -> "unlinkEntry"
    [] At(c, "unlinkSync")   -> "rmdirRecord"
    [] At(c, "recordSync")   -> Returned(c)
    [] At(c, "claimSync")    -> "claimed"
    [] At(c, "linkSync")     -> "retire"
    [] At(c, "ensureRoot")   -> "mkdirRecord"
    [] At(c, "newRecord")    -> "takePending"
    [] At(c, "takenSync")    -> "retiredSync"
    [] At(c, "retiredSync")  -> "recover"
    [] At(c, "migrateSync")  -> "migrated"
    [] At(c, "markerSync")   -> "ackVerify"
    [] At(c, "ackSync")      -> "ackUnlink"
    [] At(c, "ackedSync")    -> "ackDone"
    [] At(c, "ensureFailed") -> "lock"
    [] At(c, "evidenceSync") -> "repairSync"
    [] At(c, "repairSync")   -> "failVerify"
    [] At(c, "failedSync")   -> "failUnlink"
    [] At(c, "movedSync")    -> "failDone"
    [] OTHER                 -> "sweepDone"

SyncStep(c) ==
  /\ pc[c] \in SyncSteps
  /\ Sync(Synced(pc[c]))
  /\ Goto(c, AfterSync(c))
  /\ UNCHANGED <<fs, content, pin, lock, locals, budget, history>>

SyncFails(c) ==
  /\ pc[c] \in SyncSteps
  /\ Fault("sync")
  /\ Finish(c)
  /\ UNCHANGED <<files, nextGen, boots, history>>

\* Refused hardlinks reject as helper-unavailable.
LinkRefused(c) ==
  /\ pc[c] \in {"relink", "link", "failLink"}
  /\ Fault("link")
  /\ Finish(c)
  /\ UNCHANGED <<files, nextGen, boots, history>>

\* The next step of c, when it changes nothing but the program counter.
Step(c, l) == Goto(c, l) /\ UNCHANGED <<files, pin, lock, locals, budget, history>>

\* A change of one name, with the step that follows it.
Change(c, f, l) ==
  /\ fs' = f
  /\ Goto(c, l)
  /\ UNCHANGED <<disk, content, pin, lock, op, got, verdict, budget>>

-----------------------------------------------------------------------------
(* Enqueue: writeQueueEntry, through replaceFileAtomicWithDirectorySync.   *)

\* The temp file is private until it is renamed over <id>.json; its writer
\* keeps it open.
Publish(p) ==
  /\ At(p, "idle")
  /\ nextGen <= MaxGen
  /\ \E i \in Unused :
       /\ fs' = [fs EXCEPT !["json"] = i]
       /\ content' = [content EXCEPT ![i] = nextGen]
       /\ pin' = [pin EXCEPT ![p] = i]
  /\ nextGen' = nextGen + 1
  /\ published' = published \cup {nextGen}
  /\ Goto(p, "assertPublished")
  /\ UNCHANGED <<disk, lock, locals, faults, boots, enqueued, loaded, acked, settled>>

EndWrite(p) ==
  /\ Unpin(p)
  /\ Goto(p, "idle")
  /\ UNCHANGED <<files, lock, locals, nextGen, boots, published, loaded, acked, settled>>

\* assertPublished, before and after the directory sync: the write rejects,
\* with the entry left in place, once a claim or a newer write took the name.
AssertPublished(p) ==
  /\ pc[p] \in {"assertPublished", "assertSynced"}
  /\ Links(pin[p]) = {"json"}
  /\ IF At(p, "assertPublished")
       THEN Step(p, "syncParent")
       ELSE EndWrite(p) /\ enqueued' = enqueued \cup {Holds(pin[p])} /\ UNCHANGED faults

WriteRejected(p) ==
  /\ pc[p] \in {"assertPublished", "assertSynced"}
  /\ Links(pin[p]) # {"json"}
  /\ EndWrite(p)
  /\ UNCHANGED <<enqueued, faults>>

SyncParent(p) ==
  /\ At(p, "syncParent")
  /\ Sync(QueueNames)
  /\ Goto(p, "assertSynced")
  /\ UNCHANGED <<fs, content, pin, lock, locals, budget, history>>

SyncParentFails(p) ==
  /\ At(p, "syncParent")
  /\ Fault("sync")
  /\ EndWrite(p)
  /\ UNCHANGED enqueued

-----------------------------------------------------------------------------
(* Calls of a consumer.  It acknowledges only what its last load returned, *)
(* and retries the operation it chose until that succeeds or it loads again. *)

\* A quarantine first creates and syncs the failed directory.
Call(c, o) ==
  /\ At(c, "idle")
  /\ op' = [op EXCEPT ![c] = o]
  /\ Goto(c, IF o = "fail" THEN "ensureFailed" ELSE "lock")
  /\ UNCHANGED <<files, pin, lock, ret, budget, history>>

Decide(c, g, v) ==
  /\ got' = [got EXCEPT ![c] = g]
  /\ verdict' = [verdict EXCEPT ![c] = v]

Load(c) == Call(c, "load") /\ Decide(c, 0, "none")

\* loadPendingJsonDurableQueueEntries, for this id: the readdir decides
\* whether a delivered marker is completed and whether a claim is tried.
LoadPending(c) ==
  /\ \/ fs["delivered"] # None /\ fs["json"] = None /\ fs["processing"] = None
        /\ Call(c, "sweep")
     \/ fs["delivered"] # None /\ (fs["json"] # None \/ fs["processing"] # None)
        /\ Call(c, "sweepThenClaim")
     \/ fs["delivered"] = None /\ (fs["json"] # None \/ fs["processing"] # None)
        /\ Call(c, "batch")
  /\ Decide(c, 0, "none")

Ack(c) ==
  /\ "ack" \in Calls /\ got[c] # 0 /\ verdict[c] # "fail"
  /\ Call(c, "ack")
  /\ Decide(c, got[c], "ack")

MoveToFailed(c) ==
  /\ \/ "fail" \in Calls /\ got[c] # 0 /\ verdict[c] # "ack"
     \/ "failUnloaded" \in Calls
  /\ Call(c, "fail")
  /\ Decide(c, got[c], "fail")

\* Fault seeded for RetirementRecoverable: recovery is not part of a load.
FirstStepUnrecovered(c) ==
  IF At(c, "migrateLock") THEN "migrateAssert"
  ELSE CASE op[c] = "ack"  -> "ack"
         [] op[c] = "fail" -> "fail"
         [] op[c] \in {"sweep", "sweepThenClaim"} -> "sweep"
         [] OTHER -> "claim"

\* The first step under the lock.
FirstStep(c) ==
  IF At(c, "migrateLock") THEN "migrateAssert"
  ELSE CASE op[c] = "ack"  -> "ack"
         [] op[c] = "fail" -> "fail"
         [] op[c] \in {"sweep", "sweepThenClaim"} -> "sweep"
         [] OTHER -> "recover"

\* Fault seeded for UsesLock: the stale lock of a crashed consumer is taken over.
AcquireOverStale(c) ==
  /\ pc[c] \in {"lock", "migrateLock"}
  /\ lock \in {None, Stale}
  /\ lock' = c
  /\ Goto(c, FirstStep(c))
  /\ ret' = [ret EXCEPT ![c] = "claim"]
  /\ UNCHANGED <<files, pin, op, got, verdict, budget, history>>

\* withQueueEntryLock.
AcquireLock(c) ==
  /\ pc[c] \in {"lock", "migrateLock"}
  /\ lock = None
  /\ lock' = c
  /\ Goto(c, FirstStep(c))
  /\ ret' = [ret EXCEPT ![c] = "claim"]
  /\ UNCHANGED <<files, pin, op, got, verdict, budget, history>>

\* Retries are exhausted, or the stale lock fails closed.
LockTimeout(c) ==
  /\ pc[c] \in {"lock", "migrateLock"}
  /\ lock # None
  /\ Throw(c)

-----------------------------------------------------------------------------
(* recoverDurableQueueRetirement.                                          *)

\* Fault seeded for NoEntryLost: the newer generation is not put back.
PutBackDropped(c) == Step(c, "unlinkEntry")

\* What rename took away while claiming was a newer generation: it goes back,
\* unless a still newer one has been enqueued.
PutBack(c) ==
  \/ fs["json"] = None /\ Step(c, "relink")
  \/ fs["json"] = fs["entry"] /\ Step(c, "resync")
  \/ fs["json"] \notin {None, fs["entry"]} /\ Owned("json") /\ Step(c, "unlinkEntry")

\* Fault seeded for EventuallySettled: an empty record is an error.
EmptyRecordRejected(c) == Throw(c)

\* A record whose rename never happened, or whose entry is gone, is removed.
EmptyRecord(c) == Step(c, "rmdirRecord")

\* The record is read in one step: under the lock only <id>.json can change.
Recover(c) ==
  /\ At(c, "recover")
  /\ \/ fs["record"] = None /\ Step(c, Returned(c))
     \/ fs["record"] # None /\ fs["entry"] = None /\ EmptyRecord(c)
     \/ fs["entry"] # None /\ fs["processing"] = fs["entry"] /\ Step(c, "unlinkEntry")
     \/ fs["entry"] # None /\ fs["processing"] \notin {None, fs["entry"]} /\ PutBack(c)

\* "queue retirement ownership is incomplete", or an ambiguous replacement.
RecoverRejects(c) ==
  /\ At(c, "recover")
  /\ fs["entry"] # None
  /\ \/ fs["processing"] = None
     \/ /\ fs["entry"] # fs["processing"]
        /\ fs["json"] \notin {None, fs["entry"]}
        /\ ~Owned("json")
  /\ Throw(c)

\* Fault seeded for KeepsPromise: the entry is put back by a replacing rename.
RelinkReplacing(c) ==
  /\ At(c, "relink")
  /\ Change(c, [fs EXCEPT !["json"] = fs["entry"]], "resync")
  /\ UNCHANGED <<ret, history>>

\* link(entry, <id>.json) never replaces what a producer wrote meanwhile.
Relink(c) ==
  /\ At(c, "relink")
  /\ \/ fs["json"] = None
        /\ Change(c, [fs EXCEPT !["json"] = fs["entry"]], "resync")
        /\ UNCHANGED <<ret, history>>
     \/ fs["json"] # None /\ Throw(c)

UnlinkEntry(c) ==
  /\ At(c, "unlinkEntry")
  /\ Change(c, [fs EXCEPT !["entry"] = None], "unlinkSync")
  /\ UNCHANGED <<ret, history>>

RmdirRecord(c) ==
  /\ At(c, "rmdirRecord")
  /\ Change(c, [fs EXCEPT !["record"] = None], "recordSync")
  /\ UNCHANGED <<ret, history>>

-----------------------------------------------------------------------------
(* claimDurableQueueEntryUnlocked and retireDurableQueueSource.            *)

\* Fault seeded for LoadedIsDurable: an existing claim is taken as durable.
ClaimExistingUnsynced(c) ==
  \/ fs["json"] = fs["processing"] /\ Step(c, "retire")
  \/ fs["json"] # fs["processing"] /\ Step(c, "claimed")

\* An existing claim is retried first: its source is retired if it still is
\* the pending file, and the claim is persisted in any case.
ClaimExisting(c) ==
  \/ fs["json"] = fs["processing"] /\ Step(c, "retire")
  \/ fs["json"] # fs["processing"] /\ Step(c, "claimSync")

Claim(c) ==
  /\ At(c, "claim")
  /\ \/ fs["processing"] # None /\ ClaimExisting(c)
     \/ fs["processing"] = None /\ fs["json"] # None /\ Owned("json") /\ Step(c, "link")

\* Nothing pending, or a pending file with another link, which a batch skips
\* and other callers reject.
ClaimNothing(c) ==
  /\ At(c, "claim")
  /\ fs["processing"] = None
  /\ fs["json"] = None \/ ~Owned("json")
  /\ Throw(c)

\* The claim: whichever generation is <id>.json at this system call.
Link(c) ==
  /\ At(c, "link")
  /\ Change(c, [fs EXCEPT !["processing"] = fs["json"]], "linkSync")
  /\ UNCHANGED <<ret, history>>

Retire(c) ==
  /\ At(c, "retire")
  /\ ret' = [ret EXCEPT ![c] = "retire"]
  /\ Goto(c, "recover")
  /\ UNCHANGED <<files, pin, lock, op, got, verdict, budget, history>>

MkdirRecord(c) ==
  /\ At(c, "mkdirRecord")
  /\ Change(c, [fs EXCEPT !["record"] = Directory], "newRecord")
  /\ UNCHANGED <<ret, history>>

\* Fault seeded for TypeOK: the pending file is renamed over the record itself.
TakePendingMisplaced(c) ==
  /\ At(c, "takePending")
  /\ Change(c, [fs EXCEPT !["json"] = None, !["record"] = fs["json"]], "takenSync")
  /\ ret' = [ret EXCEPT ![c] = "claimed"]
  /\ UNCHANGED history

\* rename(<id>.json, entry) takes whatever is pending now, claimed or newer.
TakePending(c) ==
  /\ At(c, "takePending")
  /\ \/ fs["json"] # None
        /\ Change(c, [fs EXCEPT !["json"] = None, !["entry"] = fs["json"]], "takenSync")
     \/ fs["json"] = None /\ Change(c, fs, "rmdirRecord")
  /\ ret' = [ret EXCEPT ![c] = "claimed"]
  /\ UNCHANGED history

\* The claim is complete: a load goes on to read it without the lock.
Claimed(c) ==
  /\ At(c, "claimed")
  /\ \/ op[c] = "fail" /\ Step(c, "failLink")
     \/ op[c] # "fail" /\ Goto(c, "open") /\ Unlock(c)
        /\ UNCHANGED <<files, pin, locals, budget, history>>

-----------------------------------------------------------------------------
(* withJsonDurableQueueEntry and the callback, without the lock.           *)

\* lstat and open of <id>.processing; the descriptor pins the inode.
Open(c) ==
  /\ At(c, "open")
  /\ fs["processing"] # None /\ Owned("processing")
  /\ pin' = [pin EXCEPT ![c] = fs["processing"]]
  /\ Goto(c, "read")
  /\ UNCHANGED <<files, lock, locals, budget, history>>

\* The claim disappeared, or has another link.
OpenRejects(c) ==
  /\ At(c, "open")
  /\ fs["processing"] = None \/ ~Owned("processing")
  /\ Throw(c)

\* The last identity check of the path, then the bounded read of the bytes.
Read(c) ==
  /\ At(c, "read")
  /\ \/ Links(pin[c]) = {"processing"} /\ Step(c, "callback")
     \/ Links(pin[c]) # {"processing"} /\ Throw(c)

Return(c) ==
  /\ Goto(c, "idle")
  /\ op' = [op EXCEPT ![c] = "none"]
  /\ Decide(c, Holds(pin[c]), "none")
  /\ loaded' = loaded \cup {Holds(pin[c])}
  /\ Unpin(c)
  /\ Unlock(c)
  /\ UNCHANGED <<files, ret, budget, published, enqueued, acked, settled>>

CallbackReturns(c)  == At(c, "callback") /\ Return(c)
CallbackMigrates(c) == At(c, "callback") /\ Step(c, "migrateLock")
CallbackThrows(c)   == At(c, "callback") /\ Throw(c)

\* Fault seeded for ClaimKeepsGeneration: any claim will do.
AssertSomeClaim(c) == fs["processing"] # None

\* migrateDurableQueueEntry: the claim must still be the inode read, with no
\* other link.
AssertCurrent(c) == Links(pin[c]) = {"processing"}

MigrateAssert(c) ==
  /\ At(c, "migrateAssert")
  /\ \/ AssertCurrent(c) /\ Step(c, "migratePublish")
     \/ ~AssertCurrent(c) /\ Throw(c)

\* beforePublish asserts again, then the temp file replaces the claim.  Both
\* happen under one lock, so the second assertion cannot fail.
MigratePublish(c) ==
  /\ At(c, "migratePublish")
  /\ AssertCurrent(c)
  /\ \E i \in Unused :
       /\ fs' = [fs EXCEPT !["processing"] = i]
       /\ content' = [content EXCEPT ![i] = Holds(pin[c])]
  /\ Goto(c, "migrateSync")
  /\ UNCHANGED <<disk, pin, lock, locals, budget, history>>

Migrated(c) == At(c, "migrated") /\ Return(c)

-----------------------------------------------------------------------------
(* acknowledgeDurableQueueEntry and completeDeliveredQueueEntry.           *)

AckStart(c) ==
  /\ At(c, "ack")
  /\ Change(c, [fs EXCEPT !["delivered"] = None],
            IF fs["processing"] = None THEN "markerSync" ELSE "ackRename")
  /\ UNCHANGED <<ret, history>>

AckVerify(c) ==
  /\ At(c, "ackVerify")
  /\ \/ fs["json"] = None /\ Step(c, "ackDone")
     \/ fs["json"] # None /\ Throw(c)

AckRename(c) ==
  /\ At(c, "ackRename")
  /\ Change(c, [fs EXCEPT !["delivered"] = fs["processing"], !["processing"] = None],
            "ackSync")
  /\ acked' = acked \cup {Gen("processing")}
  /\ UNCHANGED <<ret, published, enqueued, loaded, settled>>

AckUnlink(c) ==
  /\ At(c, "ackUnlink")
  /\ Change(c, [fs EXCEPT !["delivered"] = None], "ackedSync")
  /\ UNCHANGED <<ret, history>>

\* An operation on generation g returns success.
Settle(c, g) ==
  /\ Goto(c, "idle")
  /\ op' = [op EXCEPT ![c] = "none"]
  /\ Decide(c, 0, "none")
  /\ settled' = settled \cup ({g} \ {0})
  /\ Unlock(c)
  /\ UNCHANGED <<files, pin, ret, budget, published, enqueued, loaded, acked>>

AckDone(c) == At(c, "ackDone") /\ Settle(c, got[c])

Sweep(c) ==
  /\ At(c, "sweep")
  /\ \/ fs["delivered"] # None
        /\ Change(c, [fs EXCEPT !["delivered"] = None], "sweptSync")
        /\ UNCHANGED <<ret, history>>
     \/ fs["delivered"] = None /\ Step(c, "sweepDone")

SweepDone(c) ==
  /\ At(c, "sweepDone")
  /\ \/ op[c] = "sweep" /\ Throw(c)
     \/ /\ op[c] = "sweepThenClaim"
        /\ op' = [op EXCEPT ![c] = "batch"]
        /\ Goto(c, "lock")
        /\ Unlock(c)
        /\ UNCHANGED <<files, pin, ret, got, verdict, budget, history>>

-----------------------------------------------------------------------------
(* moveDurableQueueEntryToFailed.                                          *)

Fail(c) ==
  /\ At(c, "fail")
  /\ \/ fs["processing"] # None /\ Step(c, "failLink")
     \/ fs["processing"] = None /\ fs["failed"] # None /\ Step(c, "evidenceSync")
     \/ fs["processing"] = None /\ fs["failed"] = None /\ Step(c, "recover")

FailVerify(c) ==
  /\ At(c, "failVerify")
  /\ \/ fs["json"] = None /\ Settle(c, got[c])
     \/ fs["json"] # None /\ Throw(c)

\* Fault seeded for EvidenceKept: quarantine replaces what failed before.
FailLinkReplacing(c) ==
  /\ At(c, "failLink")
  /\ Change(c, [fs EXCEPT !["failed"] = fs["processing"]], "failedSync")
  /\ UNCHANGED <<ret, history>>

\* link(processing, failed) is create-only; a shared inode is an interrupted
\* quarantine of the same claim.
FailLink(c) ==
  /\ At(c, "failLink")
  /\ \/ fs["failed"] = None
        /\ Change(c, [fs EXCEPT !["failed"] = fs["processing"]], "failedSync")
        /\ UNCHANGED <<ret, history>>
     \/ fs["failed"] # None /\ fs["failed"] = fs["processing"] /\ Step(c, "failedSync")
     \/ fs["failed"] \notin {None, fs["processing"]} /\ Throw(c)

\* Fault seeded for SettledStaysGone: success is reported before the sync.
FailUnlinkUnsynced(c) ==
  /\ At(c, "failUnlink")
  /\ Change(c, [fs EXCEPT !["processing"] = None], "failDone")
  /\ UNCHANGED <<ret, history>>

FailUnlink(c) ==
  /\ At(c, "failUnlink")
  /\ Change(c, [fs EXCEPT !["processing"] = None], "movedSync")
  /\ UNCHANGED <<ret, history>>

FailDone(c) == At(c, "failDone") /\ Settle(c, Gen("failed"))

-----------------------------------------------------------------------------
(* Crashes, and the operator who removes a proven-stale transfer lock.     *)

Crash(c) ==
  /\ ~At(c, "idle") \/ got[c] # 0
  /\ Fault("crash")
  /\ Goto(c, "idle")
  /\ op' = [op EXCEPT ![c] = "none"]
  /\ Decide(c, 0, "none")
  /\ Unpin(c)
  /\ lock' = IF lock = c THEN Stale ELSE lock
  /\ UNCHANGED <<files, ret, nextGen, boots, history>>

ProducerCrash(p) ==
  /\ ~At(p, "idle")
  /\ Fault("crash")
  /\ EndWrite(p)
  /\ UNCHANGED enqueued

PowerLoss ==
  /\ Fault("power")
  /\ \E f \in CrashImages : fs' = f /\ disk' = f
  /\ pc' = [p \in Procs |-> "idle"]
  /\ op' = [c \in Consumers |-> "none"]
  /\ got' = [c \in Consumers |-> 0]
  /\ verdict' = [c \in Consumers |-> "none"]
  /\ pin' = [p \in Procs |-> None]
  /\ lock' = IF lock = None THEN None ELSE Stale
  /\ boots' = boots + 1
  /\ UNCHANGED <<content, ret, nextGen, history>>

RemoveStaleLock ==
  /\ lock = Stale
  /\ lock' = None
  /\ UNCHANGED <<files, pin, pc, locals, budget, history>>

-----------------------------------------------------------------------------
ProducerStep(p) ==
  \/ AssertPublished(p) \/ WriteRejected(p)
  \/ SyncParent(p) \/ SyncParentFails(p)

\* A call in progress.
ConsumerStep(c) ==
  \/ SyncStep(c) \/ SyncFails(c) \/ LinkRefused(c)
  \/ AcquireLock(c) \/ LockTimeout(c)
  \/ Recover(c) \/ RecoverRejects(c) \/ Relink(c) \/ UnlinkEntry(c) \/ RmdirRecord(c)
  \/ Claim(c) \/ ClaimNothing(c) \/ Link(c) \/ Retire(c) \/ MkdirRecord(c)
  \/ TakePending(c) \/ Claimed(c)
  \/ Open(c) \/ OpenRejects(c) \/ Read(c)
  \/ CallbackReturns(c) \/ CallbackMigrates(c) \/ CallbackThrows(c)
  \/ MigrateAssert(c) \/ MigratePublish(c) \/ Migrated(c)
  \/ AckStart(c) \/ AckVerify(c) \/ AckRename(c) \/ AckUnlink(c) \/ AckDone(c)
  \/ Sweep(c) \/ SweepDone(c)
  \/ Fail(c) \/ FailVerify(c) \/ FailLink(c) \/ FailUnlink(c) \/ FailDone(c)

ConsumerCall(c) == Load(c) \/ LoadPending(c) \/ Ack(c) \/ MoveToFailed(c)

Next ==
  \/ \E p \in Producers : Publish(p) \/ ProducerStep(p) \/ ProducerCrash(p)
  \/ \E c \in Consumers : ConsumerCall(c) \/ ConsumerStep(c) \/ Crash(c)
  \/ PowerLoss
  \/ RemoveStaleLock

Spec == Init /\ [][Next]_vars

-----------------------------------------------------------------------------
(* Properties.                                                             *)

Steps ==
  {"idle", "assertPublished", "syncParent", "assertSynced",
   "lock", "recover", "relink", "unlinkEntry", "rmdirRecord",
   "claim", "link", "retire", "mkdirRecord", "takePending", "claimed",
   "open", "read", "callback", "migrateLock", "migrateAssert", "migratePublish",
   "migrated", "ack", "ackVerify", "ackRename", "ackUnlink", "ackDone",
   "sweep", "sweepDone", "fail", "failVerify", "failLink", "failUnlink",
   "failDone"} \cup SyncSteps

Entries ==
  {f \in [Names -> Inodes \cup {None, Directory}] :
     /\ \A n \in FileNames : f[n] # Directory
     /\ f["record"] \in {None, Directory}}

FilesOK ==
  /\ fs \in Entries
  /\ disk \in Entries
  /\ content \in [Inodes -> Gens \cup {0}]

ControlOK ==
  /\ pin \in [Procs -> Inodes \cup {None}]
  /\ lock \in Consumers \cup {None, Stale}
  /\ pc \in [Procs -> Steps]

LocalsOK ==
  /\ op \in [Consumers -> {"none", "load", "batch", "sweep", "sweepThenClaim", "ack", "fail"}]
  /\ ret \in [Consumers -> {"claim", "retire", "claimed"}]
  /\ got \in [Consumers -> Gens \cup {0}]
  /\ verdict \in [Consumers -> {"none", "ack", "fail"}]

BudgetOK ==
  /\ nextGen \in 1..(MaxGen + 1)
  /\ faults \in 0..MaxFaults
  /\ boots \in 0..faults

HistoryOK ==
  /\ published \subseteq Gens
  /\ \A h \in {enqueued, loaded, acked, settled} : h \subseteq Gens \cup {0}

\* Every variable has its type.
TypeOK == FilesOK /\ ControlOK /\ LocalsOK /\ BudgetOK /\ HistoryOK

\* The steps a consumer takes without holding the transfer lock.
Unlocked == {"idle", "ensureFailed", "lock", "open", "read", "callback", "migrateLock"}

\* Every step of a transition is made by the owner of the transfer lock
\* (withQueueEntryLock): two consumers are never inside one together, and
\* none is inside while a crashed owner's lock stands.
TransferExclusion ==
  \A c \in Consumers : pc[c] \notin Unlocked => lock = c

Present(g) == \E n \in FileNames : Gen(n) = g

\* No enqueued entry is lost: a generation whose write returned success can
\* still be found under some name, was acknowledged, or, never having been
\* returned by a load, was replaced while pending by a later enqueue.
NoEntryLost ==
  \A g \in enqueued \ acked :
    Present(g) \/ (g \notin loaded /\ \E h \in published : h > g)

Live == {"json", "processing"}

\* An entry whose acknowledgement or quarantine returned success is gone for
\* good: no name a load returns entries from has it, now or after a power loss.
SettledStaysGone ==
  \A g \in settled, n \in Live : Gen(n) # g /\ DiskGen(n) # g

\* A claim is on disk when load returns it, so that a power loss cannot undo
\* it: unless another consumer has moved it meanwhile, the durable .processing
\* holds the generation returned.
LoadedIsDurable ==
  [][\A c \in Consumers :
       got'[c] \notin {0, got[c]} /\ Gen("processing") = got'[c]
         => DiskGen("processing") = got'[c]]_vars

\* Evidence in the failed directory is create-only: once durable it is never
\* replaced or removed, by another quarantine or by a power loss.
EvidenceKept ==
  [][\A i \in Inodes : disk["failed"] = i => fs'["failed"] = i]_vars

\* A claim is never taken over by another generation: between power losses
\* .processing keeps its generation until the claim is acknowledged or
\* quarantined, whatever migrations and enqueues race with it.
ClaimKeepsGeneration ==
  [][boots' = boots /\ fs["processing"] # None /\ fs'["processing"] # None
       => content'[fs'["processing"]] = content[fs["processing"]]]_vars

\* Acknowledgement is generation-bound: the entry it removes is the one the
\* caller's load returned (docs/store.md:73).
AckIsGenerationBound ==
  [][\A g \in acked' \ acked : \E c \in Consumers : At(c, "ackRename") /\ got[c] = g]_vars

\* A record that holds an entry needs the claim it was made for: without it every
\* load rejects (json-durable-queue-ownership.ts:388).
Recoverable == fs["entry"] # None => fs["processing"] # None

\* A caller closes a claim its load did not return: acknowledgement and quarantine
\* take an existing .processing without the recovery that a load begins with.
ClosesUnloaded ==
  \E c \in Consumers :
    /\ pc[c] \in {"ackRename", "failUnlink"} /\ pc'[c] \in {"ackSync", "movedSync"}
    /\ got[c] # Gen("processing")

\* A power loss brings back a record whose removal was visible and not synced.
RecordReturns == boots' > boots /\ fs["entry"] = None /\ disk["entry"] # None

\* An interrupted retirement stays recoverable, whatever interrupts it: no step of
\* any caller, no crash and no power loss takes the claim from a record that holds an
\* entry, but for the two ways above.
RetirementRecoverable ==
  [][Recoverable => Recoverable' \/ ClosesUnloaded \/ RecordReturns]_vars
=============================================================================
