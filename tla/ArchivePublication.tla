------------------------- MODULE ArchivePublication -------------------------
(***************************************************************************)
(* Extraction of an archive below a destination (extractArchive), and the  *)
(* public merge of a tree (mergeExtractedTreeIntoDestination): the staged  *)
(* tree is walked, directories and files are published one by one, and     *)
(* files, modes and directories are finalized, deepest first, while the    *)
(* deadline of the call may elapse at any moment.                          *)
(*                                                                         *)
(* Calls run in processes of their own.  One step is one system call with  *)
(* the checks before it.  Names, identities and contents of the archive    *)
(* are abstracted to a fixed tree; foreign programs are left out.          *)
(***************************************************************************)
EXTENDS Naturals, Sequences, SequencesExt, FiniteSets

CONSTANTS
  Calls, Dirs, Files,
  Root,        \* the destination
  Parent,      \* the directory of each directory and file
  Absent,      \* the mode of a directory that is not there
  Nobody,      \* no call
  Nothing,     \* no name
  Batch,       \* file syncs under way at once: 8 in the code
  MaxFaults,   \* bound: failed operations in a behaviour
  Setups       \* what the calls are asked, and what they find

Modes == SUBSET {"r", "w", "x"}

Setup ==
  [ calls : SUBSET Calls,                   \* those of this behaviour
    merge : SUBSET Calls,                   \* mergeExtractedTreeIntoDestination
    timed : SUBSET Calls,                   \* timeoutMs positive and finite
    durable : SUBSET Calls,
    old   : [Dirs -> {Absent} \cup Modes],
    mode  : [Calls -> [Dirs -> Modes]],     \* final modes
    dark  : [Calls -> SUBSET Files] ]       \* files whose final mode cannot be read

\* A directory and those between it and the destination.
Above[d \in Dirs \cup {Root}] ==
  IF d = Root THEN {} ELSE {d} \cup Above[Parent[d]]

ASSUME ArchiveAssumption ==
  /\ Root \notin Dirs /\ Nothing \notin Dirs \cup Files /\ Nobody \notin Calls
  /\ Dirs \cap Files = {} /\ IsFiniteSet(Dirs)
  /\ Parent \in [Dirs \cup Files -> Dirs \cup {Root}]
  /\ \A X \in SUBSET Dirs : X # {} => \E d \in X : Parent[d] \notin X   \* a tree
  /\ \A m \in Modes : m # Absent
  /\ Batch \in Nat \ {0} /\ MaxFaults \in Nat
  /\ Setups \subseteq Setup
  /\ \A s \in Setups : s.merge \cap (s.timed \cup s.durable) = {}

VARIABLES
  setup,   \* never changes
  mode,    \* Dirs -> the permissions of the owner, or Absent
  cell,    \* Files -> the call whose file is at the name, or Nobody
  data,    \* the files whose content is not on stable storage
  names,   \* the names that changed since their directory was synced
  run,     \* Calls -> where the extraction is, see Idle
  clock,   \* Calls -> "running", "elapsed" or "aborted"
  answer,  \* Calls -> "none", or how the promise of the caller settled
  faults   \* failed operations so far

dest == <<mode, cell, data, names>>
vars == <<setup, dest, run, clock, answer, faults>>

Idle ==
  [ pc   |-> "idle",
    path |-> <<>>,     \* the directories entered: ancestors
    at   |-> Nothing,  \* the entry, or the directory being finalized
    done |-> {},       \* entries published
    files |-> {}, dirs |-> {},  \* publishedFiles, publishedDirectories not yet finalized
    sync |-> <<>>,     \* file syncs of the batch under way: file -> its next step
    bad  |-> {},       \* failures among them
    pin  |-> FALSE,    \* a descriptor to sync the directory with
    why  |-> "none",   \* how the extraction ended
    need |-> <<>> ]    \* the directory and permissions that were missing

Init ==
  /\ setup \in Setups
  /\ mode = setup.old
  /\ cell = [f \in Files |-> Nobody]
  /\ data = {} /\ names = {}
  /\ run = [c \in Calls |-> Idle]
  /\ clock = [c \in Calls |-> "running"]
  /\ answer = [c \in Calls |-> "none"]
  /\ faults = 0

-----------------------------------------------------------------------------
(* What the steps share.                                                   *)

Cur(c)      == IF run[c].path = <<>> THEN Root ELSE Last(run[c].path)
Children(d) == {n \in Dirs \cup Files : Parent[n] = d}
Depth(d)    == Cardinality(Above[d])
Final(c, d) == setup.mode[c][d]

At(c, pc)    == run[c].pc = pc
Set(c, r)    == run' = [run EXCEPT ![c] = r]
Go(c, pc)    == Set(c, [run[c] EXCEPT !.pc = pc])

\* The timer's callback may be late; check() looks at the clock itself, and aborts.
Over(c) == clock[c] # "running"

\* The extraction is going to reject; owners close and the stage is removed first.
Unwind(c, why) == Set(c, [run[c] EXCEPT !.pc = "unwind", !.why = why])

Expired(c) ==
  /\ Over(c)
  /\ clock' = [clock EXCEPT ![c] = "aborted"]
  /\ Unwind(c, "timeout")
  /\ UNCHANGED <<setup, dest, answer, faults>>

Mode(d) == IF d = Root THEN {"r", "w", "x"} ELSE mode[d]
\* A path below d resolves when d and what is above can be searched.
Shut(d)      == {a \in Above[d] : "x" \notin mode[a]}
Denied(c, need) ==
  /\ Set(c, [run[c] EXCEPT !.pc = "unwind", !.why = "denied", !.need = need])
  /\ UNCHANGED <<setup, dest, clock, answer, faults>>
\* d cannot be reached: some directory above it is closed.
Unreachable(c, d) == \E a \in Shut(d) : Denied(c, <<a, {"x"}>>)
Unwritable(c, d) ==
  \/ Unreachable(c, d)
  \/ Shut(d) = {} /\ "w" \notin Mode(d) /\ Denied(c, <<d, {"w"}>>)
Writable(d) == Shut(d) = {} /\ "w" \in Mode(d)

Breaks(c, why) ==
  /\ faults < MaxFaults /\ faults' = faults + 1
  /\ Unwind(c, why)
  /\ UNCHANGED <<setup, dest, clock, answer>>

Rest(c) == UNCHANGED <<setup, clock, answer, faults>>

-----------------------------------------------------------------------------
(* Reading, admitting and staging the archive: nothing of it touches the   *)
(* destination, and nothing bounds how long it takes.                      *)

Call(c) ==
  /\ c \in setup.calls /\ At(c, "idle")
  /\ Go(c, IF c \in setup.merge THEN "walk" ELSE "stage")
  /\ UNCHANGED dest /\ Rest(c)

Stage(c) ==
  /\ At(c, "stage")
  /\ \/ Expired(c)
     \/ ~Over(c) /\ Go(c, "walk") /\ UNCHANGED dest /\ Rest(c)
     \/ Breaks(c, "error")

-----------------------------------------------------------------------------
(* The walk.                                                               *)

Left(c) == Children(Cur(c)) \ run[c].done

\* Every entry begins with the deadline and the guards of all ancestors.
NextEntry(c) ==
  /\ At(c, "walk") /\ Left(c) # {}
  /\ \/ Expired(c)
     \/ ~Over(c) /\ Unreachable(c, Cur(c))
     \/ /\ ~Over(c) /\ Shut(Cur(c)) = {}
        /\ \E n \in Left(c) :
             Set(c, [run[c] EXCEPT !.pc = IF n \in Dirs THEN "mkdir" ELSE "copy", !.at = n])
        /\ UNCHANGED dest /\ Rest(c)

\* The private output path: an existing directory is kept, a new one is 0700.
MakeDirectory(c) ==
  LET d == run[c].at IN
  /\ At(c, "mkdir")
  /\ IF mode[d] # Absent /\ Shut(Cur(c)) = {}
     THEN Go(c, "enter") /\ UNCHANGED dest /\ Rest(c)
     ELSE \/ Unwritable(c, Cur(c))
          \/ Breaks(c, "error")
          \/ /\ Writable(Cur(c))
             /\ mode' = [mode EXCEPT ![d] = {"r", "w", "x"}]
             /\ names' = names \cup {d}
             /\ Go(c, "enter")
             /\ UNCHANGED <<cell, data>> /\ Rest(c)

\* The directory is pinned by whatever descriptor its mode allows.
EnterDirectory(c) ==
  /\ At(c, "enter")
  /\ \/ Expired(c)
     \/ ~Over(c) /\ Unreachable(c, Cur(c))
     \/ /\ ~Over(c) /\ Shut(Cur(c)) = {}
        /\ Set(c, [run[c] EXCEPT !.pc = "walk", !.path = Append(@, run[c].at)])
        /\ UNCHANGED dest /\ Rest(c)

\* copyIn: a stage of its own, written without a look at the deadline, ...
StageCopy(c) ==
  /\ At(c, "copy")
  /\ \/ Unwritable(c, Cur(c))
     \/ Breaks(c, "error")
     \/ Writable(Cur(c)) /\ Go(c, "rename") /\ UNCHANGED dest /\ Rest(c)

\* ... the rename over the name, between the syncs of a merge: of the file, and of the
\* directory if that can be read; ...
PublishFile(c) ==
  LET f == run[c].at IN
  /\ At(c, "rename")
  /\ \/ Unwritable(c, Cur(c))
     \/ /\ Writable(Cur(c))
        /\ cell' = [cell EXCEPT ![f] = c]
        /\ data' = IF c \in setup.merge THEN data \ {f} ELSE data \cup {f}
        /\ names' = IF c \in setup.merge /\ "r" \in Mode(Cur(c))
                    THEN names \ Children(Cur(c)) ELSE names \cup {f}
        /\ Go(c, "keep")
        /\ UNCHANGED mode /\ Rest(c)

\* Fault seeded in KeepPublished: a file that cannot be opened again stays unsynced.
KeepPublishedOnly(c) ==
  LET f == run[c].at IN
  /\ At(c, "keep")
  /\ \/ cell[f] # c /\ Unwind(c, "changed") /\ UNCHANGED dest /\ Rest(c)
     \/ c \in setup.durable /\ Expired(c)
     \/ /\ cell[f] = c /\ ~(c \in setup.durable /\ Over(c))
        /\ Set(c, [run[c] EXCEPT !.pc = "verify",
                     !.files = IF c \in setup.durable /\ f \notin setup.dark[c]
                               THEN @ \cup {f} ELSE @])
        /\ UNCHANGED dest /\ Rest(c)

\* ... the look whether it is the file that was written, and what durability asks: a
\* file that could not be opened again is synced now, through the descriptor it was
\* written with; others later; ...
KeepPublished(c) ==
  LET f == run[c].at
      durable == c \in setup.durable
      dark == f \in setup.dark[c]
  IN
  /\ At(c, "keep")
  /\ \/ cell[f] # c /\ Unwind(c, "changed") /\ UNCHANGED dest /\ Rest(c)
     \/ durable /\ Expired(c)
     \/ durable /\ dark /\ ~Over(c) /\ Breaks(c, "error")
     \/ /\ cell[f] = c /\ ~(durable /\ Over(c))
        /\ data' = IF durable /\ dark THEN data \ {f} ELSE data
        /\ Set(c, [run[c] EXCEPT !.pc = "verify",
                                 !.files = IF durable /\ ~dark THEN @ \cup {f} ELSE @])
        /\ UNCHANGED <<mode, cell, names>> /\ Rest(c)

\* ... and the guards once more, with a look at the kind of what is at the name.
VerifyPublished(c) ==
  /\ At(c, "verify")
  /\ \/ Expired(c)
     \/ ~Over(c) /\ Unreachable(c, Cur(c))
     \/ /\ ~Over(c) /\ Shut(Cur(c)) = {}
        /\ Set(c, [run[c] EXCEPT !.pc = "walk", !.done = @ \cup {run[c].at}])
        /\ UNCHANGED dest /\ Rest(c)

\* An extraction remembers the directory; a merge gives it its mode now.
LeaveDirectory(c) ==
  LET d == Cur(c)
      up == Front(run[c].path)
  IN
  /\ At(c, "walk") /\ Left(c) = {} /\ d # Root
  /\ \/ Expired(c)
     \/ ~Over(c) /\ Unreachable(c, Parent[d])
     \/ /\ ~Over(c) /\ Shut(Parent[d]) = {}
        /\ IF c \in setup.merge
           THEN Set(c, [run[c] EXCEPT !.pc = "chmod", !.at = d])
           ELSE Set(c, [run[c] EXCEPT !.path = up, !.done = @ \cup {d}, !.dirs = @ \cup {d}])
        /\ UNCHANGED dest /\ Rest(c)

EndWalk(c) ==
  /\ At(c, "walk") /\ Left(c) = {} /\ Cur(c) = Root
  /\ \/ Expired(c)
     \/ /\ ~Over(c)
        /\ Go(c, IF c \in setup.merge THEN "end" ELSE "files")
        /\ UNCHANGED dest /\ Rest(c)

-----------------------------------------------------------------------------
(* finalizeArchivePublication: one owned mutation.                         *)

\* Files in batches.  A failure waits for the other syncs of its batch.
StartBatch(c) ==
  /\ At(c, "files") /\ run[c].sync = <<>>
  /\ \/ run[c].files # {} /\ Expired(c)
     \/ /\ run[c].files = {}
        /\ Go(c, "dirs") /\ UNCHANGED dest /\ Rest(c)
     \/ /\ run[c].files # {} /\ ~Over(c)
        /\ \E b \in kSubset(Min({Batch, Cardinality(run[c].files)}), run[c].files) :
             Set(c, [run[c] EXCEPT !.pc = "batch", !.files = @ \ b,
                                   !.sync = [f \in b |-> "open"]])
        /\ UNCHANGED dest /\ Rest(c)

Goes(c, f, step) == Set(c, [run[c] EXCEPT !.sync[f] = step])
Fails(c, f, r)   == Set(c, [run[c] EXCEPT !.sync[f] = "done", !.bad = @ \cup {r}])
Missing(d, need) == [why |-> "denied", need |-> <<d, need>>]
Bad(why)         == [why |-> why, need |-> <<>>]

\* A check of one file: the deadline, the guards, and that it is the file published.
Checked(c, f, next) ==
  \/ /\ Over(c) /\ Fails(c, f, Bad("timeout"))
     /\ clock' = [clock EXCEPT ![c] = "aborted"]
     /\ UNCHANGED <<setup, dest, answer, faults>>
  \/ /\ ~Over(c)
     /\ \/ \E a \in Shut(Parent[f]) : Fails(c, f, Missing(a, {"x"}))
        \/ Shut(Parent[f]) = {} /\ cell[f] # c /\ Fails(c, f, Bad("changed"))
        \/ Shut(Parent[f]) = {} /\ cell[f] = c /\ Goes(c, f, next)
     /\ UNCHANGED dest /\ Rest(c)

OpenFile(c, f) == run[c].sync[f] = "open" /\ Checked(c, f, "sync")

\* The sync is of the file that was opened, whatever is at the name meanwhile.
SyncFile(c, f) ==
  /\ run[c].sync[f] = "sync"
  /\ \/ /\ data' = IF cell[f] = c THEN data \ {f} ELSE data
        /\ Goes(c, f, "look")
        /\ UNCHANGED <<mode, cell, names>> /\ Rest(c)
     \/ /\ faults < MaxFaults /\ faults' = faults + 1
        /\ Fails(c, f, Bad("error"))
        /\ UNCHANGED <<setup, dest, clock, answer>>

LookAgain(c, f) == run[c].sync[f] = "look" /\ Checked(c, f, "done")

Settled(c) == \A f \in DOMAIN run[c].sync : run[c].sync[f] = "done"

EndBatch(c) ==
  /\ At(c, "batch") /\ Settled(c)
  /\ IF run[c].bad = {}
     THEN Set(c, [run[c] EXCEPT !.pc = "files", !.sync = <<>>])
     ELSE \E r \in run[c].bad :
            Set(c, [run[c] EXCEPT !.pc = "unwind", !.sync = <<>>,
                                  !.why = r.why, !.need = r.need])
  /\ UNCHANGED dest /\ Rest(c)

Batches(c) ==
  \/ StartBatch(c) \/ EndBatch(c)
  \/ At(c, "batch") /\ \E f \in DOMAIN run[c].sync : OpenFile(c, f) \/ SyncFile(c, f) \/ LookAgain(c, f)

\* Fault seeded in NextDirectory: parents first.
NextOuter(c) == {d \in run[c].dirs : \A e \in run[c].dirs : Depth(d) <= Depth(e)}

\* The deepest that is left.
NextDirectory(c) == {d \in run[c].dirs : \A e \in run[c].dirs : Depth(e) <= Depth(d)}

\* The directory is pinned again, by any descriptor for its mode, and before that
\* changes by one that can sync it, if its present mode allows that.
PinDirectory(c) ==
  /\ At(c, "dirs") /\ run[c].dirs # {}
  /\ \/ Expired(c)
     \/ /\ ~Over(c)
        /\ \E d \in NextDirectory(c) :
             \/ Unreachable(c, Parent[d])
             \/ /\ Shut(Parent[d]) = {}
                /\ Set(c, [run[c] EXCEPT !.pc = "chmod", !.at = d,
                             !.pin = c \in setup.durable /\ "r" \in mode[d]])
                /\ UNCHANGED dest /\ Rest(c)

\* The last check is before the call is dispatched.
ApplyMode(c) ==
  LET d == run[c].at IN
  /\ At(c, "chmod")
  /\ \/ Breaks(c, "error")
     \/ /\ mode' = [mode EXCEPT ![d] = Final(c, d)]
        /\ Go(c, "verifyMode")
        /\ UNCHANGED <<cell, data, names>> /\ Rest(c)

VerifyMode(c) ==
  LET d == run[c].at
      readable == run[c].pin \/ "r" \in mode[d]
  IN
  /\ At(c, "verifyMode")
  /\ \/ Expired(c)
     \/ ~Over(c) /\ Unreachable(c, Parent[d])
     \/ /\ ~Over(c) /\ Shut(Parent[d]) = {} /\ mode[d] # Final(c, d)
        /\ Unwind(c, "changed") /\ UNCHANGED dest /\ Rest(c)
     \/ /\ ~Over(c) /\ Shut(Parent[d]) = {} /\ mode[d] = Final(c, d)
        /\ \/ /\ c \in setup.merge
              /\ Set(c, [run[c] EXCEPT !.pc = "walk", !.path = Front(@), !.done = @ \cup {d}])
              /\ UNCHANGED dest /\ Rest(c)
           \/ /\ c \notin setup.merge /\ c \notin setup.durable
              /\ Set(c, [run[c] EXCEPT !.pc = "dirs", !.dirs = @ \ {d}])
              /\ UNCHANGED dest /\ Rest(c)
           \/ /\ c \in setup.durable /\ readable
              /\ Go(c, "syncDir") /\ UNCHANGED dest /\ Rest(c)
           \/ c \in setup.durable /\ ~readable /\ Denied(c, <<d, {"r"}>>)

SyncDirectory(c) ==
  LET d == run[c].at IN
  /\ At(c, "syncDir")
  /\ \/ Breaks(c, "error")
     \/ /\ names' = names \ Children(d)
        /\ Set(c, [run[c] EXCEPT !.pc = "dirs", !.dirs = @ \ {d}])
        /\ UNCHANGED <<mode, cell, data>> /\ Rest(c)

\* After the last directory; the destination is synced last.
EndDirectories(c) ==
  /\ At(c, "dirs") /\ run[c].dirs = {}
  /\ \/ Expired(c)
     \/ /\ ~Over(c)
        /\ Go(c, IF c \in setup.durable THEN "syncRoot" ELSE "end")
        /\ UNCHANGED dest /\ Rest(c)

SyncRoot(c) ==
  /\ At(c, "syncRoot")
  /\ \/ Breaks(c, "error")
     \/ /\ names' = names \ Children(Root)
        /\ Go(c, "end")
        /\ UNCHANGED <<mode, cell, data>> /\ Rest(c)

-----------------------------------------------------------------------------
(* How it ends.                                                            *)

\* The check after the merge, with the stage still there.
EndExtraction(c) ==
  /\ At(c, "end")
  /\ \/ Expired(c)
     \/ /\ ~Over(c)
        /\ Set(c, [Idle EXCEPT !.pc = "resolved", !.done = run[c].done])
        /\ UNCHANGED dest /\ Rest(c)

\* Directory owners close, and the stage is removed.
EndUnwind(c) ==
  /\ At(c, "unwind")
  /\ Set(c, [Idle EXCEPT !.pc = "rejected", !.why = run[c].why, !.need = run[c].need])
  /\ UNCHANGED dest /\ Rest(c)

Extract(c) ==
  \/ NextEntry(c) \/ MakeDirectory(c) \/ EnterDirectory(c)
  \/ StageCopy(c) \/ PublishFile(c) \/ KeepPublished(c) \/ VerifyPublished(c)
  \/ LeaveDirectory(c) \/ EndWalk(c) \/ Batches(c)
  \/ PinDirectory(c) \/ ApplyMode(c) \/ VerifyMode(c) \/ SyncDirectory(c)
  \/ EndDirectories(c) \/ SyncRoot(c) \/ EndExtraction(c) \/ EndUnwind(c)

\* Destination mutations that ownDestinationMutation counts: one for every directory
\* entered, and the one under way.
Owned(c) ==
  \/ run[c].path # <<>>
  \/ run[c].pc \in {"mkdir", "enter", "copy", "rename", "keep", "verify"}
  \/ run[c].pc \in {"files", "batch", "dirs", "chmod", "verifyMode", "syncDir", "syncRoot"}

\* Time passes; the timer's callback comes later, and after the promises that are
\* settled already.
Elapse(c) ==
  /\ c \in setup.timed /\ ~At(c, "idle") /\ clock[c] = "running"
  /\ clock' = [clock EXCEPT ![c] = "elapsed"]
  /\ UNCHANGED <<setup, dest, run, answer, faults>>

Timer(c) ==
  /\ clock[c] = "elapsed" /\ run[c].pc \notin {"resolved", "rejected"}
  /\ clock' = [clock EXCEPT ![c] = "aborted"]
  /\ UNCHANGED <<setup, dest, run, answer, faults>>

Answer(c, a) ==
  /\ answer[c] = "none"
  /\ answer' = [answer EXCEPT ![c] = a]
  /\ UNCHANGED <<setup, dest, run, clock, faults>>

\* The extraction settled first; a success is looked at once more.
Resolve(c) ==
  At(c, "resolved") /\ clock[c] # "aborted" /\ Answer(c, IF Over(c) THEN "timeout" ELSE "ok")
Reject(c) == At(c, "rejected") /\ clock[c] # "aborted" /\ Answer(c, run[c].why)

\* Faults seeded in Join: nothing is joined; the whole extraction is.
JoinNothing(c) == clock[c] = "aborted" /\ Answer(c, "timeout")
JoinExtraction(c) ==
  clock[c] = "aborted" /\ run[c].pc \in {"resolved", "rejected"} /\ Answer(c, "timeout")

\* The deadline came first: the mutations under way are joined, nothing else is.
Join(c) == clock[c] = "aborted" /\ ~Owned(c) /\ Answer(c, "timeout")

Outer(c) == Elapse(c) \/ Timer(c) \/ Resolve(c) \/ Reject(c) \/ Join(c)

Next == \E c \in Calls : Call(c) \/ Stage(c) \/ Extract(c) \/ Outer(c)

Spec == Init /\ [][Next]_vars

\* File operations end and timers fire.  Nothing is assumed of the stage: reading an
\* archive may hang.
FairSpec ==
  Spec /\ \A c \in Calls : WF_vars(Extract(c)) /\ WF_vars(Outer(c))

-----------------------------------------------------------------------------
(* Properties.                                                             *)

\* "Active destination mutation is joined": once the caller has its answer, no step
\* of the call changes the destination, and none of its syncs is under way, wherever
\* the deadline met it (archive-deadline.ts:113-124).
AnswerIsFinal ==
  [][\A c \in Calls : answer[c] # "none" /\ run'[c] # run[c]
       => UNCHANGED dest /\ run[c].sync = <<>>]_vars

Stored(f) == f \notin data /\ ({f} \cup Above[Parent[f]]) \cap names = {}

\* A call that resolved published its whole tree, and left no directory with a working
\* mode; if it was to be durable, each of its files that nobody replaced would
\* survive a power loss, and so would every name on the way to it.
OkMeansStored ==
  \A c \in Calls : answer[c] = "ok" =>
    /\ \A f \in Files : cell[f] # Nobody
    /\ \A d \in Dirs : \E o \in setup.calls : mode[d] = Final(o, d)
    /\ c \in setup.durable => \A f \in Files : cell[f] = c => Stored(f)

\* Modes that lock the call itself out, a directory without search or a file without
\* read permission, do no harm: an extraction is denied only by what it found, or by what
\* another one did (docs/archive.md, "a descriptor pinned before chmod").
OwnModesHarmless ==
  \A c \in Calls : run[c].why = "denied" =>
    LET d == run[c].need[1]
        lacks(m) == m # Absent /\ ~(run[c].need[2] \subseteq m)
    IN  \/ lacks(setup.old[d])
        \/ \E o \in setup.calls \ {c} : ~At(o, "idle") /\ lacks(Final(o, d))

\* An extraction with a timeout is answered although its archive may never be read,
\* and a merge ends by itself.
TimeoutAnswered ==
  \A c \in Calls : ~At(c, "idle") /\ c \in setup.timed \cup setup.merge ~> answer[c] # "none"
=============================================================================
