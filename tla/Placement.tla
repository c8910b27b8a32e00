------------------------------ MODULE Placement ------------------------------
(***************************************************************************)
(* The calls of Publication, DirectorySwap, MovePath and TempWorkspace     *)
(* together, over the same entries, with crashes, exits and foreign        *)
(* programs, and what they promise about each other's objects.             *)
(***************************************************************************)
EXTENDS Publication, DirectorySwap, MovePath, TempWorkspace

Step(c) == PublicationStep(c) \/ SwapStep(c) \/ MoveStep(c) \/ WorkspaceStep(c)

Environment ==
  \/ \E n \in Names \cup Calls : Intrude(n) \/ Edit(n)
  \/ \E p \in Procs : Crash(p) \/ Exit(p) \/ EndExit(p)

Next == Environment \/ \E c \in Calls : Step(c)

Spec == EntriesInit /\ [][Next]_vars

-----------------------------------------------------------------------------
(* Properties.                                                             *)

\* What a call may take the last name of: its own copy or link, stage or workspace;
\* the original a swap has replaced; the source of a move whose copy was published.
MayDrop(c, i) ==
  \/ setup.task[c].kind = "publish" /\ i = op[c].made /\ Way(c) # "rename"
  \/ setup.task[c].kind = "swap" /\ i = op[c].old /\ op[c].pub
  \/ setup.task[c].kind = "move" /\ (i = op[c].made \/ (i = op[c].print.id /\ op[c].pub))
  \/ setup.task[c].kind = "workspace" /\ i = op[c].made

\* Whatever the calls do to each other, and whatever fails, no call destroys what is
\* not its own: an object that lost no name in a gap no check closes (taken) keeps
\* one, except as MayDrop says.  In particular the rename publication and the
\* directory swap, which both take a name away and give another, never lose what
\* they carry, and nothing of one call is removed in the cleanup of another.
LastNameKept ==
  [][\A c \in Calls : op'[c] # op[c] =>
       \A i \in Objects \ taken' :
         Links(i) > 0 /\ (\A n \in DOMAIN ent : ent'[n] # i) => MayDrop(c, i)]_vars

\* A copying move sends the unlink of its source only when a complete copy of what
\* the source holds at that moment was published: an edit between the copy and the
\* removal is never lost.
SourceOutlivesCopy ==
  [][\A c \in Calls :
       setup.task[c].kind = "move" /\ op'[c].pc = "unlink" /\ op[c].pc # "unlink" =>
         /\ op[c].pub /\ body[op[c].made].whole
         /\ ent[From(c)] = op[c].print.id
         /\ op[c].read = body[ent[From(c)]].data]_vars

\* A target the publication created and never recognised: the error of fstat, or of
\* an addon that could not remove it again, is thrown as it came and says nothing.
Unrecognised(c, i) == op[c].old = i \/ (op[c].made = i /\ ~op[c].pub)

\* Nobody finds half an object under a name: only a publication that copies in place
\* shows one, while it runs, when the caller was told that the target could not be
\* removed, or when the publication failed before it recognised what it created.
TargetWhole ==
  \A n \in Names :
    ent[n] # None /\ ~body[ent[n]].whole =>
      \E c \in Calls :
        /\ setup.task[c].kind = "publish" /\ Way(c) = "copy"
        /\ \/ Unrecognised(c, ent[n])
           \/ /\ op[c].made = ent[n]
              /\ \/ op[c].pc \in {"fill", "undo", "remove", "void"}
                 \/ op[c].pc = "settled" /\ op[c].told \in {"unknown", "preserved"}

\* What the call left behind: its stage, the original it set aside, its workspace.
Left(c) ==
  \/ ent[c] # None /\ ent[c] \in {op[c].made, op[c].old}
  \/ setup.task[c].kind = "workspace" /\ op[c].made # None /\ ent[From(c)] = op[c].made

\* The exit had no part in it: not registered yet, or the cleanup was already sent.
Unreached(c) ==
  \/ setup.task[c].kind = "swap"
  \/ op[c].pc \in {"record", "created"}
  \/ op[c].exit = "pending"

\* The call failed between the creation of its stage or workspace and its
\* registration: docs/temp.md leaves such a directory to the caller, whom the error
\* does not tell its name.
Unadmitted(c) == op[c].pc = "settled" /\ op[c].told = "unadmitted"

\* What a call leaves at its private name, or as a workspace, once it was registered
\* or handed over, is never forgotten: it belongs to a call that runs, was told to
\* the caller, is registered for exit, or was met by a failure of the handler; and
\* after an exit only what the handlers do not reach is there.  Not accounted for is
\* what a crash leaves, and what failed before its registration (Unadmitted).
Accounted ==
  \A c \in Calls : Left(c) =>
    \/ up[Home(c)] = "crashed"
    \/ Unadmitted(c)
    \/ op[c].pc = "settled" /\ op[c].told \in {"backup", "indeterminate", "incomplete"}
    \/ up[Home(c)] \in {"up", "exiting"} /\ (op[c].pc # "settled" \/ op[c].reg)
    \/ up[Home(c)] = "exited" /\ op[c].pc # "settled" /\ Unreached(c)
    \/ op[c].exit = "done" /\ faults > 0
=============================================================================
