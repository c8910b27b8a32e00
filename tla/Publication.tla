----------------------------- MODULE Publication -----------------------------
(***************************************************************************)
(* publishFileExclusive (publish-file*.ts, publish-rename-fallback.ts): a  *)
(* file gets a second name by hardlink, a copy where links are refused, or *)
(* moves to a new name; an existing target is never replaced.  What was    *)
(* created is checked, the directory synced, everything checked again, and *)
(* a failure undoes the creation or says what it left.                     *)
(***************************************************************************)
EXTENDS Entries

\* An error once the target exists; only a hardlink or a copy is removed again.
\* Fault seeded in Undoes: a renamed target is removed like a linked one.
UndoesRename(c) == Go(c, "undo")
Undoes(c) == IF Way(c) = "rename" THEN Settle(c, "preserved") ELSE Go(c, "undo")

Created(c, i, pc) == op' = [op EXCEPT ![c].made = i, ![c].pub = TRUE, ![c].pc = pc]

OpenSource(c) ==
  /\ At(c, "publish", "idle")
  /\ IF ent[From(c)] = None THEN Settle(c, "failed")
     ELSE op' = [op EXCEPT ![c].pc = "check", ![c].src = ent[From(c)]]
  /\ UNCHANGED <<Fixed, ent, body, faults>>

\* assertSourceCurrent, and which operation follows.
CheckSource(c) ==
  /\ At(c, "publish", "check")
  /\ IF ent[From(c)] # op[c].src THEN Settle(c, "failed")
     ELSE Go(c, CASE Way(c) # "rename"  -> "link"
                  [] Way(c) = "rename" /\ setup.noreplace  -> "rename"
                  [] Way(c) = "rename" /\ ~setup.noreplace -> "single")
  /\ UNCHANGED <<Fixed, ent, body, faults>>

\* link: by name, so a substituted source is linked and found by the check.
LinkTarget(c) ==
  /\ At(c, "publish", "link")
  /\ \/ /\ setup.hard /\ ent[From(c)] # None /\ ent[To(c)] = None
        /\ Put(To(c), ent[From(c)]) /\ Created(c, op[c].src, "verify")
     \/ /\ setup.hard /\ (ent[From(c)] = None \/ ent[To(c)] # None)
        /\ Settle(c, "failed") /\ UNCHANGED ent
     \/ /\ ~setup.hard /\ UNCHANGED ent
        /\ IF Way(c) = "copy" THEN Go(c, "create") ELSE Settle(c, "failed")
  /\ UNCHANGED <<Fixed, body, faults>>

\* The addon copies in one call that creates the target, or the target is opened
\* here; what exists from then on is the call's only once it is recognised (pub).
CreateTarget(c, pc) ==
  /\ ent[To(c)] = None /\ Create(To(c), 0, FALSE)
  /\ op' = [op EXCEPT ![c].pc = pc, ![c].made = Len(body) + 1]
Exists(c) == ent[To(c)] # None /\ Settle(c, "failed") /\ UNCHANGED <<ent, body>>

CreateNative(c) ==
  /\ At(c, "publish", "create")
  /\ Exists(c) \/ CreateTarget(c, "native")
  /\ UNCHANGED <<Fixed, faults>>

\* One attempt stands for clone and copy_file_range.  Where they are not supported,
\* or fail, the addon removes what it created, and keeps a failure of that to itself.
NativeCopy(c) ==
  /\ Sent(c, "publish", "native")
  /\ \/ /\ body' = [body EXCEPT ![op[c].made] = [data |-> body[op[c].src].data, whole |-> TRUE]]
        /\ Reply(c, Go(c, "adopt")) /\ UNCHANGED faults
     \/ Go(c, "nativeUndo") /\ UNCHANGED <<body, faults>>
     \/ Fault("error") /\ Go(c, "nativeUndo") /\ UNCHANGED body
  /\ UNCHANGED <<Fixed, ent>>

\* Codes of NATIVE_COPY_FALLBACK_CODES lead to the portable copy, others to the
\* caller as they are.
GiveUpNative(c) ==
  Reply(c, \/ Settle(c, "failed")
           \/ op' = [op EXCEPT ![c].pc = "portable", ![c].old = op[c].made, ![c].made = None])

\* remove_created_target_checked: the comparison, then unlinkat by name.
NativeUndo(c) ==
  /\ Sent(c, "publish", "nativeUndo")
  /\ \/ ent[To(c)] = op[c].made /\ Send(c, "nativeRemove", To(c)) /\ UNCHANGED faults
     \/ ent[To(c)] # op[c].made /\ GiveUpNative(c) /\ UNCHANGED faults
     \/ Fault("error") /\ GiveUpNative(c)
  /\ UNCHANGED <<Fixed, ent, body>>

NativeRemove(c) ==
  /\ Sent(c, "publish", "nativeRemove") /\ GiveUpNative(c)
  /\ \/ Remove(c, To(c)) /\ UNCHANGED faults
     \/ Fault("error") /\ UNCHANGED <<ent, taken>>
  /\ UNCHANGED <<setup, up, body>>

\* fstat and rememberCreatedTarget, then the digest is taken from the target.
AdoptNative(c) ==
  /\ At(c, "publish", "adopt")
  /\ \/ /\ op' = [op EXCEPT ![c].pc = "verify", ![c].pub = TRUE,
                            ![c].read = body[op[c].made].data]
        /\ UNCHANGED faults
     \/ Fault("error") /\ Settle(c, "failed")
     \/ Fault("error") /\ op' = [op EXCEPT ![c].pc = "undo", ![c].pub = TRUE]
  /\ UNCHANGED <<Fixed, ent, body>>

CreateCopy(c) ==
  /\ At(c, "publish", "create") \/ At(c, "publish", "portable")
  /\ Exists(c) \/ CreateTarget(c, "admit")
  /\ UNCHANGED <<Fixed, faults>>

\* fstat and rememberCreatedTarget; without them the error is thrown as it came, and
\* the empty target stays.
AdmitCopy(c) ==
  /\ At(c, "publish", "admit")
  /\ \/ op' = [op EXCEPT ![c].pc = "fill", ![c].pub = TRUE] /\ UNCHANGED faults
     \/ Fault("error") /\ Settle(c, "failed")
  /\ UNCHANGED <<Fixed, ent, body>>

\* Both descriptors are open, so names do not matter.
FillCopy(c) ==
  /\ At(c, "publish", "fill")
  /\ \/ /\ body' = [body EXCEPT ![op[c].made] = [data |-> body[op[c].src].data, whole |-> TRUE]]
        /\ op' = [op EXCEPT ![c].pc = "verify", ![c].read = body[op[c].src].data]
        /\ UNCHANGED faults
     \/ Fault("error") /\ Undoes(c) /\ UNCHANGED body
  /\ UNCHANGED <<Fixed, ent>>

\* The target is the call's and the source is where it has to be.
InPlace(c) ==
  /\ ent[To(c)] = op[c].made
  /\ ent[From(c)] = IF Way(c) = "rename" THEN None ELSE op[c].src
Copied(c) == op[c].made # op[c].src
Fenced(c) ==
  Copied(c) => op[c].read = body[op[c].src].data /\ op[c].read = body[op[c].made].data

\* The link-unlink pair of a rename must have become one name.
Single(c) == Way(c) = "rename" /\ ~setup.noreplace => Links(op[c].made) = 1

VerifyTarget(c) ==
  /\ At(c, "publish", "verify")
  /\ IF InPlace(c) /\ Fenced(c) /\ Single(c) THEN Go(c, "sync") ELSE Undoes(c)
  /\ UNCHANGED <<Fixed, ent, body, faults>>

\* parent.sync; its failure is where onSyncFailure counts.
SyncParent(c) ==
  /\ At(c, "publish", "sync")
  /\ \/ Go(c, "finish") /\ UNCHANGED faults
     \/ /\ Fault("error")
        /\ IF setup.task[c].keep THEN Settle(c, "preserved") ELSE Undoes(c)
  /\ UNCHANGED <<Fixed, ent, body>>

FinishPublication(c) ==
  /\ At(c, "publish", "finish")
  /\ IF InPlace(c) /\ Single(c) THEN Settle(c, "ok") ELSE Undoes(c)
  /\ UNCHANGED <<Fixed, ent, body, faults>>

\* removeCreatedTargetIfUnchanged: the check, then rm by path.
CheckUndo(c) ==
  /\ At(c, "publish", "undo")
  /\ \/ /\ UNCHANGED faults
        /\ CASE ent[To(c)] = op[c].made -> Send(c, "remove", To(c))
             [] ent[To(c)] = None       -> Settle(c, "removed")
             [] OTHER                   -> Settle(c, "preserved")
     \/ Fault("error") /\ Settle(c, "unknown")
  /\ UNCHANGED <<Fixed, ent, body>>

RemoveCreated(c) ==
  /\ Sent(c, "publish", "remove")
  /\ \/ Remove(c, To(c)) /\ Reply(c, Settle(c, "removed")) /\ UNCHANGED faults
     \/ Fault("error") /\ Reply(c, Settle(c, "unknown")) /\ UNCHANGED <<ent, taken>>
  /\ UNCHANGED <<setup, up, body>>

\* renameat2(RENAME_NOREPLACE), synchronous and by name; a reply may be lost.
RenameSource(c) ==
  /\ At(c, "publish", "rename")
  /\ \/ /\ ent[From(c)] # None /\ ent[To(c)] = None /\ Rename(From(c), To(c))
        /\ \/ Created(c, op[c].src, "verify") /\ UNCHANGED faults
           \/ Fault("lost") /\ Settle(c, "failed")
     \/ /\ (ent[From(c)] = None \/ ent[To(c)] # None)
        /\ Settle(c, "failed") /\ UNCHANGED <<ent, faults>>
  /\ UNCHANGED <<Fixed, body>>

\* publishRenameFallback: a source with one name is linked, and the pair checked.
CheckSingle(c) ==
  /\ At(c, "publish", "single")
  /\ IF setup.hard /\ ent[From(c)] = op[c].src /\ Links(op[c].src) = 1
     THEN Go(c, "pair") ELSE Settle(c, "failed")
  /\ UNCHANGED <<Fixed, ent, body, faults>>

LinkPair(c) ==
  /\ At(c, "publish", "pair")
  /\ \/ /\ ent[From(c)] # None /\ ent[To(c)] = None
        /\ Put(To(c), ent[From(c)]) /\ Created(c, op[c].src, "checkPair")
     \/ /\ (ent[From(c)] = None \/ ent[To(c)] # None)
        /\ Settle(c, "failed") /\ UNCHANGED ent
  /\ UNCHANGED <<Fixed, body, faults>>

CheckPair(c) ==
  /\ At(c, "publish", "checkPair")
  /\ IF /\ ent[From(c)] = op[c].src /\ ent[To(c)] = op[c].src
        /\ Links(op[c].src) = 2
     THEN Send(c, "unlink", From(c)) ELSE Settle(c, "preserved")
  /\ UNCHANGED <<Fixed, ent, body, faults>>

\* removeStagedFile looks once more, which does not close the gap.
UnlinkSource(c) ==
  /\ At(c, "publish", "unlink")
  /\ \/ Remove(c, From(c)) /\ Go(c, "verify") /\ UNCHANGED faults
     \/ /\ ent[From(c)] \notin {None, op[c].src} /\ Settle(c, "preserved")
        /\ UNCHANGED <<ent, faults, taken>>
     \/ Fault("error") /\ Settle(c, "preserved") /\ UNCHANGED <<ent, taken>>
  /\ UNCHANGED <<setup, up, body>>

PublicationStep(c) ==
  \/ OpenSource(c) \/ CheckSource(c) \/ LinkTarget(c)
  \/ CreateNative(c) \/ NativeCopy(c) \/ NativeUndo(c) \/ NativeRemove(c) \/ AdoptNative(c)
  \/ CreateCopy(c) \/ AdmitCopy(c) \/ FillCopy(c)
  \/ VerifyTarget(c) \/ SyncParent(c) \/ FinishPublication(c)
  \/ CheckUndo(c) \/ RemoveCreated(c)
  \/ RenameSource(c) \/ CheckSingle(c) \/ LinkPair(c) \/ CheckPair(c) \/ UnlinkSource(c)
=============================================================================
