------------------------------ MODULE MovePath ------------------------------
(***************************************************************************)
(* movePathWithCopyFallback (move-path*.ts, guarded-mutation.ts) for one   *)
(* file: a rename, or across devices and where hardlinks are rejected a    *)
(* copy at the private name that is renamed over the target, after which   *)
(* the source is unlinked if it is still what was copied.                  *)
(***************************************************************************)
EXTENDS Entries

\* preflightSourceHardlinks.
StartMove(c) ==
  /\ At(c, "move", "idle")
  /\ CASE ent[From(c)] = None -> Settle(c, "failed")
       [] ent[From(c)] # None /\ Way(c) = "reject" ->
            IF Links(ent[From(c)]) > 1 THEN Settle(c, "failed") ELSE Go(c, "inspect")
       [] ent[From(c)] # None /\ Way(c) = "direct" -> Go(c, "direct")
  /\ UNCHANGED <<Fixed, ent, body, faults>>

\* EXDEV leads to the copy; assertBeforeRename may refuse, which does not.
RenameDirect(c) ==
  /\ Sent(c, "move", "direct")
  /\ \/ /\ ~setup.cross /\ ent[From(c)] # None /\ Replace(From(c), To(c))
        /\ Reply(c, Settle(c, "ok")) /\ UNCHANGED faults
     \/ /\ setup.cross /\ ent[From(c)] # None
        /\ Reply(c, Go(c, "inspect")) /\ UNCHANGED <<ent, faults, taken>>
     \/ /\ ent[From(c)] = None
        /\ Reply(c, Settle(c, "failed")) /\ UNCHANGED <<ent, faults, taken>>
     \/ Fault("error") /\ Reply(c, Settle(c, "failed")) /\ UNCHANGED <<ent, taken>>
  /\ UNCHANGED <<setup, up, body>>

\* assertCopyDestinationOutsideSource takes the fingerprint.
InspectSource(c) ==
  /\ At(c, "move", "inspect")
  /\ IF ent[From(c)] = None THEN Settle(c, "failed")
     ELSE op' = [op EXCEPT ![c].print = Fingerprint(ent[From(c)]), ![c].pc = "stage"]
  /\ UNCHANGED <<Fixed, ent, body, faults>>

\* What the call knows of its source still holds.
\* Fault seeded in SameSource: only the identity is compared.
SameSourceIdentity(c) == ent[From(c)] # None /\ ent[From(c)] = op[c].print.id
SameSource(c) == ent[From(c)] # None /\ Fingerprint(ent[From(c)]) = op[c].print

\* The source is opened and compared, then the stage created.
CreateStage(c) ==
  /\ At(c, "move", "stage")
  /\ \/ /\ SameSource(c) /\ (Way(c) = "reject" => op[c].print.links = 1)
        /\ Create(c, 0, FALSE)
        /\ op' = [op EXCEPT ![c].pc = "record", ![c].made = Len(body) + 1]
     \/ /\ ~SameSource(c) \/ (Way(c) = "reject" /\ op[c].print.links # 1)
        /\ Settle(c, "failed") /\ UNCHANGED <<ent, body>>
  /\ UNCHANGED <<Fixed, faults>>

\* fstat and stage.record, after the await of the open; without a record no cleanup
\* removes the stage.
RecordStage(c) ==
  /\ At(c, "move", "record")
  /\ \/ op' = [op EXCEPT ![c].pc = "copy", ![c].reg = TRUE] /\ UNCHANGED faults
     \/ Fault("error") /\ Settle(c, "unadmitted")
  /\ UNCHANGED <<Fixed, ent, body>>

\* Fault seeded in CopySource: a copy that failed is taken for complete.
CopySourceLax(c) ==
  /\ At(c, "move", "copy")
  /\ \/ /\ body' = [body EXCEPT ![op[c].made] =
                      [data |-> body[op[c].print.id].data, whole |-> TRUE]]
        /\ op' = [op EXCEPT ![c].pc = "recheck", ![c].read = body[op[c].print.id].data]
        /\ UNCHANGED faults
     \/ Fault("error") /\ Go(c, "recheck") /\ UNCHANGED body
  /\ UNCHANGED <<Fixed, ent>>
CopySource(c) ==
  /\ At(c, "move", "copy")
  /\ \/ /\ body' = [body EXCEPT ![op[c].made] =
                      [data |-> body[op[c].print.id].data, whole |-> TRUE]]
        /\ op' = [op EXCEPT ![c].pc = "recheck", ![c].read = body[op[c].print.id].data]
        /\ UNCHANGED faults
     \/ Fault("error") /\ Go(c, "drop") /\ UNCHANGED body
  /\ UNCHANGED <<Fixed, ent>>

RecheckSource(c) ==
  /\ At(c, "move", "recheck")
  /\ Go(c, IF SameSource(c) THEN "commit" ELSE "drop")
  /\ UNCHANGED <<Fixed, ent, body, faults>>

\* assertBeforeRename, stage.assertCurrent and the dispatch of the rename.
SendCommit(c) ==
  /\ At(c, "move", "commit")
  /\ \/ ent[c] = op[c].made /\ Go(c, "rename") /\ UNCHANGED faults
     \/ ent[c] # op[c].made /\ Go(c, "drop") /\ UNCHANGED faults
     \/ Fault("error") /\ Go(c, "drop")
  /\ UNCHANGED <<Fixed, ent, body>>

CommitStage(c) ==
  /\ Sent(c, "move", "rename")
  /\ \/ ent[c] # None /\ Replace(c, To(c)) /\ Reply(c, Go(c, "renamed")) /\ UNCHANGED faults
     \/ ent[c] = None /\ Reply(c, Go(c, "drop")) /\ UNCHANGED <<ent, faults, taken>>
     \/ Fault("error") /\ Reply(c, Go(c, "drop")) /\ UNCHANGED <<ent, taken>>
  /\ UNCHANGED <<setup, up, body>>

\* onRenamed: the stage is published, its registration ends.
NoteCommit(c) ==
  /\ At(c, "move", "renamed")
  /\ op' = [op EXCEPT ![c].pc = "published", ![c].pub = TRUE, ![c].reg = FALSE]
  /\ UNCHANGED <<Fixed, ent, body, faults>>

\* cleanupCopiedEntry: the guards, the caller's authority and the fingerprint.
CheckRemoval(c) ==
  /\ At(c, "move", "published")
  /\ \/ SameSource(c) /\ Send(c, "unlink", From(c)) /\ UNCHANGED faults
     \/ ent[From(c)] = None /\ Settle(c, "ok") /\ UNCHANGED faults
     \/ ent[From(c)] # None /\ ~SameSource(c) /\ Settle(c, "stale") /\ UNCHANGED faults
     \/ Fault("error") /\ Settle(c, "stale")
  /\ UNCHANGED <<Fixed, ent, body>>

RemoveSource(c) ==
  /\ Sent(c, "move", "unlink")
  /\ \/ Remove(c, From(c)) /\ Reply(c, Settle(c, "ok")) /\ UNCHANGED faults
     \/ Fault("error") /\ Reply(c, Settle(c, "stale")) /\ UNCHANGED <<ent, taken>>
  /\ UNCHANGED <<setup, up, body>>

\* stage.cleanup: a name that is not the stage any more is given up; after another
\* failure the registration stays.
CheckDrop(c) ==
  /\ At(c, "move", "drop")
  /\ IF ent[c] = op[c].made THEN Send(c, "dropping", c) ELSE Settle(c, "failed")
  /\ UNCHANGED <<Fixed, ent, body, faults>>

DropStage(c) ==
  /\ Sent(c, "move", "dropping")
  /\ \/ Remove(c, c) /\ Reply(c, Settle(c, "failed")) /\ UNCHANGED faults
     \/ /\ Fault("error") /\ UNCHANGED <<ent, taken>>
        /\ Reply(c, op' = [op EXCEPT ![c].pc = "settled", ![c].told = "failed"])
  /\ UNCHANGED <<setup, up, body>>

\* The handler of exit for a registered stage: the check, then rm.
ExitCheckStage(c) ==
  /\ setup.task[c].kind = "move" /\ up[Home(c)] = "exiting"
  /\ op[c].reg /\ op[c].exit = "no"
  /\ op' = IF ent[c] = op[c].made
           THEN [op EXCEPT ![c].exit = "remove", ![c].seen = ent[c]]
           ELSE [op EXCEPT ![c].exit = "done"]
  /\ UNCHANGED <<Fixed, ent, body, faults>>

ExitRemoveStage(c) ==
  /\ setup.task[c].kind = "move" /\ up[Home(c)] = "exiting" /\ op[c].exit = "remove"
  /\ \/ Remove(c, c) /\ UNCHANGED faults
     \/ Fault("error") /\ UNCHANGED <<ent, taken>>
  /\ op' = [op EXCEPT ![c].exit = "done"]
  /\ UNCHANGED <<setup, up, body>>

MoveStep(c) ==
  \/ StartMove(c) \/ RenameDirect(c) \/ InspectSource(c) \/ CreateStage(c)
  \/ RecordStage(c) \/ CopySource(c) \/ RecheckSource(c) \/ SendCommit(c)
  \/ CommitStage(c) \/ NoteCommit(c) \/ CheckRemoval(c) \/ RemoveSource(c)
  \/ CheckDrop(c) \/ DropStage(c) \/ ExitCheckStage(c) \/ ExitRemoveStage(c)
=============================================================================
