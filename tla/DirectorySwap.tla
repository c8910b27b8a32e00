---------------------------- MODULE DirectorySwap ----------------------------
(***************************************************************************)
(* replaceDirectoryAtomic (replace-directory.ts, retained-directory-       *)
(* replacement.ts): the target directory is renamed to the private name,   *)
(* the staged one to the target, and the original removed.  A rename that  *)
(* fails for an ordinary reason may have happened on a remote file system, *)
(* so only what certainly did not happen is rolled back.                   *)
(***************************************************************************)
EXTENDS Entries

Idle == {"idle", "settled"}

\* serializePathWrite: one call for a target of a process at a time.
MyTurn(c) ==
  \A d \in Calls \ {c} :
    setup.task[d].kind = "swap" /\ Home(d) = Home(c) /\ To(d) = To(c) => op[d].pc \in Idle

Admit(c) ==
  /\ At(c, "swap", "idle") /\ MyTurn(c)
  /\ IF ent[From(c)] = None THEN Settle(c, "failed")
     ELSE op' = [op EXCEPT ![c].src = ent[From(c)], ![c].old = ent[To(c)],
                           ![c].pc = IF ent[To(c)] = None THEN "place" ELSE "backup"]
  /\ UNCHANGED <<Fixed, ent, body, faults>>

\* renameRetainedDirectory: the check, the rename by name, and the observation of
\* what arrived.  No-replace renames end in success, or in an error after
\* which the outcome is known (unsupported) or not.
Moves(a, b) == ent[a] # None /\ ent[b] = None
Fails(a, b) ==
  \/ ~Moves(a, b) /\ UNCHANGED <<ent, faults>>
  \/ Fault("error") /\ UNCHANGED ent
  \/ Moves(a, b) /\ Fault("lost") /\ Rename(a, b)

CheckBackup(c) ==
  /\ At(c, "swap", "backup")
  /\ IF ent[To(c)] = op[c].old THEN Go(c, "backupRename") ELSE Settle(c, "failed")
  /\ UNCHANGED <<Fixed, ent, body, faults>>

RenameBackup(c) ==
  /\ At(c, "swap", "backupRename")
  /\ \/ Moves(To(c), c) /\ Rename(To(c), c) /\ Go(c, "backupCheck") /\ UNCHANGED faults
     \/ Fails(To(c), c) /\ Settle(c, "indeterminate")
     \/ Fault("error") /\ Settle(c, "failed") /\ UNCHANGED ent
  /\ UNCHANGED <<Fixed, body>>

ObserveBackup(c) ==
  /\ At(c, "swap", "backupCheck")
  /\ Go(c, IF ent[c] = op[c].old THEN "place" ELSE "rollback")
  /\ UNCHANGED <<Fixed, ent, body, faults>>

\* Nothing was published: back to the original, where there is one.
Unpublished(c) == IF op[c].old = None THEN Settle(c, "failed") ELSE Go(c, "rollback")

CheckPlace(c) ==
  /\ At(c, "swap", "place")
  /\ IF ent[From(c)] = op[c].src THEN Go(c, "placeRename") ELSE Unpublished(c)
  /\ UNCHANGED <<Fixed, ent, body, faults>>

\* The backup, where there is one, is kept and its path told.
Keeps(c) == Settle(c, IF op[c].old = None THEN "indeterminate" ELSE "backup")

RenamePlace(c) ==
  /\ At(c, "swap", "placeRename")
  /\ \/ /\ Moves(From(c), To(c)) /\ Rename(From(c), To(c)) /\ UNCHANGED faults
        /\ op' = [op EXCEPT ![c].pc = "placeCheck", ![c].pub = TRUE, ![c].made = op[c].src]
     \/ Fails(From(c), To(c)) /\ Keeps(c)
     \/ Fault("error") /\ Unpublished(c) /\ UNCHANGED ent
  /\ UNCHANGED <<Fixed, body>>

ObservePlace(c) ==
  /\ At(c, "swap", "placeCheck")
  /\ CASE ent[To(c)] # op[c].src                       -> Keeps(c)
       [] ent[To(c)] = op[c].src /\ op[c].old = None -> Settle(c, "ok")
       [] ent[To(c)] = op[c].src /\ op[c].old # None -> Go(c, "clean")
  /\ UNCHANGED <<Fixed, ent, body, faults>>

CheckClean(c) ==
  /\ At(c, "swap", "clean")
  /\ IF ent[c] = op[c].old THEN Go(c, "cleaning") ELSE Settle(c, "backup")
  /\ UNCHANGED <<Fixed, ent, body, faults>>

\* removeOwnedTree: through the retained descriptor, so of the original only.
RemoveOriginal(c) ==
  /\ Sent(c, "swap", "cleaning")
  /\ \/ /\ ent[c] = op[c].old /\ Put(c, None)
        /\ Reply(c, Settle(c, "ok")) /\ UNCHANGED <<body, faults>>
     \/ /\ ent[c] # op[c].old
        /\ Reply(c, Settle(c, "incomplete")) /\ UNCHANGED <<ent, body, faults>>
     \/ /\ Fault("error") /\ Reply(c, Settle(c, "incomplete")) /\ UNCHANGED ent
        /\ body' = [body EXCEPT ![op[c].old].whole = FALSE]
  /\ UNCHANGED Fixed

CheckRollback(c) ==
  /\ At(c, "swap", "rollback")
  /\ IF ent[c] = op[c].old THEN Go(c, "rollbackRename") ELSE Settle(c, "backup")
  /\ UNCHANGED <<Fixed, ent, body, faults>>

RenameRollback(c) ==
  /\ At(c, "swap", "rollbackRename")
  /\ \/ Moves(c, To(c)) /\ Rename(c, To(c)) /\ Go(c, "rollbackCheck") /\ UNCHANGED faults
     \/ Fails(c, To(c)) /\ Settle(c, "indeterminate")
     \/ Fault("error") /\ Settle(c, "backup") /\ UNCHANGED ent
  /\ UNCHANGED <<Fixed, body>>

ObserveRollback(c) ==
  /\ At(c, "swap", "rollbackCheck")
  /\ Settle(c, IF ent[To(c)] = op[c].old THEN "restored" ELSE "unverified")
  /\ UNCHANGED <<Fixed, ent, body, faults>>

SwapStep(c) ==
  \/ Admit(c) \/ CheckBackup(c) \/ RenameBackup(c) \/ ObserveBackup(c)
  \/ CheckPlace(c) \/ RenamePlace(c) \/ ObservePlace(c)
  \/ CheckClean(c) \/ RemoveOriginal(c)
  \/ CheckRollback(c) \/ RenameRollback(c) \/ ObserveRollback(c)
=============================================================================
