---------------------------- MODULE TempWorkspace ----------------------------
(***************************************************************************)
(* A private temporary workspace (private-temp-workspace.ts,               *)
(* temp-workspace-owner.ts): it is created and registered, and cleaned up  *)
(* once, by the caller or at exit: renamed to the private name, looked at  *)
(* there, and removed through its descriptor or by path.                   *)
(***************************************************************************)
EXTENDS Entries

\* mkdtemp makes up a name that is free.
CreateWorkspace(c) ==
  /\ At(c, "workspace", "idle") /\ ent[From(c)] = None
  /\ Create(From(c), 0, TRUE)
  /\ op' = [op EXCEPT ![c].pc = "created", ![c].made = Len(body) + 1]
  /\ UNCHANGED <<Fixed, faults>>

\* Admission looks at the child, then owner and registration.  Before that any check
\* of descriptor, mode, ancestry or capability may throw: the descriptors are closed,
\* the directory stays as it is.
AdmitWorkspace(c) ==
  /\ At(c, "workspace", "created")
  /\ \/ /\ ent[From(c)] = op[c].made /\ UNCHANGED faults
        /\ op' = [op EXCEPT ![c].pc = "open", ![c].reg = TRUE]
     \/ ent[From(c)] # op[c].made /\ Settle(c, "mismatch") /\ UNCHANGED faults
     \/ Fault("error") /\ Settle(c, "unadmitted")
  /\ UNCHANGED <<Fixed, ent, body>>

\* #finish: the first result counts, and an exit meanwhile makes it uncertain.
Finish(c, result) ==
  Settle(c, IF op[c].exit = "pending" THEN "indeterminate" ELSE result)

StartCleanup(c) ==
  /\ At(c, "workspace", "open")
  /\ Go(c, "prepare")
  /\ UNCHANGED <<Fixed, ent, body, faults>>

\* #prepare to the dispatch of the removal runs without an await.
PrepareCleanup(c) ==
  /\ At(c, "workspace", "prepare")
  /\ CASE ent[From(c)] = op[c].made          -> Go(c, "hide")
       [] ent[From(c)] = None                -> Finish(c, "missing")
       [] ent[From(c)] \notin {op[c].made, None} -> Finish(c, "mismatch")
  /\ UNCHANGED <<Fixed, ent, body, faults>>

\* The rename to the quarantine is by name; its reply may be lost.
HideWorkspace(c) ==
  /\ At(c, "workspace", "hide")
  /\ \/ ent[From(c)] # None /\ Rename(From(c), c) /\ Go(c, "hidden") /\ UNCHANGED faults
     \/ ent[From(c)] = None /\ Finish(c, "indeterminate") /\ UNCHANGED <<ent, faults>>
     \/ Fault("error") /\ Finish(c, "indeterminate") /\ UNCHANGED ent
     \/ Fault("lost") /\ Rename(From(c), c) /\ Finish(c, "indeterminate")
  /\ UNCHANGED <<Fixed, body>>

ObserveHidden(c) ==
  /\ At(c, "workspace", "hidden")
  /\ IF ent[c] # op[c].made THEN Finish(c, "indeterminate")
     ELSE IF Way(c) = "native" THEN Go(c, "erase") ELSE Go(c, "confirm")
  /\ UNCHANGED <<Fixed, ent, body, faults>>

\* removeOwnedTree: through the descriptor, so of the workspace only.
EraseOwned(c) ==
  /\ Sent(c, "workspace", "erase")
  /\ \/ /\ ent[c] = op[c].made /\ Put(c, None)
        /\ Reply(c, Finish(c, "removed")) /\ UNCHANGED <<body, faults>>
     \/ /\ ent[c] # op[c].made
        /\ Reply(c, Finish(c, "indeterminate")) /\ UNCHANGED <<ent, body, faults>>
     \/ /\ Fault("error") /\ Reply(c, Finish(c, "indeterminate")) /\ UNCHANGED ent
        /\ body' = [body EXCEPT ![op[c].made].whole = FALSE]
  /\ UNCHANGED Fixed

\* Compatible cleanup: assertQuarantine, then rm by path.
ConfirmHidden(c) ==
  /\ At(c, "workspace", "confirm")
  /\ IF ent[c] = op[c].made THEN Send(c, "erasePath", c) ELSE Finish(c, "indeterminate")
  /\ UNCHANGED <<Fixed, ent, body, faults>>

ErasePath(c) ==
  /\ Sent(c, "workspace", "erasePath")
  /\ \/ Remove(c, c) /\ Reply(c, Finish(c, "removed")) /\ UNCHANGED <<body, faults>>
     \/ /\ Fault("error") /\ Reply(c, Finish(c, "indeterminate")) /\ UNCHANGED <<ent, taken>>
        /\ body' = [body EXCEPT ![op[c].made].whole = FALSE]
  /\ UNCHANGED <<setup, up>>

\* The handler of exit: cleanupSync of a workspace; a cleanup under way is left to
\* the operation that was sent.
\* Fault seeded in ExitWorkspace: a cleanup under way is begun again.
ExitWorkspaceAgain(c) ==
  /\ setup.task[c].kind = "workspace" /\ up[Home(c)] = "exiting"
  /\ op[c].reg /\ op[c].exit = "no"
  /\ op' = [op EXCEPT ![c].exit = "cleanup", ![c].pc = "prepare"]
  /\ UNCHANGED <<Fixed, ent, body, faults>>
ExitWorkspace(c) ==
  /\ setup.task[c].kind = "workspace" /\ up[Home(c)] = "exiting"
  /\ op[c].reg /\ op[c].exit = "no"
  /\ op' = IF op[c].pc = "open"
           THEN [op EXCEPT ![c].exit = "cleanup", ![c].pc = "prepare"]
           ELSE [op EXCEPT ![c].exit = "pending"]
  /\ UNCHANGED <<Fixed, ent, body, faults>>

WorkspaceStep(c) ==
  \/ CreateWorkspace(c) \/ AdmitWorkspace(c) \/ StartCleanup(c) \/ PrepareCleanup(c)
  \/ HideWorkspace(c) \/ ObserveHidden(c) \/ EraseOwned(c)
  \/ ConfirmHidden(c) \/ ErasePath(c) \/ ExitWorkspace(c)
=============================================================================
