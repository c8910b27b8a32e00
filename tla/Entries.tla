------------------------------- MODULE Entries -------------------------------
(***************************************************************************)
(* One directory and the processes that publish, swap, move and clean up   *)
(* entries of it, with foreign programs.  Publication, DirectorySwap,      *)
(* MovePath and TempWorkspace add the steps of their calls, Placement      *)
(* composes them.                                                          *)
(*                                                                         *)
(* An entry is a name and the object it refers to; objects are numbered    *)
(* and never reused, as the identities of a check are held open.  Every    *)
(* call has one private name, the random one it makes up: the stage of a   *)
(* move, the backup of a swap, the quarantine of a workspace.  Operations  *)
(* by path take effect in a step after the check they rely on.             *)
(***************************************************************************)
EXTENDS Naturals, Sequences, FiniteSets

CONSTANTS
  Calls,
  Procs,
  Names,
  Setups,      \* the situations to choose from
  MaxFaults,   \* bound: failures, lost replies, crashes and foreign changes
  FaultKinds

None == 0

Ways == {"copy", "link", "rename", "replace", "direct", "reject", "native", "path"}
Task == [kind: {"publish", "swap", "move", "workspace"}, home: Procs,
         from: Names, to: Names, way: Ways,
         keep: BOOLEAN]            \* onSyncFailure is preserve

WaysOf(kind) == CASE kind = "publish"   -> {"copy", "link", "rename"}
                  [] kind = "swap"      -> {"replace"}
                  [] kind = "move"      -> {"direct", "reject"}
                  [] kind = "workspace" -> {"native", "path"}

\* The calls for directories, and the names a call is given.
ForTrees(s) == {c \in Calls : s.task[c].kind \in {"swap", "workspace"}}
Given(s, c) == {s.task[c].from, s.task[c].to}

\* start: the objects of the names at first; hard, noreplace: what the file system
\* supports; cross: source and target of a move are on different devices.  The type
\* of an entry is not modelled, nor the refusals that depend on it.  The situations
\* are those in which they do not arise: calls for directories and calls for files
\* have names of their own, which leaves out a file given a name that a swap has just
\* vacated.  A directory has one name, as no file system here links it twice.  The
\* name of a workspace is the random one of mkdtemp, that of no other call.
ASSUME EntriesAssumption ==
  /\ \A s \in Setups :
       /\ s.task \in [Calls -> Task] /\ s.start \in [Names -> Nat]
       /\ {s.hard, s.noreplace, s.cross} \subseteq BOOLEAN
       /\ \E m \in Names : \A n \in Names : s.start[n] <= s.start[m]
       /\ \A c \in Calls : s.task[c].way \in WaysOf(s.task[c].kind)
       /\ \A c \in ForTrees(s) :
            /\ \A d \in Calls \ ForTrees(s) : Given(s, c) \cap Given(s, d) = {}
            /\ \A n \in Given(s, c) : \A m \in Names \ {n} :
                 s.start[n] # None => s.start[m] # s.start[n]
       /\ \A c \in Calls : s.task[c].kind = "workspace" =>
            /\ s.task[c].to = s.task[c].from
            /\ \A d \in Calls \ {c} : s.task[c].from \notin Given(s, d)
  /\ Calls \cap Names = {} /\ IsFiniteSet(Calls) /\ IsFiniteSet(Names)
  /\ MaxFaults \in Nat
  /\ FaultKinds \subseteq {"error", "lost", "crash", "exit", "put", "take", "edit"}

VARIABLES
  setup,
  ent,    \* the object of a name, or None
  body,   \* the content of an object
  op,     \* the state of a call
  up,     \* "up", "exiting" (the handlers of exit run), "exited" or "crashed"
  faults,
  taken   \* history: the objects that lost a name to a foreign program, to the replacing
          \* rename of a move, or to a removal in the gap after its check

vars == <<setup, ent, body, op, up, faults, taken>>
Fixed == <<setup, up, taken>>

Home(c) == setup.task[c].home
From(c) == setup.task[c].from
To(c)   == setup.task[c].to
Way(c)  == setup.task[c].way

\* src, old: identities the call recorded of its source and of the target, for a
\* publication old is what its addon gave up on; made: the object it created or
\* published; print: fingerprint of the source before it was copied; read: the data
\* copied; pub: it knows the object published, or created as a target; reg: its
\* private name or workspace is registered for exit; exit: what the handler did
\* about that; told: the outcome given to the caller, "unadmitted" an error thrown
\* between the creation of a stage or workspace and its registration.  seen is history: what was at
\* the path when the removal under way was sent.
NewOp == [pc |-> "idle", src |-> None, old |-> None, made |-> None,
          print |-> [id |-> None, data |-> 0, links |-> 0], read |-> 0, pub |-> FALSE,
          reg |-> FALSE, exit |-> "no", told |-> "none", seen |-> None]

Objects  == 1..Len(body)
Links(i) == Cardinality({n \in DOMAIN ent : ent[n] = i})
\* The fingerprint: identity, link count; size and times stand for the data.
Fingerprint(i) == [id |-> i, data |-> body[i].data, links |-> Links(i)]

-----------------------------------------------------------------------------
(* Parts of the steps.                                                     *)

Put(n, i) == ent' = [ent EXCEPT ![n] = i]
\* rename(2) of two names of one object does nothing.
Rename(a, b) ==
  ent' = IF ent[a] = ent[b] THEN ent ELSE [ent EXCEPT ![b] = ent[a], ![a] = None]
\* A move replaces the object of the target.
Replace(a, b) == Rename(a, b) /\ taken' = taken \cup {ent[b]}
\* A removal by path takes what is there, not what was checked.
Remove(c, n) == Put(n, None) /\ taken' = taken \cup ({ent[n]} \ {op[c].seen})
Create(n, data, whole) ==
  /\ body' = Append(body, [data |-> data, whole |-> whole])
  /\ Put(n, Len(body) + 1)

Fault(kind) == kind \in FaultKinds /\ faults < MaxFaults /\ faults' = faults + 1

\* JavaScript of the process runs; a call that was sent to the kernel or to a
\* worker thread goes on while the handlers of exit run.
At(c, kind, pc) ==
  /\ setup.task[c].kind = kind /\ op[c].pc = pc
  /\ \/ up[Home(c)] = "up"
     \/ up[Home(c)] = "exiting" /\ op[c].exit = "cleanup"
Sent(c, kind, pc) ==
  /\ setup.task[c].kind = kind /\ op[c].pc = pc
  /\ up[Home(c)] \in {"up", "exiting"}

Go(c, pc)      == op' = [op EXCEPT ![c].pc = pc]
Send(c, pc, n) == op' = [op EXCEPT ![c].pc = pc, ![c].seen = ent[n]]
Settle(c, told) ==
  op' = [op EXCEPT ![c].pc = "settled", ![c].told = told, ![c].reg = FALSE]
\* What was sent takes effect; in a process that exits nobody hears of it.
Reply(c, A) ==
  IF up[Home(c)] = "up" \/ op[c].exit = "cleanup" THEN A ELSE Go(c, "void")

-----------------------------------------------------------------------------
(* The environment.                                                        *)

\* A foreign program gives a name another object; private names are random, so
\* only once they exist.
Intrude(n) ==
  /\ n \in Calls => ent[n] # None
  /\ \/ Fault("put") /\ Create(n, Len(body) + 1, TRUE)
     \/ Fault("take") /\ ent[n] # None /\ Put(n, None) /\ UNCHANGED body
  /\ taken' = taken \cup {ent[n]}
  /\ UNCHANGED <<setup, op, up>>

\* A foreign program changes an object in place.
Edit(n) ==
  /\ ent[n] # None /\ Fault("edit")
  /\ body' = [body EXCEPT ![ent[n]].data = @ + 10]
  /\ UNCHANGED <<setup, ent, op, up, taken>>

Crash(p) ==
  /\ up[p] \in {"up", "exiting"} /\ Fault("crash")
  /\ up' = [up EXCEPT ![p] = "crashed"]
  /\ UNCHANGED <<setup, ent, body, op, taken>>

\* The process ends between two turns of its JavaScript: a cleanup of a workspace
\* reaches its removal in one turn.
Exit(p) ==
  /\ up[p] = "up" /\ "exit" \in FaultKinds
  /\ \A c \in Calls : Home(c) = p => op[c].pc \notin {"prepare", "hide", "hidden", "confirm"}
  /\ up' = [up EXCEPT ![p] = "exiting"]
  /\ UNCHANGED <<setup, ent, body, op, faults, taken>>

\* Every registered entry was handled.
EndExit(p) ==
  /\ up[p] = "exiting"
  /\ \A c \in Calls : Home(c) = p /\ op[c].reg => op[c].exit \in {"done", "pending"}
  /\ up' = [up EXCEPT ![p] = "exited"]
  /\ UNCHANGED <<setup, ent, body, op, faults, taken>>

\* Names and objects of the start.
EntriesInit ==
  /\ setup \in Setups
  /\ ent = [n \in Names \cup Calls |-> IF n \in Names THEN setup.start[n] ELSE None]
  /\ LET count == CHOOSE k \in {setup.start[n] : n \in Names} :
                    \A n \in Names : setup.start[n] <= k
     IN  body = [i \in 1..count |-> [data |-> i, whole |-> TRUE]]
  /\ op = [c \in Calls |-> NewOp]
  /\ up = [p \in Procs |-> "up"]
  /\ faults = 0
  /\ taken = {}
=============================================================================
