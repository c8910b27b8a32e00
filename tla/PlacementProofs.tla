---------------------------- MODULE PlacementProofs ----------------------------
(***************************************************************************)
(* Proofs about Placement, for every number of calls, processes and names, *)
(* every setup and every kind and number of faults.                        *)
(***************************************************************************)
EXTENDS Placement, SequenceTheorems, FiniteSetTheorems, TLAPS

\* No call's source is the target of a call or a link of another source.
SourcesApart ==
  \A s \in Setups : \A c, d \in Calls \ ForTrees(s) :
    /\ s.task[c].from # s.task[d].to
    /\ s.task[c].from # s.task[d].from /\ s.start[s.task[c].from] # None =>
         s.start[s.task[c].from] # s.start[s.task[d].from]

-----------------------------------------------------------------------------
(* The invariant.                                                          *)

Kind(c)  == setup.task[c].kind
Places   == Names \cup Calls
TreeCalls == ForTrees(setup)
TreeNames == TreeCalls \cup {n \in Names : \E c \in TreeCalls : n \in Given(setup, c)}
Sources   == {n \in Names : \E c \in Calls \ TreeCalls : n = From(c)}

Object == [data: Nat, whole: BOOLEAN]
Steps == {"idle", "settled", "void",
          "check", "link", "create", "native", "nativeUndo", "nativeRemove", "adopt",
          "portable", "admit", "fill", "verify", "sync", "finish", "undo", "remove",
          "rename", "single", "pair", "checkPair", "unlink",
          "backup", "backupRename", "backupCheck", "place", "placeRename", "placeCheck",
          "clean", "cleaning", "rollback", "rollbackRename", "rollbackCheck",
          "direct", "inspect", "stage", "record", "copy", "recheck", "commit",
          "renamed", "published", "drop", "dropping",
          "created", "open", "prepare", "hide", "hidden", "confirm", "erase", "erasePath"}
Outcomes == {"none", "ok", "failed", "preserved", "removed", "unknown", "backup",
             "indeterminate", "incomplete", "restored", "unverified", "stale", "missing",
             "mismatch", "unadmitted"}
OpState == [pc: Steps, src: Nat, old: Nat, made: Nat, print: [id: Nat, data: Nat, links: Nat],
            read: Nat, pub: BOOLEAN, reg: BOOLEAN,
            exit: {"no", "remove", "cleanup", "pending", "done"}, told: Outcomes, seen: Nat]

\* Objects are numbered as they are created.
Bounded(r, len) == r.src <= len /\ r.old <= len /\ r.made <= len /\ r.print.id <= len

Typed ==
  /\ setup \in Setups
  /\ ent \in [Places -> Nat] /\ body \in Seq(Object)
  /\ op \in [Calls -> OpState]
  /\ up \in [Procs -> {"up", "exiting", "exited", "crashed"}]
  /\ faults \in Nat
  /\ \A n \in Places : ent[n] <= Len(body)
  /\ \A c \in Calls : Bounded(op[c], Len(body))

Whole(n) == ent[n] # None => body[ent[n]].whole

\* A directory, and what a call keeps at its private name, has one name.
Sole ==
  \A n \in Calls \cup TreeNames : \A m \in Places \ {n} : ent[m] = ent[n] => ent[n] = None
Unaliased == \A m, n \in Sources : ent[m] = ent[n] /\ ent[n] # None => m = n

\* TargetWhole, at the target of the publication.
HalfAt(c, n) ==
  /\ Kind(c) = "publish" /\ Way(c) = "copy" /\ To(c) = n
  /\ \/ Unrecognised(c, ent[n])
     \/ /\ op[c].made = ent[n]
        /\ \/ op[c].pc \in {"fill", "undo", "remove", "void"}
           \/ op[c].pc = "settled" /\ op[c].told \in {"unknown", "preserved"}
Halves == \A n \in Names : ~Whole(n) => \E c \in Calls : HalfAt(c, n)

\* What goes for the steps of one kind of call.
Unknown == {"native", "nativeUndo", "nativeRemove", "adopt", "admit"}
Holding == Unknown \cup
  {"fill", "verify", "sync", "finish", "undo", "remove", "checkPair", "unlink"}
PublicationOK(c) ==
  /\ ent[c] = None
  /\ op[c].pc \in {"link", "create", "fill", "undo", "remove"} => Way(c) # "rename"
  /\ op[c].pc \in {"create", "portable", "fill"} \cup Unknown => Way(c) = "copy"
  /\ op[c].pc \in {"rename", "single", "pair", "checkPair", "unlink"} => Way(c) = "rename"
  /\ op[c].pc \notin {"idle", "settled", "void"} => op[c].src # None
  /\ op[c].pc \in Holding => op[c].made # None
  /\ op[c].pc \in {"idle", "check", "link", "create", "portable", "rename", "single", "pair"}
       => op[c].made = None
  /\ op[c].pc \in {"idle", "check", "link", "create", "portable"} \cup Unknown => ~op[c].pub
  /\ op[c].pc \in {"idle", "check", "link", "create", "native", "nativeUndo", "nativeRemove"}
       => op[c].old = None
  /\ op[c].pc \in {"fill"} \cup Unknown => op[c].made # op[c].src
  /\ op[c].pc \in {"checkPair", "unlink"} => op[c].made = op[c].src
  /\ op[c].pc \in {"remove", "nativeRemove"} => op[c].seen = op[c].made
  /\ op[c].pc = "unlink" => op[c].seen = op[c].src

MoveOK(c) ==
  /\ op[c].src = None /\ op[c].old = None
  /\ op[c].pc \in {"idle", "direct", "inspect", "stage"} => op[c].made = None
  /\ op[c].pc \in {"idle", "direct", "inspect", "stage", "renamed", "published", "unlink"}
       => ent[c] = None
  /\ op[c].pc \in {"published", "unlink"} => op[c].pub /\ ~op[c].reg
  /\ op[c].pc = "unlink" => op[c].seen = op[c].print.id
  /\ op[c].pc = "dropping" \/ op[c].exit = "remove" => op[c].seen = op[c].made
  /\ op[c].pc \in {"record", "copy"} => op[c].made # None
  /\ op[c].pc \in {"stage", "record", "copy", "recheck", "commit", "rename", "renamed",
                   "published"} => op[c].print.id # None
  /\ ent[c] = op[c].made /\ ent[c] # None =>
       /\ op[c].reg \/ op[c].pc = "record" \/ Unadmitted(c)
       /\ op[c].exit = "done" => faults > 0
  /\ op[c].exit \in {"no", "remove", "done"}

SwapOK(c) ==
  /\ op[c].old = None \/ op[c].pc \in {"idle", "backup", "backupRename", "rollbackCheck"}
       => ent[c] = None
  /\ op[c].pc \in {"placeCheck", "clean", "cleaning"} => op[c].pub
  /\ op[c].pc \in {"backup", "backupRename", "backupCheck", "rollback", "rollbackRename",
                   "clean", "cleaning"} => op[c].old # None
  /\ op[c].pc = "cleaning" => \A n \in Places \ {c} : ent[n] # op[c].old
  /\ op[c].pc = "settled" /\ ent[c] # None
       => op[c].told \in {"backup", "indeterminate", "incomplete"}

WorkspaceOK(c) ==
  /\ op[c].old = None
  /\ op[c].pc \in {"idle", "created", "open", "prepare", "hide"} => ent[c] = None
  /\ op[c].made = None <=> op[c].pc = "idle"
  /\ op[c].pc \in {"hidden", "confirm", "erase", "erasePath", "void"}
       => ent[From(c)] # op[c].made
  /\ op[c].pc \in {"erase", "erasePath"} => \A n \in Places \ {c} : ent[n] # op[c].made
  /\ op[c].pc = "erasePath" => op[c].seen = op[c].made
  /\ op[c].pc = "settled" /\ op[c].made \in {ent[c], ent[From(c)]}
       => op[c].told \in {"indeterminate", "unadmitted"}
  /\ op[c].pc \notin {"idle", "created", "settled"} => op[c].reg
  /\ op[c].exit \in {"no", "cleanup", "pending"}

CallOK(c) ==
  /\ Kind(c) = "publish" => PublicationOK(c)
  /\ Kind(c) = "move" => MoveOK(c)
  /\ Kind(c) = "swap" => SwapOK(c)
  /\ Kind(c) = "workspace" => WorkspaceOK(c)
  /\ up[Home(c)] = "up" => op[c].exit = "no"
  /\ up[Home(c)] = "exited" /\ op[c].reg => op[c].exit \in {"done", "pending"}

\* What a call created is at no source, and no directory.
Unfinished(c) ==
  \/ Kind(c) = "publish" /\ op[c].pc \in {"native", "admit", "fill"}
  \/ Kind(c) = "move" /\ op[c].pc \in {"record", "copy"}
MadeOK(c) ==
  /\ c \notin TreeCalls /\ op[c].made \notin {None, op[c].src} =>
       \A n \in Sources : ent[n] # op[c].made
  /\ Kind(c) = "move" /\ op[c].made # None =>
       /\ \A n \in TreeNames : ent[n] # op[c].made
       /\ \A d \in Calls : Kind(d) = "swap" => op[d].old # op[c].made
       /\ \A d \in Calls : Kind(d) = "workspace" => op[d].made # op[c].made

\* What a call puts under a name is whole: the stage once it was copied, a backup, what
\* the addon copied.
WholeOK(c) ==
  /\ Kind(c) = "publish" /\ op[c].pc = "adopt" /\ ent[To(c)] = op[c].made => Whole(To(c))
  /\ Kind(c) = "move" =>
       /\ op[c].pc \in {"record", "copy"} /\ ent[c] # op[c].made => Whole(c)
       /\ op[c].pc \in {"recheck", "commit", "rename"} => Whole(c)
  /\ Kind(c) = "swap" /\ op[c].pc \notin {"cleaning", "settled", "void"} => Whole(c)

\* What the copy of a move was made of.
CopyOK(c) ==
  Kind(c) = "move" =>
    /\ op[c].pc \in {"stage", "record", "copy"} =>
         op[c].print.data <= body[op[c].print.id].data
    /\ op[c].pc \in {"recheck", "commit", "rename", "renamed", "published"} =>
         /\ op[c].made # None /\ body[op[c].made].whole
         /\ op[c].print.data <= op[c].read /\ op[c].read <= body[op[c].print.id].data
    /\ op[c].pc \in {"stage", "record", "copy", "recheck", "commit", "rename", "renamed",
                     "published"} =>
         \A d \in Calls : Unfinished(d) => op[d].made # op[c].print.id

\* While a source is where a publication found it, so is the link the call made.
Held(c) ==
  /\ Kind(c) = "publish" /\ op[c].pc \in Holding
  /\ op[c].made = op[c].src /\ op[c].made \notin taken /\ ent[From(c)] = op[c].made
HeldOK ==
  /\ \A c \in Calls : Held(c) => ent[To(c)] = op[c].made
  /\ \A c, d \in Calls : Held(c) /\ Held(d) /\ To(c) = To(d) => c = d
  /\ \A c \in Calls : Kind(c) = "publish" /\ op[c].src # None =>
       \A n \in Sources : ent[n] = op[c].src => n = From(c)

Inv ==
  /\ Typed /\ Sole /\ \A c \in Calls : CallOK(c)
\* The two parts that need SourcesApart.
CopiesOK  == Halves /\ \A c \in Calls : MadeOK(c) /\ WholeOK(c) /\ CopyOK(c)
SourcesOK == Unaliased /\ HeldOK

-----------------------------------------------------------------------------
(* The situations.                                                         *)

LEMMA SituationType ==
  ASSUME setup \in Setups, NEW c \in Calls
  PROVE  /\ From(c) \in Names /\ To(c) \in Names /\ Home(c) \in Procs
         /\ Kind(c) \in {"publish", "swap", "move", "workspace"}
         /\ c \in TreeCalls <=> Kind(c) \in {"swap", "workspace"}
         /\ c \notin Names /\ c \in Places /\ From(c) \in Places /\ To(c) \in Places
         /\ Kind(c) = "publish" => Way(c) \in {"copy", "link", "rename"}
         /\ Kind(c) = "move" => Way(c) \in {"direct", "reject"}
         /\ Kind(c) = "workspace" => Way(c) \in {"native", "path"}
         /\ setup.hard \in BOOLEAN /\ setup.noreplace \in BOOLEAN /\ setup.cross \in BOOLEAN
         /\ setup.task[c].keep \in BOOLEAN
<1>1. setup.task[c] \in Task
  BY EntriesAssumption
<1>2. setup.task[c].way \in WaysOf(setup.task[c].kind)
  BY EntriesAssumption
<1>3. {setup.hard, setup.noreplace, setup.cross} \subseteq BOOLEAN /\ Calls \cap Names = {}
  BY EntriesAssumption
<1> QED BY <1>1, <1>2, <1>3 DEF Task, WaysOf, Kind, From, To, Way, Home, Places, TreeCalls, ForTrees

\* The names of directories, of files and the private names are different.
LEMMA NamesApart ==
  ASSUME setup \in Setups, NEW c \in Calls
  PROVE  /\ c \in TreeCalls => {c, From(c), To(c)} \subseteq TreeNames
         /\ c \notin TreeCalls => {c, From(c), To(c)} \cap TreeNames = {}
         /\ TreeNames \subseteq Places /\ Sources \subseteq Names
         /\ Sources \cap TreeNames = {}
         /\ c \notin TreeCalls => From(c) \in Sources
         /\ Kind(c) = "workspace" =>
              /\ To(c) = From(c)
              /\ \A d \in Calls \ {c} : From(c) \notin {From(d), To(d)}
<1>1. \A x \in TreeCalls, d \in Calls \ TreeCalls : Given(setup, x) \cap Given(setup, d) = {}
  BY EntriesAssumption DEF TreeCalls
<1>2. \A d \in Calls : /\ From(d) \in Names /\ To(d) \in Names /\ d \notin Names
                      /\ Given(setup, d) = {From(d), To(d)}
  BY SituationType DEF Given, From, To
<1>3. TreeCalls \subseteq Calls
  BY DEF TreeCalls, ForTrees
<1>4. c \notin TreeCalls => {c, From(c), To(c)} \cap TreeNames = {}
  BY <1>1, <1>2, <1>3 DEF TreeNames
<1>5. Sources \cap TreeNames = {}
  BY <1>1, <1>2, <1>3 DEF TreeNames, Sources
<1>6. Kind(c) = "workspace" =>
              /\ To(c) = From(c)
              /\ \A d \in Calls \ {c} : From(c) \notin {From(d), To(d)}
  BY EntriesAssumption DEF Kind, From, To, Given
<1>7. c \in TreeCalls => {c, From(c), To(c)} \subseteq TreeNames
  BY <1>2 DEF TreeNames
<1>8. TreeNames \subseteq Places /\ Sources \subseteq Names /\ (c \notin TreeCalls => From(c) \in Sources)
  BY <1>2, <1>3 DEF Sources, TreeNames, Places
<1> QED BY <1>4, <1>5, <1>6, <1>7, <1>8

\* With sources apart: no source is a target.
LEMMA SourceNoTarget ==
  ASSUME SourcesApart, setup \in Setups, NEW c \in Calls, c \notin TreeCalls
  PROVE  To(c) \notin Sources
BY DEF SourcesApart, Sources, TreeCalls, From, To

-----------------------------------------------------------------------------
(* What a step of a call does to names and objects.                        *)

LEMMA Edited ==
  ASSUME body \in Seq(Object), NEW i \in 1..Len(body), NEW v \in Object
  PROVE  /\ [body EXCEPT ![i] = v] \in Seq(Object)
         /\ Len([body EXCEPT ![i] = v]) = Len(body)
         /\ \A j \in 1..Len(body) : [body EXCEPT ![i] = v][j] = IF j = i THEN v ELSE body[j]
BY ExceptSeq

LEMMA Appended ==
  ASSUME body \in Seq(Object), NEW v \in Object
  PROVE  /\ Append(body, v) \in Seq(Object)
         /\ Len(Append(body, v)) = Len(body) + 1
         /\ \A j \in 1..Len(body) : Append(body, v)[j] = body[j]
         /\ Append(body, v)[Len(body) + 1] = v
BY AppendProperties

Mine(c) == {c, From(c), To(c)}

\* Nothing happens to the names, or one of the call's loses its object, another
\* gets it, or a link of it, or a new object.
Shape(c) ==
  \/ ent' = ent
  \/ \E n \in Mine(c) : ent' = [ent EXCEPT ![n] = None]
  \/ \E a, b \in Mine(c) : /\ a # b /\ (c \notin TreeCalls => b = To(c))
                           /\ ent' = [ent EXCEPT ![b] = ent[a], ![a] = None]
  \/ /\ Kind(c) = "publish" /\ ent[From(c)] # None /\ ent[To(c)] = None
     /\ ent' = [ent EXCEPT ![To(c)] = ent[From(c)]]
  \/ \E n \in Mine(c) : /\ Len(body') = Len(body) + 1 /\ (c \notin TreeCalls => n \in {c, To(c)})
                        /\ ent' = [ent EXCEPT ![n] = Len(body) + 1]

Contents(c) ==
  /\ body' \in Seq(Object) /\ Len(body) <= Len(body')
  /\ \A i \in 1..Len(body) :
       /\ body[i].data <= body'[i].data \/ (Unfinished(c) /\ i = op[c].made)
       /\ body[i].whole /\ ~body'[i].whole => ent' = ent
       /\ body[i].whole /\ ~body'[i].whole =>
            \/ Kind(c) = "swap" /\ op[c].pc = "cleaning" /\ i = op[c].old
            \/ Kind(c) = "workspace" /\ op[c].pc \in {"erase", "erasePath"} /\ i = op[c].made

\* The step is one of the call c.
Turns(c) == op' = [op EXCEPT ![c] = op'[c]] /\ op'[c] \in OpState

Frame(c) ==
  /\ setup' = setup /\ up' = up
  /\ faults' \in Nat /\ faults <= faults' /\ taken \subseteq taken'
  /\ Turns(c) /\ Bounded(op'[c], Len(body'))

Effect(c) == Frame(c) /\ Shape(c) /\ Contents(c)

LEMMA ObjectType ==
  ASSUME Typed, NEW i \in 1..Len(body)
  PROVE  body[i] \in Object /\ body[i].data \in Nat /\ body[i].whole \in BOOLEAN
<1>1. body[i] \in Object
  BY ElementOfSeq DEF Typed
<1> QED BY <1>1 DEF Object

LEMMA SameContents ==
  ASSUME Typed, NEW c \in Calls, body' = body
  PROVE  Contents(c)
BY ObjectType DEF Typed, Contents

LEMMA NewContents ==
  ASSUME Typed, NEW c \in Calls, NEW v \in Object, body' = Append(body, v)
  PROVE  Contents(c) /\ Len(body') = Len(body) + 1
BY ObjectType, Appended DEF Typed, Contents

LEMMA ChangedContents ==
  ASSUME Typed, NEW c \in Calls, NEW i \in 1..Len(body), NEW v \in Object,
         body' = [body EXCEPT ![i] = v],
         body[i].data <= v.data \/ (Unfinished(c) /\ i = op[c].made),
         body[i].whole /\ ~v.whole => ent' = ent,
         body[i].whole /\ ~v.whole =>
            \/ Kind(c) = "swap" /\ op[c].pc = "cleaning" /\ i = op[c].old
            \/ Kind(c) = "workspace" /\ op[c].pc \in {"erase", "erasePath"} /\ i = op[c].made
  PROVE  Contents(c) /\ Len(body') = Len(body)
BY ObjectType, Edited DEF Typed, Contents

\* The parts of a step change one call.
LEMMA TurnsTo ==
  ASSUME Typed, NEW c \in Calls, NEW v \in OpState, op' = [op EXCEPT ![c] = v]
  PROVE  Turns(c) /\ op'[c] = v
BY DEF Typed, Turns

LEMMA OpType ==
  ASSUME Typed, NEW c \in Calls
  PROVE  /\ op[c] \in OpState /\ Bounded(op[c], Len(body)) /\ Len(body) \in Nat
         /\ ent[c] \in Nat /\ ent[c] <= Len(body)
BY LenProperties DEF Typed, Places

LEMMA MadeType ==
  ASSUME NEW r \in OpState, NEW i \in Nat, NEW pc \in Steps
  PROVE  [r EXCEPT !.made = i, !.pub = TRUE, !.pc = pc] \in OpState
BY DEF OpState

LEMMA MadeOnlyType ==
  ASSUME NEW r \in OpState, NEW i \in Nat, NEW pc \in Steps
  PROVE  [r EXCEPT !.pc = pc, !.made = i] \in OpState
BY DEF OpState

LEMMA Settles ==
  ASSUME Typed, NEW c \in Calls, NEW told \in Outcomes, Settle(c, told)
  PROVE  /\ Turns(c) /\ Bounded(op'[c], Len(body))
         /\ op'[c] = [op[c] EXCEPT !.pc = "settled", !.told = told, !.reg = FALSE]
<1> DEFINE v == [op[c] EXCEPT !.pc = "settled", !.told = told, !.reg = FALSE]
<1>1. "settled" \in Steps
  BY DEF Steps
<1>2. v \in OpState /\ Bounded(v, Len(body))
  BY <1>1, OpType DEF OpState, Bounded
<1>3. op' = [op EXCEPT ![c] = v]
  BY DEF Typed, Settle
<1> QED BY <1>2, <1>3, TurnsTo

LEMMA Goes ==
  ASSUME Typed, NEW c \in Calls, NEW pc \in Steps, Go(c, pc)
  PROVE  /\ Turns(c) /\ Bounded(op'[c], Len(body))
         /\ op'[c] = [op[c] EXCEPT !.pc = pc]
<1> DEFINE v == [op[c] EXCEPT !.pc = pc]
<1>2. v \in OpState /\ Bounded(v, Len(body))
  BY OpType DEF OpState, Bounded
<1>3. op' = [op EXCEPT ![c] = v]
  BY DEF Typed, Go
<1> QED BY <1>2, <1>3, TurnsTo

LEMMA Sends ==
  ASSUME Typed, NEW c \in Calls, NEW pc \in Steps, NEW n \in Places, Send(c, pc, n)
  PROVE  /\ Turns(c) /\ Bounded(op'[c], Len(body))
         /\ op'[c] = [op[c] EXCEPT !.pc = pc, !.seen = ent[n]]
<1> DEFINE v == [op[c] EXCEPT !.pc = pc, !.seen = ent[n]]
<1>2. v \in OpState /\ Bounded(v, Len(body))
  BY OpType DEF OpState, Bounded, Typed
<1>3. op' = [op EXCEPT ![c] = v]
  BY DEF Typed, Send
<1> QED BY <1>2, <1>3, TurnsTo

LEMMA StepNames ==
  /\ {"idle", "settled", "void", "check", "link", "create", "fill", "verify", "sync"} \subseteq Steps
  /\ {"native", "nativeUndo", "nativeRemove", "adopt", "portable", "admit"} \subseteq Steps
  /\ {"finish", "undo", "remove", "rename", "single", "pair", "checkPair", "unlink"} \subseteq Steps
  /\ {"backup", "backupRename", "backupCheck", "place", "placeRename", "placeCheck"} \subseteq Steps
  /\ {"clean", "cleaning", "rollback", "rollbackRename", "rollbackCheck"} \subseteq Steps
  /\ {"direct", "inspect", "stage", "record", "copy", "recheck", "commit"} \subseteq Steps
  /\ {"renamed", "published", "drop", "dropping"} \subseteq Steps
  /\ {"created", "open", "prepare", "hide", "hidden", "confirm", "erase", "erasePath"} \subseteq Steps
BY DEF Steps

LEMMA OutcomeNames ==
  Outcomes = {"none", "ok", "failed", "preserved", "removed", "unknown", "backup",
              "indeterminate", "incomplete", "restored", "unverified", "stale", "missing",
              "mismatch", "unadmitted"}
BY DEF Outcomes

\* Most steps settle the call or go to another one.
Ordinary(c) ==
  \/ \E told \in Outcomes : Settle(c, told)
  \/ \E pc \in Steps : Go(c, pc)
  \/ \E pc \in Steps, n \in Places : Send(c, pc, n)

LEMMA OrdinaryTurn ==
  ASSUME Typed, NEW c \in Calls, Ordinary(c)
  PROVE  Turns(c) /\ Bounded(op'[c], Len(body))
BY Settles, Goes, Sends DEF Ordinary

Counted == faults' = faults \/ \E kind \in FaultKinds : Fault(kind)

LEMMA StepEffect ==
  ASSUME Typed, NEW c \in Calls, Turns(c), Bounded(op'[c], Len(body)),
         UNCHANGED <<setup, up, body>>, Counted, taken \subseteq taken', Shape(c)
  PROVE  Effect(c)
<1>1. faults' \in Nat /\ faults <= faults'
  BY DEF Typed, Fault, Counted
<1> QED BY <1>1, SameContents DEF Effect, Frame

\* A step that leaves names and objects alone.
LEMMA QuietEffect ==
  ASSUME Typed, NEW c \in Calls, Turns(c), Bounded(op'[c], Len(body)),
         UNCHANGED <<Fixed, ent, body>>, faults' = faults \/ Fault("error")
  PROVE  Effect(c)
BY StepEffect DEF Shape, Fixed, Counted, Fault

LEMMA OrdinaryEffect ==
  ASSUME Typed, NEW c \in Calls, Ordinary(c),
         UNCHANGED <<Fixed, ent, body>>, faults' = faults \/ Fault("error")
  PROVE  Effect(c)
BY QuietEffect, OrdinaryTurn

\* A removal by path.
LEMMA RemoveEffect ==
  ASSUME Typed, NEW c \in Calls, Ordinary(c), NEW n \in Mine(c), Remove(c, n),
         UNCHANGED <<setup, up, body, faults>>
  PROVE  Effect(c)
<1>1. Shape(c)
  BY DEF Shape, Remove, Put
<1>2. taken \subseteq taken'
  BY DEF Remove
<1> QED BY <1>1, <1>2, StepEffect, OrdinaryTurn DEF Counted

LEMMA ReplyOrdinary ==
  ASSUME NEW c \in Calls, NEW told \in Outcomes, Reply(c, Settle(c, told))
  PROVE  Ordinary(c)
BY StepNames DEF Ordinary, Reply

LEMMA ReplyGoes ==
  ASSUME NEW c \in Calls, NEW pc \in Steps, Reply(c, Go(c, pc))
  PROVE  Ordinary(c)
BY StepNames DEF Ordinary, Reply

\* A rename of names of the call.
LEMMA RenameEffect ==
  ASSUME Typed, NEW c \in Calls, Turns(c), Bounded(op'[c], Len(body)), Counted,
         NEW a \in Mine(c), NEW b \in Mine(c), Rename(a, b), c \notin TreeCalls => b = To(c),
         UNCHANGED <<setup, up, body>>, taken \subseteq taken'
  PROVE  Effect(c)
<1>1. Shape(c)
  BY DEF Shape, Rename
<1> QED BY <1>1, StepEffect

\* A new object at a name of the call.
LEMMA CreateEffect ==
  ASSUME Typed, NEW c \in Calls, Turns(c), Bounded(op'[c], Len(body) + 1),
         NEW n \in Mine(c), NEW data \in Nat, NEW whole \in BOOLEAN, Create(n, data, whole),
         c \notin TreeCalls => n \in {c, To(c)},
         UNCHANGED <<Fixed, faults>>
  PROVE  Effect(c)
<1>1. [data |-> data, whole |-> whole] \in Object
  BY DEF Object
<1>2. Contents(c) /\ Len(body') = Len(body) + 1
  BY <1>1, NewContents DEF Create
<1>3. Shape(c)
  BY <1>2 DEF Shape, Create, Put
<1> QED BY <1>2, <1>3 DEF Effect, Frame, Fixed, Typed

LEMMA PublicationEffect ==
  ASSUME Inv, NEW c \in Calls, PublicationStep(c)
  PROVE  Effect(c) /\ Kind(c) = "publish"
<1>0. Typed
  BY DEF Inv
<1>t. From(c) \in Mine(c) /\ To(c) \in Mine(c) /\ From(c) \in Places /\ To(c) \in Places
      /\ ent[From(c)] \in Nat /\ ent[From(c)] <= Len(body) /\ Len(body) \in Nat
  BY <1>0, SituationType, OpType DEF Mine, Typed
<1>k. PublicationStep(c) => Kind(c) = "publish"
  BY DEF PublicationStep, OpenSource, CheckSource, LinkTarget, CreateNative, NativeCopy,
         NativeUndo, NativeRemove, AdoptNative, CreateCopy, AdmitCopy, FillCopy,
         VerifyTarget, SyncParent, FinishPublication, CheckUndo, RemoveCreated, RenameSource,
         CheckSingle, LinkPair, CheckPair, UnlinkSource, At, Sent, Kind
<1>ok. PublicationOK(c)
  BY <1>k DEF Inv, CallOK
<1>file. From(c) # c /\ To(c) # c
  BY <1>0, SituationType DEF Typed
<1> SUFFICES Effect(c)
  BY <1>k
<1>1. CASE OpenSource(c)
  <2>1. CASE ent[From(c)] = None
    BY <1>0, <1>1, <2>1, OrdinaryEffect, OutcomeNames DEF OpenSource, Ordinary
  <2>2. CASE ent[From(c)] # None
    <3> DEFINE v == [op[c] EXCEPT !.pc = "check", !.src = ent[From(c)]]
    <3>1. v \in OpState /\ Bounded(v, Len(body))
      BY <1>0, <1>t, OpType, StepNames DEF OpState, Bounded
    <3>2. op' = [op EXCEPT ![c] = v]
      BY <1>0, <1>1, <2>2 DEF OpenSource, Typed
    <3> QED BY <1>0, <1>1, <3>1, <3>2, TurnsTo, QuietEffect DEF OpenSource
  <2> QED BY <2>1, <2>2
<1>2. CASE CheckSource(c)
  <2>1. Ordinary(c)
    BY <1>0, <1>2, SituationType, OutcomeNames, StepNames DEF CheckSource, Ordinary
  <2> QED BY <1>0, <1>2, <2>1, OrdinaryEffect DEF CheckSource
<1>3. CASE LinkTarget(c) \/ LinkPair(c)
  <2>1. CASE \E pc \in {"verify", "checkPair"} : Created(c, op[c].src, pc)
    <3> PICK pc \in {"verify", "checkPair"} : Created(c, op[c].src, pc)
      BY <2>1
    <3> DEFINE v == [op[c] EXCEPT !.made = op[c].src, !.pub = TRUE, !.pc = pc]
    <3>1. v \in OpState /\ Bounded(v, Len(body))
      BY <1>0, OpType, StepNames DEF OpState, Bounded
    <3>2. op' = [op EXCEPT ![c] = v]
      BY <1>0 DEF Created, Typed
    <3>3. Shape(c) \/ Ordinary(c)
      BY <1>3, <1>k, StepNames, OutcomeNames DEF LinkTarget, LinkPair, Shape, Put, PublicationStep, Ordinary
    <3>4. UNCHANGED <<Fixed, body, faults>>
      BY <1>3 DEF LinkTarget, LinkPair
    <3>5. CASE Shape(c)
      BY <1>0, <3>1, <3>2, <3>4, <3>5, TurnsTo, StepEffect DEF Fixed, Counted
    <3>6. CASE Ordinary(c) /\ ~Shape(c)
      <4>1. UNCHANGED ent
        BY <1>3, <3>6, <1>k DEF LinkTarget, LinkPair, Shape, Put, PublicationStep
      <4> QED BY <3>6, <4>1 DEF Shape
    <3> QED BY <3>3, <3>5, <3>6
  <2>2. CASE UNCHANGED ent /\ (Settle(c, "failed") \/ Go(c, "create"))
    <3>1. Ordinary(c)
      BY <2>2, StepNames, OutcomeNames DEF Ordinary
    <3> QED BY <1>0, <1>3, <2>2, <3>1, OrdinaryEffect DEF LinkTarget, LinkPair
  <2> QED BY <1>3, <2>1, <2>2 DEF LinkTarget, LinkPair
<1>4. CASE CreateNative(c) \/ CreateCopy(c)
  <2>1. CASE Settle(c, "failed") /\ UNCHANGED <<ent, body>>
    BY <1>0, <1>4, <2>1, OrdinaryEffect, OutcomeNames DEF CreateNative, CreateCopy, Ordinary
  <2>2. ASSUME NEW pc \in {"native", "admit"}, CreateTarget(c, pc)
        PROVE  Effect(c)
    <3> DEFINE v == [op[c] EXCEPT !.pc = pc, !.made = Len(body) + 1]
    <3>a. Len(body) + 1 \in Nat /\ pc \in Steps
      BY <1>t, StepNames
    <3>c. v \in OpState
      BY <1>0, <3>a, OpType, MadeOnlyType
    <3>b. Bounded(v, Len(body) + 1)
      BY <1>0, <1>t, OpType DEF OpState, Bounded
    <3>1. v \in OpState /\ Bounded(v, Len(body) + 1)
      BY <3>b, <3>c
    <3>2. op' = [op EXCEPT ![c] = v]
      BY <1>0, <2>2 DEF CreateTarget, Typed
    <3>3. Create(To(c), 0, FALSE) /\ UNCHANGED <<Fixed, faults>>
      BY <1>4, <2>2 DEF CreateTarget, CreateNative, CreateCopy
    <3> QED BY <1>0, <1>t, <3>1, <3>2, <3>3, TurnsTo, CreateEffect
  <2> QED BY <1>4, <2>1, <2>2 DEF CreateNative, CreateCopy, Exists
<1>9. CASE NativeCopy(c)
  <2>1. op[c].src \in 1..Len(body) /\ op[c].made \in 1..Len(body) /\ op[c].pc = "native"
    BY <1>0, <1>t, <1>9, <1>ok, OpType
       DEF NativeCopy, Sent, PublicationOK, Unknown, Holding, OpState, Bounded, None
  <2>2. CASE Go(c, "nativeUndo") /\ UNCHANGED body
    <3>1. Ordinary(c)
      BY <2>2, StepNames DEF Ordinary
    <3> QED BY <1>0, <1>9, <2>2, <3>1, OrdinaryEffect DEF NativeCopy
  <2>3. CASE /\ body' = [body EXCEPT ![op[c].made] = [data |-> body[op[c].src].data, whole |-> TRUE]]
             /\ Reply(c, Go(c, "adopt")) /\ UNCHANGED faults
    <3>0. body[op[c].src].data \in Nat
      BY <1>0, <2>1, ObjectType
    <3>3. Turns(c) /\ Bounded(op'[c], Len(body))
      BY <1>0, <2>3, ReplyGoes, StepNames, OrdinaryTurn
    <3>4. [data |-> body[op[c].src].data, whole |-> TRUE] \in Object /\ Unfinished(c)
      BY <1>9, <2>1, <3>0 DEF Object, Unfinished, NativeCopy, Sent, Kind
    <3>5. Contents(c) /\ Len(body') = Len(body)
      BY <1>0, <2>1, <2>3, <3>4, ChangedContents
    <3> QED BY <1>0, <1>9, <2>3, <3>3, <3>5 DEF NativeCopy, Effect, Frame, Shape, Fixed, Typed
  <2> QED BY <1>9, <2>2, <2>3 DEF NativeCopy
<1>u. GiveUpNative(c) => Turns(c) /\ Bounded(op'[c], Len(body))
  <2>1. ASSUME op' = [op EXCEPT ![c].pc = "portable", ![c].old = op[c].made, ![c].made = None]
        PROVE  Turns(c) /\ Bounded(op'[c], Len(body))
    <3> DEFINE v == [op[c] EXCEPT !.pc = "portable", !.old = op[c].made, !.made = None]
    <3>0. op[c] \in OpState /\ Bounded(op[c], Len(body)) /\ op[c].made \in Nat
          /\ "portable" \in Steps /\ None \in Nat /\ None <= Len(body)
      BY <1>0, <1>t, OpType, StepNames DEF OpState, None
    <3>1. v \in OpState /\ Bounded(v, Len(body))
      <4>1. v \in OpState
        BY <3>0 DEF OpState
      <4>2. v.src = op[c].src /\ v.old = op[c].made /\ v.made = None /\ v.print = op[c].print
        BY <3>0 DEF OpState
      <4> QED BY <3>0, <4>1, <4>2 DEF Bounded
    <3>2. op' = [op EXCEPT ![c] = v]
      BY <1>0, <2>1 DEF Typed
    <3> QED BY <1>0, <3>1, <3>2, TurnsTo
  <2>2. Settle(c, "failed") \/ Go(c, "void") => Ordinary(c)
    BY StepNames, OutcomeNames DEF Ordinary
  <2> QED BY <1>0, <2>1, <2>2, OrdinaryTurn DEF GiveUpNative, Reply
<1>10. CASE NativeUndo(c)
  <2>1. Ordinary(c) \/ GiveUpNative(c)
    BY <1>t, <1>10, StepNames DEF NativeUndo, Ordinary
  <2> QED BY <1>0, <1>10, <1>u, <2>1, OrdinaryTurn, QuietEffect DEF NativeUndo
<1>11. CASE NativeRemove(c)
  <2>1. CASE UNCHANGED <<ent, taken>>
    BY <1>0, <1>11, <1>u, <2>1, QuietEffect DEF NativeRemove, Fixed
  <2>2. CASE Remove(c, To(c)) /\ UNCHANGED faults
    <3>1. Shape(c) /\ taken \subseteq taken'
      BY <1>t, <2>2 DEF Shape, Remove, Put
    <3> QED BY <1>0, <1>11, <1>u, <2>2, <3>1, StepEffect DEF NativeRemove, Counted
  <2> QED BY <1>11, <2>1, <2>2 DEF NativeRemove
<1>12. CASE AdoptNative(c) \/ AdmitCopy(c)
  <2>0. op[c].made \in 1..Len(body)
    BY <1>0, <1>t, <1>12, <1>ok, OpType
       DEF AdoptNative, AdmitCopy, At, PublicationOK, Unknown, Holding, OpState, Bounded, None
  <2>1. CASE Settle(c, "failed")
    <3>1. Ordinary(c)
      BY <2>1, OutcomeNames DEF Ordinary
    <3> QED BY <1>0, <1>12, <3>1, OrdinaryEffect DEF AdoptNative, AdmitCopy
  <2>2. ASSUME NEW pc \in {"undo", "fill"}, op' = [op EXCEPT ![c].pc = pc, ![c].pub = TRUE]
        PROVE  Effect(c)
    <3> DEFINE v == [op[c] EXCEPT !.pc = pc, !.pub = TRUE]
    <3>1. v \in OpState /\ Bounded(v, Len(body))
      BY <1>0, OpType, StepNames DEF OpState, Bounded
    <3>2. op' = [op EXCEPT ![c] = v]
      BY <1>0, <2>2 DEF Typed
    <3> QED BY <1>0, <1>12, <3>1, <3>2, TurnsTo, QuietEffect DEF AdoptNative, AdmitCopy
  <2>3. CASE op' = [op EXCEPT ![c].pc = "verify", ![c].pub = TRUE, ![c].read = body[op[c].made].data]
    <3> DEFINE v == [op[c] EXCEPT !.pc = "verify", !.pub = TRUE, !.read = body[op[c].made].data]
    <3>0. body[op[c].made].data \in Nat
      BY <1>0, <2>0, ObjectType
    <3>1. v \in OpState /\ Bounded(v, Len(body))
      BY <1>0, <3>0, OpType, StepNames DEF OpState, Bounded
    <3>2. op' = [op EXCEPT ![c] = v]
      BY <1>0, <2>3 DEF Typed
    <3> QED BY <1>0, <1>12, <3>1, <3>2, TurnsTo, QuietEffect DEF AdoptNative, AdmitCopy
  <2> QED BY <1>12, <2>1, <2>2, <2>3 DEF AdoptNative, AdmitCopy
<1>5. CASE FillCopy(c)
  <2>1. op[c].src \in 1..Len(body) /\ op[c].made \in 1..Len(body) /\ op[c].pc = "fill"
    BY <1>0, <1>t, <1>5, <1>ok, OpType
       DEF FillCopy, At, PublicationOK, Unknown, Holding, OpState, Bounded, None
  <2>2. CASE Undoes(c) /\ UNCHANGED body /\ Fault("error")
    <3>1. Ordinary(c)
      BY <2>2, StepNames, OutcomeNames DEF Undoes, Ordinary
    <3> QED BY <1>0, <1>5, <2>2, <3>1, OrdinaryEffect DEF FillCopy
  <2>3. CASE /\ body' = [body EXCEPT ![op[c].made] = [data |-> body[op[c].src].data, whole |-> TRUE]]
             /\ op' = [op EXCEPT ![c].pc = "verify", ![c].read = body[op[c].src].data]
             /\ UNCHANGED faults
    <3> DEFINE v == [op[c] EXCEPT !.pc = "verify", !.read = body[op[c].src].data]
    <3>0. body[op[c].src].data \in Nat
      BY <1>0, <2>1, ObjectType
    <3>1. v \in OpState /\ Bounded(v, Len(body))
      BY <1>0, <3>0, OpType, StepNames DEF OpState, Bounded
    <3>2. op' = [op EXCEPT ![c] = v]
      BY <1>0, <2>3 DEF Typed
    <3>3. Turns(c) /\ op'[c] = v
      BY <1>0, <3>1, <3>2, TurnsTo
    <3>4. [data |-> body[op[c].src].data, whole |-> TRUE] \in Object /\ Unfinished(c)
      BY <1>5, <2>1, <3>0 DEF Object, Unfinished, FillCopy, At, Kind
    <3>5. Contents(c) /\ Len(body') = Len(body)
      BY <1>0, <2>1, <2>3, <3>4, ChangedContents
    <3> QED BY <1>0, <1>5, <2>3, <3>1, <3>3, <3>5 DEF FillCopy, Effect, Frame, Shape, Fixed, Typed
  <2> QED BY <1>5, <2>2, <2>3 DEF FillCopy
<1>6. CASE VerifyTarget(c) \/ SyncParent(c) \/ FinishPublication(c) \/ CheckUndo(c)
            \/ CheckSingle(c) \/ CheckPair(c)
  <2>1. Ordinary(c)
    BY <1>t, <1>6, StepNames, OutcomeNames
       DEF VerifyTarget, SyncParent, FinishPublication, CheckUndo, CheckSingle, CheckPair,
           Undoes, Ordinary
  <2> QED BY <1>0, <1>6, <2>1, OrdinaryEffect
          DEF VerifyTarget, SyncParent, FinishPublication, CheckUndo, CheckSingle, CheckPair
<1>7. CASE RemoveCreated(c) \/ UnlinkSource(c)
  <2>1. Ordinary(c)
    BY <1>7, StepNames, OutcomeNames, ReplyOrdinary DEF RemoveCreated, UnlinkSource, Ordinary
  <2>2. CASE \E n \in Mine(c) : Remove(c, n) /\ UNCHANGED faults
    BY <1>0, <1>7, <2>1, <2>2, RemoveEffect DEF RemoveCreated, UnlinkSource
  <2>3. CASE UNCHANGED <<ent, taken>>
    BY <1>0, <1>7, <2>1, <2>3, OrdinaryEffect DEF RemoveCreated, UnlinkSource, Fixed
  <2> QED BY <1>t, <1>7, <2>2, <2>3 DEF RemoveCreated, UnlinkSource
<1>8. CASE RenameSource(c)
  <2>1. CASE Created(c, op[c].src, "verify") /\ Rename(From(c), To(c)) /\ UNCHANGED faults
    <3> DEFINE v == [op[c] EXCEPT !.made = op[c].src, !.pub = TRUE, !.pc = "verify"]
    <3>1. v \in OpState /\ Bounded(v, Len(body))
      BY <1>0, OpType, StepNames DEF OpState, Bounded
    <3>2. op' = [op EXCEPT ![c] = v]
      BY <1>0, <2>1 DEF Created, Typed
    <3> QED BY <1>0, <1>t, <1>file, <1>8, <2>1, <3>1, <3>2, TurnsTo, RenameEffect DEF RenameSource, Fixed, Counted
  <2>2. CASE Settle(c, "failed") /\ Rename(From(c), To(c)) /\ Fault("lost")
    BY <1>0, <1>t, <1>file, <1>8, <2>2, Settles, OutcomeNames, RenameEffect DEF RenameSource, Fixed, Counted, Fault
  <2>3. CASE Settle(c, "failed") /\ UNCHANGED <<ent, faults>>
    BY <1>0, <1>8, <2>3, OrdinaryEffect, OutcomeNames DEF RenameSource, Ordinary
  <2> QED BY <1>8, <2>1, <2>2, <2>3 DEF RenameSource
<1> QED BY <1>1, <1>2, <1>3, <1>4, <1>5, <1>6, <1>7, <1>8, <1>9, <1>10, <1>11, <1>12
        DEF PublicationStep

LEMMA SwapEffect ==
  ASSUME Inv, NEW c \in Calls, SwapStep(c)
  PROVE  Effect(c) /\ Kind(c) = "swap"
<1>0. Typed
  BY DEF Inv
<1>t. /\ {c, From(c), To(c)} \subseteq Mine(c) /\ From(c) \in Places /\ To(c) \in Places
      /\ \A n \in Mine(c) : ent[n] \in Nat /\ ent[n] <= Len(body)
      /\ Len(body) \in Nat
  BY <1>0, SituationType, OpType DEF Mine, Typed
<1>k. SwapStep(c) => Kind(c) = "swap"
  BY DEF SwapStep, Admit, CheckBackup, RenameBackup, ObserveBackup, CheckPlace, RenamePlace,
         ObservePlace, CheckClean, RemoveOriginal, CheckRollback, RenameRollback,
         ObserveRollback, At, Sent, Kind
<1>ok. SwapOK(c)
  BY <1>k DEF Inv, CallOK
<1>tree. c \in TreeCalls
  BY <1>0, <1>k, SituationType DEF Typed
<1> SUFFICES Effect(c)
  BY <1>k
<1>1. CASE Admit(c)
  <2>1. CASE ent[From(c)] = None
    <3>1. Ordinary(c)
      BY <1>1, <2>1, OutcomeNames DEF Admit, Ordinary
    <3> QED BY <1>0, <1>1, <3>1, OrdinaryEffect DEF Admit
  <2>2. CASE ent[From(c)] # None
    <3> DEFINE v == [op[c] EXCEPT !.src = ent[From(c)], !.old = ent[To(c)],
                                  !.pc = IF ent[To(c)] = None THEN "place" ELSE "backup"]
    <3>1. v \in OpState /\ Bounded(v, Len(body))
      BY <1>0, <1>t, OpType, StepNames DEF OpState, Bounded
    <3>2. op' = [op EXCEPT ![c] = v]
      BY <1>0, <1>1, <2>2 DEF Admit, Typed
    <3> QED BY <1>0, <1>1, <3>1, <3>2, TurnsTo, QuietEffect DEF Admit
  <2> QED BY <2>1, <2>2
<1>2. CASE CheckBackup(c) \/ ObserveBackup(c) \/ CheckPlace(c) \/ ObservePlace(c)
            \/ CheckClean(c) \/ CheckRollback(c) \/ ObserveRollback(c)
  <2>1. Ordinary(c)
    BY <1>2, StepNames, OutcomeNames
       DEF CheckBackup, ObserveBackup, CheckPlace, ObservePlace, CheckClean, CheckRollback,
           ObserveRollback, Unpublished, Keeps, Ordinary
  <2> QED BY <1>0, <1>2, <2>1, OrdinaryEffect
          DEF CheckBackup, ObserveBackup, CheckPlace, ObservePlace, CheckClean, CheckRollback,
              ObserveRollback
<1>3. CASE RenameBackup(c) \/ RenameRollback(c)
  <2>1. Ordinary(c)
    BY <1>3, StepNames, OutcomeNames DEF RenameBackup, RenameRollback, Ordinary
  <2>2. UNCHANGED <<Fixed, body>> /\ Counted
    BY <1>3 DEF RenameBackup, RenameRollback, Fails, Counted, Fault
  <2>3. ent' = ent \/ Rename(To(c), c) \/ Rename(c, To(c))
    BY <1>3 DEF RenameBackup, RenameRollback, Fails
  <2>4. Shape(c)
    BY <2>3, <1>t, <1>tree DEF Shape, Rename
  <2> QED BY <1>0, <2>1, <2>2, <2>4, OrdinaryTurn, StepEffect DEF Fixed
<1>4. CASE RenamePlace(c)
  <2>1. UNCHANGED <<Fixed, body>> /\ Counted
    BY <1>4 DEF RenamePlace, Fails, Counted, Fault
  <2>2. Shape(c)
    BY <1>t, <1>tree, <1>4 DEF RenamePlace, Fails, Shape, Rename
  <2>3. CASE op' = [op EXCEPT ![c].pc = "placeCheck", ![c].pub = TRUE, ![c].made = op[c].src]
    <3> DEFINE v == [op[c] EXCEPT !.pc = "placeCheck", !.pub = TRUE, !.made = op[c].src]
    <3>1. v \in OpState /\ Bounded(v, Len(body))
      BY <1>0, OpType, StepNames DEF OpState, Bounded
    <3>2. op' = [op EXCEPT ![c] = v]
      BY <1>0, <2>3 DEF Typed
    <3>3. Turns(c) /\ op'[c] = v
      BY <1>0, <3>1, <3>2, TurnsTo
    <3> QED BY <1>0, <2>1, <2>2, <3>1, <3>3, StepEffect DEF Fixed
  <2>4. CASE Ordinary(c)
    BY <1>0, <2>1, <2>2, <2>4, OrdinaryTurn, StepEffect DEF Fixed
  <2>5. Keeps(c) \/ Unpublished(c) => Ordinary(c)
    BY StepNames, OutcomeNames DEF Keeps, Unpublished, Ordinary
  <2> QED BY <1>4, <2>3, <2>4, <2>5 DEF RenamePlace
<1>5. CASE RemoveOriginal(c)
  <2>1. Ordinary(c)
    BY <1>5, OutcomeNames, ReplyOrdinary DEF RemoveOriginal
  <2>2. CASE ent[c] = op[c].old /\ Put(c, None) /\ UNCHANGED <<body, faults>>
    <3>1. Shape(c)
      BY <1>t, <2>2 DEF Shape, Put
    <3> QED BY <1>0, <1>5, <2>1, <2>2, <3>1, OrdinaryTurn, StepEffect
            DEF RemoveOriginal, Fixed, Counted
  <2>3. CASE UNCHANGED <<ent, body, faults>>
    BY <1>0, <1>5, <2>1, <2>3, OrdinaryEffect DEF RemoveOriginal
  <2>4. CASE /\ Fault("error") /\ UNCHANGED ent
             /\ body' = [body EXCEPT ![op[c].old].whole = FALSE]
    <3>1. op[c].old \in 1..Len(body) /\ op[c].pc = "cleaning"
      BY <1>0, <1>t, <1>5, <1>ok, OpType
         DEF RemoveOriginal, Sent, SwapOK, OpState, Bounded, None
    <3>2. [body[op[c].old] EXCEPT !.whole = FALSE] \in Object
      BY <1>0, <3>1, ObjectType DEF Object
    <3>3. body' = [body EXCEPT ![op[c].old] = [body[op[c].old] EXCEPT !.whole = FALSE]]
      BY <2>4
    <3>4. [body[op[c].old] EXCEPT !.whole = FALSE].data = body[op[c].old].data
          /\ body[op[c].old].data \in Nat
      BY <1>0, <3>1, ObjectType DEF Object
    <3>5. Contents(c) /\ Len(body') = Len(body)
      <4> DEFINE v == [body[op[c].old] EXCEPT !.whole = FALSE]
      <4>1. body[op[c].old].data <= v.data /\ Kind(c) = "swap"
        BY <1>k, <3>4
      <4> HIDE DEF v
      <4> QED BY <1>0, <2>4, <3>1, <3>2, <3>3, <4>1, ChangedContents DEF v
    <3>6. faults' \in Nat /\ faults <= faults'
      BY <1>0, <2>4 DEF Fault, Typed
    <3> QED BY <1>0, <1>5, <2>1, <2>4, <3>5, <3>6, OrdinaryTurn
            DEF RemoveOriginal, Effect, Frame, Shape, Fixed
  <2> QED BY <1>5, <2>2, <2>3, <2>4 DEF RemoveOriginal
<1> QED BY <1>1, <1>2, <1>3, <1>4, <1>5 DEF SwapStep

LEMMA LinksType ==
  ASSUME Typed, NEW i
  PROVE  Links(i) \in Nat
<1>1. IsFiniteSet(Places) /\ DOMAIN ent = Places
  BY EntriesAssumption, FS_Union DEF Typed, Places
<1>2. IsFiniteSet({n \in DOMAIN ent : ent[n] = i})
  BY <1>1, FS_Subset
<1> QED BY <1>2, FS_CardinalityType DEF Links

LEMMA MoveEffect ==
  ASSUME Inv, NEW c \in Calls, MoveStep(c)
  PROVE  Effect(c) /\ Kind(c) = "move"
<1>0. Typed
  BY DEF Inv
<1>t. /\ {c, From(c), To(c)} \subseteq Mine(c) /\ From(c) \in Places /\ To(c) \in Places
      /\ \A n \in Mine(c) : ent[n] \in Nat /\ ent[n] <= Len(body)
      /\ Len(body) \in Nat
  BY <1>0, SituationType, OpType DEF Mine, Typed
<1>k. MoveStep(c) => Kind(c) = "move"
  BY DEF MoveStep, StartMove, RenameDirect, InspectSource, CreateStage, RecordStage, CopySource,
         RecheckSource, SendCommit, CommitStage, NoteCommit, CheckRemoval, RemoveSource,
         CheckDrop, DropStage, ExitCheckStage, ExitRemoveStage, At, Sent, Kind
<1>ok. MoveOK(c)
  BY <1>k DEF Inv, CallOK
<1>file. From(c) # c /\ To(c) # c
  BY <1>0, SituationType DEF Typed
<1> SUFFICES Effect(c)
  BY <1>k
<1>1. CASE StartMove(c)
  <2>1. Ordinary(c)
    BY <1>0, <1>1, <1>k, SituationType, StepNames, OutcomeNames DEF StartMove, Ordinary, Typed
  <2> QED BY <1>0, <1>1, <2>1, OrdinaryEffect DEF StartMove
<1>2. CASE RecheckSource(c) \/ SendCommit(c) \/ CheckRemoval(c) \/ CheckDrop(c)
  <2>1. Ordinary(c)
    BY <1>t, <1>2, StepNames, OutcomeNames
       DEF RecheckSource, SendCommit, CheckRemoval, CheckDrop, Ordinary, Places
  <2> QED BY <1>0, <1>2, <2>1, OrdinaryEffect
          DEF RecheckSource, SendCommit, CheckRemoval, CheckDrop
<1>3. CASE RenameDirect(c) \/ CommitStage(c)
  <2>1. Ordinary(c)
    BY <1>3, StepNames, OutcomeNames, ReplyOrdinary, ReplyGoes DEF RenameDirect, CommitStage
  <2>2. UNCHANGED <<setup, up, body>> /\ Counted /\ taken \subseteq taken'
    BY <1>3 DEF RenameDirect, CommitStage, Replace, Counted, Fault
  <2>3. ent' = ent \/ Rename(From(c), To(c)) \/ Rename(c, To(c))
    BY <1>3 DEF RenameDirect, CommitStage, Replace
  <2>4. Shape(c)
    BY <2>3, <1>t, <1>file DEF Shape, Rename
  <2> QED BY <1>0, <2>1, <2>2, <2>4, OrdinaryTurn, StepEffect
<1>4. CASE InspectSource(c)
  <2>1. CASE ent[From(c)] = None
    <3>1. Ordinary(c)
      BY <1>4, <2>1, OutcomeNames DEF InspectSource, Ordinary
    <3> QED BY <1>0, <1>4, <3>1, OrdinaryEffect DEF InspectSource
  <2>2. CASE ent[From(c)] # None
    <3> DEFINE v == [op[c] EXCEPT !.print = Fingerprint(ent[From(c)]), !.pc = "stage"]
    <3>1. ent[From(c)] \in 1..Len(body)
      BY <1>t, <2>2 DEF None
    <3>2. body[ent[From(c)]].data \in Nat /\ Links(ent[From(c)]) \in Nat
      BY <1>0, <3>1, ObjectType, LinksType
    <3>3. v \in OpState /\ Bounded(v, Len(body))
      BY <1>0, <1>t, <3>2, OpType, StepNames DEF OpState, Bounded, Fingerprint
    <3>4. op' = [op EXCEPT ![c] = v]
      BY <1>0, <1>4, <2>2 DEF InspectSource, Typed
    <3> QED BY <1>0, <1>4, <3>3, <3>4, TurnsTo, QuietEffect DEF InspectSource
  <2> QED BY <2>1, <2>2
<1>5. CASE CreateStage(c)
  <2>1. CASE Settle(c, "failed") /\ UNCHANGED <<ent, body>>
    <3>1. Ordinary(c)
      BY <2>1, OutcomeNames DEF Ordinary
    <3> QED BY <1>0, <1>5, <2>1, <3>1, OrdinaryEffect DEF CreateStage
  <2>2. CASE /\ Create(c, 0, FALSE)
             /\ op' = [op EXCEPT ![c].pc = "record", ![c].made = Len(body) + 1]
    <3> DEFINE v == [op[c] EXCEPT !.pc = "record", !.made = Len(body) + 1]
    <3>1. Len(body) + 1 \in Nat /\ "record" \in Steps
      BY <1>t, StepNames
    <3>2. v \in OpState
      BY <1>0, <3>1, OpType, MadeOnlyType
    <3>3. Bounded(v, Len(body) + 1)
      BY <1>0, <1>t, OpType DEF OpState, Bounded
    <3>4. op' = [op EXCEPT ![c] = v]
      BY <1>0, <2>2 DEF Typed
    <3> QED BY <1>0, <1>t, <1>5, <2>2, <3>2, <3>3, <3>4, TurnsTo, CreateEffect DEF CreateStage
  <2> QED BY <1>5, <2>1, <2>2 DEF CreateStage
<1>6. CASE RecordStage(c)
  <2>1. CASE Settle(c, "unadmitted")
    <3>1. Ordinary(c)
      BY <2>1, OutcomeNames DEF Ordinary
    <3> QED BY <1>0, <1>6, <3>1, OrdinaryEffect DEF RecordStage
  <2>2. CASE op' = [op EXCEPT ![c].pc = "copy", ![c].reg = TRUE]
    <3> DEFINE v == [op[c] EXCEPT !.pc = "copy", !.reg = TRUE]
    <3>1. v \in OpState /\ Bounded(v, Len(body))
      BY <1>0, OpType, StepNames DEF OpState, Bounded
    <3>2. op' = [op EXCEPT ![c] = v]
      BY <1>0, <2>2 DEF Typed
    <3> QED BY <1>0, <1>6, <3>1, <3>2, TurnsTo, QuietEffect DEF RecordStage
  <2> QED BY <1>6, <2>1, <2>2 DEF RecordStage
<1>7. CASE CopySource(c)
  <2>1. op[c].print.id \in 1..Len(body) /\ op[c].made \in 1..Len(body) /\ op[c].pc = "copy"
    BY <1>0, <1>t, <1>7, <1>ok, OpType
       DEF CopySource, At, MoveOK, OpState, Bounded, None
  <2>2. CASE Go(c, "drop") /\ UNCHANGED body /\ Fault("error")
    <3>1. Ordinary(c)
      BY <2>2, StepNames DEF Ordinary
    <3> QED BY <1>0, <1>7, <2>2, <3>1, OrdinaryEffect DEF CopySource
  <2>3. CASE /\ body' = [body EXCEPT ![op[c].made] =
                           [data |-> body[op[c].print.id].data, whole |-> TRUE]]
             /\ op' = [op EXCEPT ![c].pc = "recheck", ![c].read = body[op[c].print.id].data]
             /\ UNCHANGED faults
    <3> DEFINE v == [op[c] EXCEPT !.pc = "recheck", !.read = body[op[c].print.id].data]
    <3>0. body[op[c].print.id].data \in Nat
      BY <1>0, <2>1, ObjectType
    <3>1. v \in OpState /\ Bounded(v, Len(body))
      BY <1>0, <3>0, OpType, StepNames DEF OpState, Bounded
    <3>2. op' = [op EXCEPT ![c] = v]
      BY <1>0, <2>3 DEF Typed
    <3>3. Turns(c) /\ op'[c] = v
      BY <1>0, <3>1, <3>2, TurnsTo
    <3>4. [data |-> body[op[c].print.id].data, whole |-> TRUE] \in Object /\ Unfinished(c)
      BY <1>7, <2>1, <3>0 DEF Object, Unfinished, CopySource, At, Kind
    <3>5. Contents(c) /\ Len(body') = Len(body)
      BY <1>0, <2>1, <2>3, <3>4, ChangedContents
    <3> QED BY <1>0, <1>7, <2>3, <3>1, <3>3, <3>5
            DEF CopySource, Effect, Frame, Shape, Fixed, Typed
  <2> QED BY <1>7, <2>2, <2>3 DEF CopySource
<1>8. CASE NoteCommit(c)
  <2> DEFINE v == [op[c] EXCEPT !.pc = "published", !.pub = TRUE, !.reg = FALSE]
  <2>1. v \in OpState /\ Bounded(v, Len(body))
    BY <1>0, OpType, StepNames DEF OpState, Bounded
  <2>2. op' = [op EXCEPT ![c] = v]
    BY <1>0, <1>8 DEF NoteCommit, Typed
  <2> QED BY <1>0, <1>8, <2>1, <2>2, TurnsTo, QuietEffect DEF NoteCommit
<1>9. CASE RemoveSource(c) \/ DropStage(c) \/ ExitRemoveStage(c)
  <2>1. Turns(c) /\ Bounded(op'[c], Len(body))
    <3>1. CASE Ordinary(c)
      BY <1>0, <3>1, OrdinaryTurn
    <3>2. CASE op' = [op EXCEPT ![c].pc = "settled", ![c].told = "failed"]
      <4> DEFINE v == [op[c] EXCEPT !.pc = "settled", !.told = "failed"]
      <4>1. v \in OpState /\ Bounded(v, Len(body))
        BY <1>0, OpType, StepNames, OutcomeNames DEF OpState, Bounded
      <4>2. op' = [op EXCEPT ![c] = v]
        BY <1>0, <3>2 DEF Typed
      <4> QED BY <1>0, <4>1, <4>2, TurnsTo
    <3>3. CASE op' = [op EXCEPT ![c].exit = "done"]
      <4> DEFINE v == [op[c] EXCEPT !.exit = "done"]
      <4>1. v \in OpState /\ Bounded(v, Len(body))
        BY <1>0, OpType DEF OpState, Bounded
      <4>2. op' = [op EXCEPT ![c] = v]
        BY <1>0, <3>3 DEF Typed
      <4> QED BY <1>0, <4>1, <4>2, TurnsTo
    <3>4. Go(c, "void") => Ordinary(c)
      BY StepNames DEF Ordinary
    <3> QED BY <1>9, <3>1, <3>2, <3>3, <3>4, OutcomeNames, ReplyOrdinary
            DEF RemoveSource, DropStage, ExitRemoveStage, Reply
  <2>2. UNCHANGED <<setup, up, body>> /\ Counted /\ taken \subseteq taken'
    BY <1>9 DEF RemoveSource, DropStage, ExitRemoveStage, Remove, Counted, Fault
  <2>3. ent' = ent \/ Put(From(c), None) \/ Put(c, None)
    BY <1>9 DEF RemoveSource, DropStage, ExitRemoveStage, Remove
  <2>4. Shape(c)
    BY <2>3, <1>t DEF Shape, Put
  <2> QED BY <1>0, <2>1, <2>2, <2>4, StepEffect
<1>10. CASE ExitCheckStage(c)
  <2>1. Turns(c) /\ Bounded(op'[c], Len(body))
    <3> DEFINE v == IF ent[c] = op[c].made
                    THEN [op[c] EXCEPT !.exit = "remove", !.seen = ent[c]]
                    ELSE [op[c] EXCEPT !.exit = "done"]
    <3>1. v \in OpState /\ Bounded(v, Len(body))
      BY <1>0, OpType DEF OpState, Bounded
    <3>2. op' = [op EXCEPT ![c] = v]
      BY <1>0, <1>10 DEF ExitCheckStage, Typed
    <3> QED BY <1>0, <3>1, <3>2, TurnsTo
  <2> QED BY <1>0, <1>10, <2>1, QuietEffect DEF ExitCheckStage
<1> QED BY <1>1, <1>2, <1>3, <1>4, <1>5, <1>6, <1>7, <1>8, <1>9, <1>10 DEF MoveStep

LEMMA WorkspaceEffect ==
  ASSUME Inv, NEW c \in Calls, WorkspaceStep(c)
  PROVE  Effect(c) /\ Kind(c) = "workspace"
<1>0. Typed
  BY DEF Inv
<1>t. /\ {c, From(c), To(c)} \subseteq Mine(c) /\ From(c) \in Places /\ To(c) \in Places
      /\ \A n \in Mine(c) : ent[n] \in Nat /\ ent[n] <= Len(body)
      /\ Len(body) \in Nat
  BY <1>0, SituationType, OpType DEF Mine, Typed
<1>k. WorkspaceStep(c) => Kind(c) = "workspace"
  BY DEF WorkspaceStep, CreateWorkspace, AdmitWorkspace, StartCleanup, PrepareCleanup,
         HideWorkspace, ObserveHidden, EraseOwned, ConfirmHidden, ErasePath, ExitWorkspace,
         At, Sent, Kind
<1>ok. WorkspaceOK(c)
  BY <1>k DEF Inv, CallOK
<1>f. \A told \in Outcomes : Finish(c, told) => Ordinary(c)
  BY OutcomeNames DEF Finish, Ordinary
<1>r. \A told \in Outcomes : Reply(c, Finish(c, told)) => Ordinary(c)
  BY OutcomeNames, StepNames DEF Finish, Reply, Ordinary
<1>tree. c \in TreeCalls
  BY <1>0, <1>k, SituationType DEF Typed
<1> SUFFICES Effect(c)
  BY <1>k
<1>1. CASE CreateWorkspace(c)
  <2> DEFINE v == [op[c] EXCEPT !.pc = "created", !.made = Len(body) + 1]
  <2>1. Len(body) + 1 \in Nat /\ "created" \in Steps
    BY <1>t, StepNames
  <2>2. v \in OpState
    BY <1>0, <2>1, OpType, MadeOnlyType
  <2>3. Bounded(v, Len(body) + 1)
    BY <1>0, <1>t, OpType DEF OpState, Bounded
  <2>4. op' = [op EXCEPT ![c] = v]
    BY <1>0, <1>1 DEF CreateWorkspace, Typed
  <2> QED BY <1>0, <1>t, <1>1, <2>2, <2>3, <2>4, TurnsTo, CreateEffect, <1>tree DEF CreateWorkspace
<1>2. CASE AdmitWorkspace(c)
  <2>1. CASE Settle(c, "mismatch") \/ Settle(c, "unadmitted")
    <3>1. Ordinary(c)
      BY <2>1, OutcomeNames DEF Ordinary
    <3> QED BY <1>0, <1>2, <3>1, OrdinaryEffect DEF AdmitWorkspace
  <2>2. CASE op' = [op EXCEPT ![c].pc = "open", ![c].reg = TRUE]
    <3> DEFINE v == [op[c] EXCEPT !.pc = "open", !.reg = TRUE]
    <3>1. v \in OpState /\ Bounded(v, Len(body))
      BY <1>0, OpType, StepNames DEF OpState, Bounded
    <3>2. op' = [op EXCEPT ![c] = v]
      BY <1>0, <1>2, <2>2 DEF AdmitWorkspace, Typed
    <3> QED BY <1>0, <1>2, <3>1, <3>2, TurnsTo, QuietEffect DEF AdmitWorkspace
  <2> QED BY <1>2, <2>1, <2>2 DEF AdmitWorkspace
<1>3. CASE StartCleanup(c) \/ PrepareCleanup(c) \/ ObserveHidden(c) \/ ConfirmHidden(c)
  <2>1. Ordinary(c)
    BY <1>t, <1>3, <1>f, StepNames, OutcomeNames
       DEF StartCleanup, PrepareCleanup, ObserveHidden, ConfirmHidden, Ordinary, Places
  <2> QED BY <1>0, <1>3, <2>1, OrdinaryEffect
          DEF StartCleanup, PrepareCleanup, ObserveHidden, ConfirmHidden
<1>4. CASE HideWorkspace(c)
  <2>1. Ordinary(c)
    BY <1>4, <1>f, StepNames, OutcomeNames DEF HideWorkspace, Ordinary
  <2>2. UNCHANGED <<Fixed, body>> /\ Counted
    BY <1>4 DEF HideWorkspace, Counted, Fault
  <2>3. ent' = ent \/ Rename(From(c), c)
    BY <1>4 DEF HideWorkspace
  <2>4. Shape(c)
    BY <2>3, <1>t, <1>tree DEF Shape, Rename
  <2> QED BY <1>0, <2>1, <2>2, <2>4, OrdinaryTurn, StepEffect DEF Fixed
<1>5. CASE EraseOwned(c) \/ ErasePath(c)
  <2>1. Ordinary(c)
    BY <1>5, <1>r, OutcomeNames DEF EraseOwned, ErasePath
  <2>2. CASE Put(c, None) /\ UNCHANGED <<body, faults>>
    <3>1. Shape(c)
      BY <1>t, <2>2 DEF Shape, Put
    <3>2. UNCHANGED <<setup, up>> /\ taken \subseteq taken'
      BY <1>5 DEF EraseOwned, ErasePath, Fixed, Remove
    <3> QED BY <1>0, <2>1, <2>2, <3>1, <3>2, OrdinaryTurn, StepEffect DEF Counted
  <2>3. CASE UNCHANGED <<ent, taken, body, faults>>
    BY <1>0, <1>5, <2>1, <2>3, OrdinaryEffect DEF EraseOwned, ErasePath, Fixed
  <2>4. CASE /\ Fault("error") /\ UNCHANGED <<ent, taken>>
             /\ body' = [body EXCEPT ![op[c].made].whole = FALSE]
    <3>1. op[c].made \in 1..Len(body) /\ op[c].pc \in {"erase", "erasePath"}
      BY <1>0, <1>t, <1>5, <1>ok, OpType
         DEF EraseOwned, ErasePath, Sent, WorkspaceOK, OpState, Bounded, None
    <3> DEFINE v == [body[op[c].made] EXCEPT !.whole = FALSE]
    <3>2. v \in Object
      BY <1>0, <3>1, ObjectType DEF Object
    <3>3. body' = [body EXCEPT ![op[c].made] = v]
      BY <2>4
    <3>4. body[op[c].made].data <= v.data
      BY <1>0, <3>1, ObjectType DEF Object
    <3>5. Contents(c) /\ Len(body') = Len(body)
      <4> HIDE DEF v
      <4> QED BY <1>0, <1>k, <2>4, <3>1, <3>2, <3>3, <3>4, ChangedContents DEF v
    <3>6. faults' \in Nat /\ faults <= faults'
      BY <1>0, <2>4 DEF Fault, Typed
    <3> QED BY <1>0, <1>5, <2>1, <2>4, <3>5, <3>6, OrdinaryTurn
            DEF EraseOwned, ErasePath, Effect, Frame, Shape, Fixed
  <2> QED BY <1>5, <2>2, <2>3, <2>4 DEF EraseOwned, ErasePath, Fixed, Remove
<1>6. CASE ExitWorkspace(c)
  <2>1. Turns(c) /\ Bounded(op'[c], Len(body))
    <3> DEFINE v == IF op[c].pc = "open"
                    THEN [op[c] EXCEPT !.exit = "cleanup", !.pc = "prepare"]
                    ELSE [op[c] EXCEPT !.exit = "pending"]
    <3>1. v \in OpState /\ Bounded(v, Len(body))
      BY <1>0, OpType, StepNames DEF OpState, Bounded
    <3>2. op' = [op EXCEPT ![c] = v]
      BY <1>0, <1>6 DEF ExitWorkspace, Typed
    <3> QED BY <1>0, <3>1, <3>2, TurnsTo
  <2> QED BY <1>0, <1>6, <2>1, QuietEffect DEF ExitWorkspace
<1> QED BY <1>1, <1>2, <1>3, <1>4, <1>5, <1>6 DEF WorkspaceStep

\* A step of a call does nothing else.
LEMMA StepsHaveEffect ==
  ASSUME Inv, NEW c \in Calls, Step(c)
  PROVE  Effect(c)
BY PublicationEffect, SwapEffect, MoveEffect, WorkspaceEffect DEF Step

-----------------------------------------------------------------------------
(* What every step of a call leaves alone.                                 *)

LEMMA EffectTypes ==
  ASSUME Typed, NEW c \in Calls, Effect(c)
  PROVE  Typed'
<1>t. /\ ent \in [Places -> Nat] /\ Len(body) \in Nat /\ Mine(c) \subseteq Places
      /\ Len(body') \in Nat /\ Len(body) <= Len(body')
      /\ \A n \in Places : ent[n] <= Len(body)
  BY SituationType, OpType, LenProperties DEF Typed, Mine, Effect, Contents
<1>1. ent' \in [Places -> Nat] /\ \A n \in Places : ent'[n] <= Len(body')
  <2>1. ent' \in [Places -> Nat]
    BY <1>t DEF Effect, Shape, None, Mine
  <2>2. \A n \in Places : ent'[n] <= Len(body) \/ ent'[n] <= Len(body')
    BY <1>t DEF Effect, Shape, None, Mine
  <2> QED BY <1>t, <2>1, <2>2
<1>2. \A d \in Calls : op'[d] \in OpState /\ Bounded(op'[d], Len(body'))
  <2> TAKE d \in Calls
  <2>1. CASE d = c
    BY <2>1 DEF Effect, Frame, Turns
  <2>2. CASE d # c
    <3>1. op'[d] = op[d] /\ op[d] \in OpState /\ Bounded(op[d], Len(body))
      BY <2>2 DEF Effect, Frame, Turns, Typed
    <3> QED BY <1>t, <3>1 DEF Bounded, OpState
  <2> QED BY <2>1, <2>2
<1>3. op' \in [Calls -> OpState]
  BY DEF Effect, Frame, Turns, Typed
<1> QED BY <1>1, <1>2, <1>3 DEF Typed, Effect, Frame, Contents

LEMMA SameSituation ==
  ASSUME setup' = setup, NEW c \in Calls
  PROVE  /\ Kind(c)' = Kind(c) /\ From(c)' = From(c) /\ To(c)' = To(c) /\ Home(c)' = Home(c)
         /\ Way(c)' = Way(c) /\ TreeCalls' = TreeCalls /\ TreeNames' = TreeNames
         /\ Sources' = Sources
BY DEF Kind, From, To, Home, Way, TreeCalls, TreeNames, Sources

LEMMA SameTrees ==
  ASSUME setup' = setup
  PROVE  TreeCalls' = TreeCalls /\ TreeNames' = TreeNames /\ Sources' = Sources
BY DEF From, TreeCalls, TreeNames, Sources

LEMMA TreePlaces ==
  Calls \cup TreeNames \subseteq Places
BY DEF Places, TreeNames, TreeCalls, ForTrees

\* Another call's private name and workspace are not touched.
LEMMA OthersKept ==
  ASSUME Typed, NEW c \in Calls, Effect(c), NEW d \in Calls \ {c}
  PROVE  /\ ent'[d] = ent[d] /\ op'[d] = op[d]
         /\ Kind(d) = "workspace" => ent'[From(d)] = ent[From(d)]
<1>1. d \notin Mine(c) /\ (Kind(d) = "workspace" => From(d) \notin Mine(c))
  BY SituationType, NamesApart DEF Typed, Mine
<1>2. \A n \in Places \ Mine(c) : ent'[n] = ent[n]
  BY DEF Effect, Shape, Typed, Mine
<1>3. d \in Places /\ From(d) \in Places
  BY SituationType DEF Typed
<1> QED BY <1>1, <1>2, <1>3 DEF Effect, Frame, Turns, Typed

\* An object is at a name where it was, or came from another name of the call.
LEMMA Spread ==
  ASSUME Typed, NEW c \in Calls, Effect(c), NEW n \in Places,
         ent'[n] # None, ent'[n] <= Len(body), ent'[n] # ent[n]
  PROVE  n \in Mine(c) /\ \E m \in Mine(c) \ {n} : ent[m] = ent'[n]
<1>1. Len(body) \in Nat /\ Mine(c) \subseteq Places
  BY OpType, SituationType DEF Typed, Mine
<1> QED BY <1>1, SituationType DEF Effect, Shape, Typed, Mine

LEMMA SoleNext ==
  ASSUME Typed, Sole, NEW c \in Calls, Effect(c)
  PROVE  Sole'
<1> DEFINE Alone == Calls \cup TreeNames
<1>1. /\ c \in TreeCalls => Mine(c) \subseteq Alone
      /\ c \notin TreeCalls => From(c) \notin Alone /\ To(c) \notin Alone
      /\ Alone \subseteq Places /\ Mine(c) \subseteq Places
  BY NamesApart, SituationType DEF Typed, Mine, Places
<1>2. ent \in [Places -> Nat] /\ \A n \in Places : ent[n] <= Len(body) /\ ent[n] # Len(body) + 1
  BY OpType DEF Typed
<1> SUFFICES ASSUME NEW n \in Alone, NEW m \in Places \ {n}, ent'[m] = ent'[n], ent'[n] # None
             PROVE  FALSE
  BY SameSituation DEF Sole, Effect, Frame
<1>3. \A x \in Alone, y \in Places : x # y /\ ent[x] = ent[y] => ent[x] = None
  BY DEF Sole
<1>4. n \in Places /\ m \in Places
  BY <1>1
<1> HIDE DEF Alone
<1>5. CASE ent' = ent
  BY <1>3, <1>4, <1>5
<1>6. CASE \E x \in Mine(c) : ent' = [ent EXCEPT ![x] = None]
  BY <1>1, <1>2, <1>3, <1>4, <1>6
<1>7. CASE \E a, b \in Mine(c) : /\ a # b /\ (c \notin TreeCalls => b = To(c))
                                 /\ ent' = [ent EXCEPT ![b] = ent[a], ![a] = None]
  <2> PICK a \in Mine(c), b \in Mine(c) : /\ a # b /\ (c \notin TreeCalls => b = To(c))
                                 /\ ent' = [ent EXCEPT ![b] = ent[a], ![a] = None]
    BY <1>7
  <2>1. \A x \in Places : ent'[x] = IF x = a THEN None ELSE IF x = b THEN ent[a] ELSE ent[x]
    BY <1>1, <1>2
  <2>2. n # a /\ m # a
    BY <2>1, <1>4
  <2>3. CASE n = b
    <3>1. a \in Alone
      BY <1>1, <2>3, SituationType DEF Mine, Typed
    <3> QED BY <1>1, <1>3, <1>4, <2>1, <2>2, <2>3, <3>1
  <2>4. CASE n # b
    BY <1>1, <1>3, <1>4, <2>1, <2>2, <2>4
  <2> QED BY <2>3, <2>4
<1>8. CASE /\ Kind(c) = "publish" /\ ent' = [ent EXCEPT ![To(c)] = ent[From(c)]]
  <2>1. From(c) \notin Alone /\ To(c) \notin Alone /\ From(c) \in Places
    BY <1>1, <1>8, SituationType DEF Typed
  <2> QED BY <1>2, <1>3, <1>4, <1>8, <2>1
<1>9. CASE \E x \in Mine(c) : ent' = [ent EXCEPT ![x] = Len(body) + 1]
  BY <1>1, <1>2, <1>3, <1>4, <1>9
<1> QED BY <1>5, <1>6, <1>7, <1>8, <1>9 DEF Effect, Shape

\* An object that is at one private name only stays there.
LEMMA StaysAlone ==
  ASSUME Typed, NEW c \in Calls, Effect(c), NEW d \in Calls \ {c}, NEW i \in Nat,
         i # None, i <= Len(body), \A n \in Places \ {d} : ent[n] # i
  PROVE  \A n \in Places \ {d} : ent'[n] # i
<1> SUFFICES ASSUME NEW n \in Places \ {d}, ent'[n] = i
             PROVE  FALSE
  OBVIOUS
<1>1. PICK m \in Mine(c) \ {n} : ent[m] = i
  BY Spread
<1>2. d \notin Mine(c) /\ Mine(c) \subseteq Places
  BY SituationType DEF Typed, Mine
<1> QED BY <1>1, <1>2

LEMMA OthersOK ==
  ASSUME Inv, NEW c \in Calls, Effect(c), NEW d \in Calls \ {c}
  PROVE  CallOK(d)'
<1>0. Typed /\ CallOK(d) /\ setup' = setup /\ up' = up /\ faults <= faults'
      /\ faults \in Nat /\ faults' \in Nat
  BY DEF Inv, Effect, Frame, Typed
<1>1. /\ ent'[d] = ent[d] /\ op'[d] = op[d]
      /\ Kind(d) = "workspace" => ent'[From(d)] = ent[From(d)]
  BY <1>0, OthersKept
<1>2. /\ Kind(d)' = Kind(d) /\ From(d)' = From(d) /\ To(d)' = To(d) /\ Home(d)' = Home(d)
      /\ Way(d)' = Way(d)
  BY <1>0, SameSituation
<1>3. op[d].old \in Nat /\ op[d].old <= Len(body) /\ op[d].made \in Nat /\ op[d].made <= Len(body)
  BY <1>0, OpType DEF OpState, Bounded
<1>4. CASE Kind(d) = "publish"
  BY <1>0, <1>1, <1>2, <1>4 DEF CallOK, PublicationOK
<1>5. CASE Kind(d) = "move"
  <2>1. faults > 0 => faults' > 0
    BY <1>0
  <2> QED BY <1>0, <1>1, <1>2, <1>5, <2>1 DEF CallOK, MoveOK, Unadmitted
<1>6. CASE Kind(d) = "swap"
  <2>1. op[d].pc = "cleaning" => \A n \in Places \ {d} : ent'[n] # op[d].old
    BY <1>0, <1>3, <1>6, StaysAlone DEF CallOK, SwapOK
  <2> QED BY <1>0, <1>1, <1>2, <1>6, <2>1 DEF CallOK, SwapOK
<1>7. CASE Kind(d) = "workspace"
  <2>1. op[d].pc \in {"erase", "erasePath"} => \A n \in Places \ {d} : ent'[n] # op[d].made
    BY <1>0, <1>3, <1>7, StaysAlone DEF CallOK, WorkspaceOK
  <2> QED BY <1>0, <1>1, <1>2, <1>7, <2>1 DEF CallOK, WorkspaceOK
<1> QED BY <1>0, <1>4, <1>5, <1>6, <1>7, SituationType DEF Typed

-----------------------------------------------------------------------------
(* What a call's own step keeps.                                           *)

\* The fields an ordinary step leaves alone.
Rests(c) ==
  /\ op'[c].src = op[c].src /\ op'[c].old = op[c].old /\ op'[c].made = op[c].made
  /\ op'[c].print = op[c].print /\ op'[c].read = op[c].read /\ op'[c].pub = op[c].pub
  /\ op'[c].exit = op[c].exit

LEMMA Settled ==
  ASSUME Typed, NEW c \in Calls, NEW told \in Outcomes, Settle(c, told)
  PROVE  Rests(c) /\ op'[c].pc = "settled" /\ op'[c].told = told /\ ~op'[c].reg
<1>1. op'[c] = [op[c] EXCEPT !.pc = "settled", !.told = told, !.reg = FALSE]
  BY Settles
<1>2. op[c] \in OpState
  BY OpType
<1> QED BY <1>1, <1>2 DEF Rests, OpState

LEMMA Gone ==
  ASSUME Typed, NEW c \in Calls, NEW pc \in Steps, Go(c, pc)
  PROVE  Rests(c) /\ op'[c].pc = pc /\ op'[c].told = op[c].told /\ op'[c].reg = op[c].reg
         /\ op'[c].seen = op[c].seen
<1>1. op'[c] = [op[c] EXCEPT !.pc = pc]
  BY Goes
<1>2. op[c] \in OpState
  BY OpType
<1> QED BY <1>1, <1>2 DEF Rests, OpState

LEMMA Dispatched ==
  ASSUME Typed, NEW c \in Calls, NEW pc \in Steps, NEW n \in Places, Send(c, pc, n)
  PROVE  Rests(c) /\ op'[c].pc = pc /\ op'[c].told = op[c].told /\ op'[c].reg = op[c].reg
         /\ op'[c].seen = ent[n]
<1>1. op'[c] = [op[c] EXCEPT !.pc = pc, !.seen = ent[n]]
  BY DEF Send, Typed
<1>2. op[c] \in OpState
  BY OpType
<1> QED BY <1>1, <1>2 DEF Rests, OpState

LEMMA PublicationOwn ==
  ASSUME Inv, NEW c \in Calls, PublicationStep(c)
  PROVE  CallOK(c)'
<1>0. Typed /\ op \in [Calls -> OpState] /\ ent \in [Places -> Nat] /\ op[c] \in OpState
      /\ Len(body) \in Nat /\ op[c].src <= Len(body) /\ op[c].src \in Nat
  BY OpType DEF Inv, Typed, Bounded, OpState
<1>1. Effect(c) /\ Kind(c) = "publish"
  BY PublicationEffect
<1>2. PublicationOK(c) /\ CallOK(c)
  BY <1>1 DEF Inv, CallOK
<1>3. /\ From(c) \in Names /\ To(c) \in Names /\ c \in Places /\ c \notin Names
      /\ Way(c) \in {"copy", "link", "rename"} /\ From(c) \in Places /\ To(c) \in Places
      /\ Home(c) \in Procs
  BY <1>0, <1>1, SituationType DEF Typed
<1>4. setup' = setup /\ up' = up /\ Way(c)' = Way(c) /\ Kind(c)' = Kind(c) /\ Home(c)' = Home(c)
  BY <1>1, SameSituation DEF Effect, Frame
<1>q. Ordinary(c) => op'[c].exit = op[c].exit /\ (op'[c].reg => op[c].reg)
  BY <1>0, Settled, Gone, Dispatched DEF Ordinary, Rests
<1>5. op'[c].exit = op[c].exit /\ (op'[c].reg => op[c].reg)
  <2>1. CASE Ordinary(c)
    BY <1>q, <2>1
  <2>2. ASSUME NEW i, NEW pc, Created(c, i, pc)
        PROVE  op'[c].exit = op[c].exit /\ (op'[c].reg => op[c].reg)
    BY <1>0, <2>2 DEF Created, OpState
  <2>3. CASE op' = [op EXCEPT ![c].pc = "check", ![c].src = ent[From(c)]]
    BY <1>0, <2>3 DEF OpState
  <2>4. CASE op' = [op EXCEPT ![c].pc = "verify", ![c].read = body[op[c].src].data]
    BY <1>0, <2>4 DEF OpState
  <2>a. ASSUME NEW i, NEW pc, op' = [op EXCEPT ![c].pc = pc, ![c].made = i]
        PROVE  op'[c].exit = op[c].exit /\ (op'[c].reg => op[c].reg)
    BY <1>0, <2>a DEF OpState
  <2>b. ASSUME NEW pc, op' = [op EXCEPT ![c].pc = pc, ![c].pub = TRUE]
        PROVE  op'[c].exit = op[c].exit /\ (op'[c].reg => op[c].reg)
    BY <1>0, <2>b DEF OpState
  <2>c. CASE op' = [op EXCEPT ![c].pc = "verify", ![c].pub = TRUE, ![c].read = body[op[c].made].data]
    BY <1>0, <2>c DEF OpState
  <2>d. CASE op' = [op EXCEPT ![c].pc = "portable", ![c].old = op[c].made, ![c].made = None]
    BY <1>0, <2>d DEF OpState
  <2> DEFINE Other == \/ Ordinary(c) \/ (\E i, pc : Created(c, i, pc))
                      \/ op' = [op EXCEPT ![c].pc = "check", ![c].src = ent[From(c)]]
                      \/ op' = [op EXCEPT ![c].pc = "verify", ![c].read = body[op[c].src].data]
                      \/ \E i, pc : op' = [op EXCEPT ![c].pc = pc, ![c].made = i]
                      \/ \E pc : op' = [op EXCEPT ![c].pc = pc, ![c].pub = TRUE]
                      \/ op' = [op EXCEPT ![c].pc = "verify", ![c].pub = TRUE, ![c].read = body[op[c].made].data]
                      \/ op' = [op EXCEPT ![c].pc = "portable", ![c].old = op[c].made, ![c].made = None]
  <2>5. OpenSource(c) \/ CheckSource(c) \/ LinkTarget(c) \/ FillCopy(c) => Other
    BY <1>3, StepNames, OutcomeNames, ReplyOrdinary DEF OpenSource, CheckSource, LinkTarget, FillCopy, Undoes, Ordinary, Created
  <2>e. CreateCopy(c) \/ CreateNative(c) \/ AdmitCopy(c) \/ AdoptNative(c) => Other
    BY <1>3, StepNames, OutcomeNames DEF CreateCopy, CreateNative, AdmitCopy, AdoptNative, Exists, CreateTarget, Ordinary
  <2>f. NativeCopy(c) \/ NativeUndo(c) \/ NativeRemove(c) => Other
    BY <1>3, StepNames, OutcomeNames, ReplyGoes DEF NativeCopy, NativeUndo, NativeRemove, GiveUpNative, Reply, Ordinary
  <2>6. VerifyTarget(c) \/ SyncParent(c) \/ FinishPublication(c) \/ CheckUndo(c) \/ RemoveCreated(c) => Other
    BY <1>3, StepNames, OutcomeNames, ReplyOrdinary DEF VerifyTarget, SyncParent, FinishPublication, CheckUndo, RemoveCreated, Undoes, Ordinary, Created
  <2>7. RenameSource(c) \/ CheckSingle(c) \/ LinkPair(c) \/ CheckPair(c) \/ UnlinkSource(c) => Other
    BY <1>3, StepNames, OutcomeNames, ReplyOrdinary DEF RenameSource, CheckSingle, LinkPair, CheckPair, UnlinkSource, Undoes, Ordinary, Created
  <2> QED BY <2>1, <2>2, <2>3, <2>4, <2>5, <2>6, <2>7, <2>a, <2>b, <2>c, <2>d, <2>e, <2>f
          DEF PublicationStep
<1>6. ent'[c] = None
  <2>1. From(c) # c /\ To(c) # c /\ ent[c] = None
    BY <1>2, <1>3 DEF PublicationOK
  <2>2. OpenSource(c) \/ CheckSource(c) \/ LinkTarget(c) \/ FillCopy(c) => ent'[c] = ent[c]
    BY <1>0, <1>3, <2>1 DEF OpenSource, CheckSource, LinkTarget, FillCopy, Put, Create, Rename, Remove
  <2>5. CreateCopy(c) \/ CreateNative(c) \/ AdmitCopy(c) \/ AdoptNative(c) => ent'[c] = ent[c]
    BY <1>0, <1>3, <2>1 DEF CreateCopy, CreateNative, AdmitCopy, AdoptNative, Exists, CreateTarget, Put, Create
  <2>6. NativeCopy(c) \/ NativeUndo(c) \/ NativeRemove(c) => ent'[c] = ent[c]
    BY <1>0, <1>3, <2>1 DEF NativeCopy, NativeUndo, NativeRemove, Put, Remove
  <2>3. VerifyTarget(c) \/ SyncParent(c) \/ FinishPublication(c) \/ CheckUndo(c) \/ RemoveCreated(c) => ent'[c] = ent[c]
    BY <1>0, <1>3, <2>1 DEF VerifyTarget, SyncParent, FinishPublication, CheckUndo, RemoveCreated, Put, Create, Rename, Remove
  <2>4. RenameSource(c) \/ CheckSingle(c) \/ LinkPair(c) \/ CheckPair(c) \/ UnlinkSource(c) => ent'[c] = ent[c]
    BY <1>0, <1>3, <2>1 DEF RenameSource, CheckSingle, LinkPair, CheckPair, UnlinkSource, Put, Create, Rename, Remove
  <2> QED BY <2>1, <2>2, <2>3, <2>4, <2>5, <2>6 DEF PublicationStep
<1> SUFFICES PublicationOK(c)'
  BY <1>1, <1>2, <1>4, <1>5 DEF CallOK
<1>s. ASSUME NEW told \in Outcomes, Settle(c, told)
      PROVE  PublicationOK(c)'
  BY <1>0, <1>6, <1>s, Settled DEF PublicationOK, Rests, Unknown, Holding
<1>7. CASE OpenSource(c)
  <2>1. CASE Settle(c, "failed")
    BY <1>s, <2>1, OutcomeNames
  <2>2. CASE ent[From(c)] # None /\ op' = [op EXCEPT ![c].pc = "check", ![c].src = ent[From(c)]]
    BY <1>0, <1>2, <1>6, <1>7, <2>2 DEF OpenSource, At, PublicationOK, Unknown, Holding, OpState
  <2> QED BY <1>7, <2>1, <2>2 DEF OpenSource
<1>8. CASE CheckSource(c)
  <2>1. CASE Settle(c, "failed")
    BY <1>s, <2>1, OutcomeNames
  <2>2. PICK pc \in {"link", "rename", "single"} :
          /\ Settle(c, "failed") \/ Go(c, pc)
          /\ pc = "link" <=> Way(c) # "rename"
    BY <1>0, <1>8, SituationType DEF CheckSource, Typed
  <2>3. CASE Go(c, pc)
    <3>1. Rests(c) /\ op'[c].pc = pc
      BY <1>0, <2>3, Gone, StepNames
    <3> QED BY <1>2, <1>4, <1>6, <1>8, <2>2, <3>1 DEF PublicationOK, Rests, Unknown, Holding, CheckSource, At
  <2> QED BY <2>1, <2>2, <2>3
<1>g. ASSUME NEW pc \in Steps, Go(c, pc)
      PROVE  Rests(c) /\ op'[c].pc = pc /\ op'[c].seen = op[c].seen
  BY <1>0, <1>g, Gone
<1>c. ASSUME NEW i, NEW pc, Created(c, i, pc)
      PROVE  /\ op'[c].made = i /\ op'[c].pc = pc /\ op'[c].src = op[c].src /\ op'[c].seen = op[c].seen
  BY <1>0, <1>c DEF Created, OpState
<1>u. ASSUME Undoes(c), op[c].pc \in Holding
      PROVE  PublicationOK(c)'
  <2>1. CASE Way(c) = "rename"
    BY <1>s, <1>u, <2>1, OutcomeNames DEF Undoes
  <2>2. CASE Way(c) # "rename"
    <3>1. Rests(c) /\ op'[c].pc = "undo"
      BY <1>g, <1>u, <2>2, StepNames DEF Undoes
    <3> QED BY <1>2, <1>4, <1>6, <1>u, <2>2, <3>1 DEF PublicationOK, Rests, Unknown, Holding
  <2> QED BY <2>1, <2>2
<1>9. CASE LinkTarget(c) \/ LinkPair(c)
  <2>1. op[c].src # None /\ op[c].made = None /\ op[c].pc \in {"link", "pair"} /\ (op[c].pc = "link" <=> Way(c) # "rename")
    BY <1>2, <1>9 DEF LinkTarget, LinkPair, At, PublicationOK
  <2>2. PICK pc \in {"verify", "checkPair"} :
          \/ Settle(c, "failed") \/ (Go(c, "create") /\ Way(c) = "copy")
          \/ Created(c, op[c].src, pc) /\ (pc = "checkPair" => op[c].pc = "pair")
    BY <1>9 DEF LinkTarget, LinkPair, At
  <2>3. CASE Settle(c, "failed")
    BY <1>s, <2>3, OutcomeNames
  <2>4. CASE Go(c, "create") /\ Way(c) = "copy"
    <3>1. Rests(c) /\ op'[c].pc = "create"
      BY <1>g, <2>4, StepNames
    <3>2. op[c].pc = "link" /\ ~op[c].pub /\ op[c].old = None
      BY <1>2, <2>1, <2>4 DEF PublicationOK
    <3> QED BY <1>4, <1>6, <2>1, <2>4, <3>1, <3>2 DEF PublicationOK, Rests, Unknown, Holding
  <2>5. CASE Created(c, op[c].src, pc) /\ (pc = "checkPair" => op[c].pc = "pair")
    <3>1. op'[c].made = op[c].src /\ op'[c].pc = pc /\ op'[c].src = op[c].src
      BY <1>c, <2>5
    <3> QED BY <1>4, <1>6, <2>1, <2>5, <3>1 DEF PublicationOK, Unknown, Holding
  <2> QED BY <2>2, <2>3, <2>4, <2>5
<1>v. ASSUME Go(c, "void")
      PROVE  PublicationOK(c)'
  <2>1. Rests(c) /\ op'[c].pc = "void"
    BY <1>g, <1>v, StepNames
  <2> QED BY <1>6, <2>1 DEF PublicationOK, Unknown, Holding
<1>10. CASE CreateCopy(c) \/ CreateNative(c)
  <2>1. op[c].src # None /\ op[c].pc \in {"create", "portable"} /\ Way(c) = "copy" /\ ~op[c].pub
    BY <1>2, <1>10 DEF CreateCopy, CreateNative, At, PublicationOK, Unknown, Holding
  <2>2. CASE Settle(c, "failed")
    BY <1>s, <2>2, OutcomeNames
  <2>3. ASSUME NEW pc \in {"native", "admit"}, CreateTarget(c, pc), pc = "native" => CreateNative(c)
        PROVE  PublicationOK(c)'
    <3>1. /\ op'[c].made = Len(body) + 1 /\ op'[c].pc = pc /\ op'[c].src = op[c].src
          /\ op'[c].pub = op[c].pub /\ op'[c].old = op[c].old
      BY <1>0, <2>3 DEF CreateTarget, OpState
    <3>2. pc = "native" => op[c].old = None
      BY <1>2, <2>3 DEF CreateNative, At, PublicationOK
    <3> QED BY <1>0, <1>4, <1>6, <2>1, <3>1, <3>2 DEF PublicationOK, Unknown, Holding, None
  <2> QED BY <1>10, <2>2, <2>3 DEF CreateCopy, CreateNative, Exists
<1>22. CASE NativeCopy(c)
  <2>1. CASE \E pc \in {"adopt", "nativeUndo"} : Go(c, pc)
    <3>1. PICK pc \in {"adopt", "nativeUndo"} : Rests(c) /\ op'[c].pc = pc
      BY <1>g, <2>1, StepNames
    <3> QED BY <1>2, <1>4, <1>6, <1>22, <3>1
            DEF NativeCopy, Sent, PublicationOK, Rests, Unknown, Holding
  <2> QED BY <1>22, <1>v, <2>1 DEF NativeCopy, Reply
<1>w. ASSUME GiveUpNative(c), op[c].pc \in {"nativeUndo", "nativeRemove"}
      PROVE  PublicationOK(c)'
  <2>1. CASE op' = [op EXCEPT ![c].pc = "portable", ![c].old = op[c].made, ![c].made = None]
    <3>1. /\ op'[c].pc = "portable" /\ op'[c].made = None /\ op'[c].src = op[c].src
          /\ op'[c].pub = op[c].pub
      BY <1>0, <2>1 DEF OpState
    <3> QED BY <1>2, <1>4, <1>6, <1>w, <3>1 DEF PublicationOK, Unknown, Holding
  <2>2. CASE Settle(c, "failed")
    BY <1>s, <2>2, OutcomeNames
  <2> QED BY <1>w, <1>v, <2>1, <2>2 DEF GiveUpNative, Reply
<1>23. CASE NativeUndo(c)
  <2>1. CASE ent[To(c)] = op[c].made /\ Send(c, "nativeRemove", To(c))
    <3>1. Rests(c) /\ op'[c].pc = "nativeRemove" /\ op'[c].seen = op[c].made
      BY <1>0, <1>3, <2>1, Dispatched, StepNames
    <3> QED BY <1>2, <1>4, <1>6, <1>23, <3>1
            DEF NativeUndo, Sent, PublicationOK, Rests, Unknown, Holding
  <2> QED BY <1>23, <1>w, <2>1 DEF NativeUndo, Sent
<1>24. CASE NativeRemove(c)
  BY <1>24, <1>w DEF NativeRemove, Sent
<1>25. CASE AdoptNative(c) \/ AdmitCopy(c)
  <2>0. /\ op[c].src # None /\ op[c].made # None /\ op[c].made # op[c].src /\ Way(c) = "copy"
        /\ op[c].pc \in {"adopt", "admit"}
    BY <1>2, <1>25 DEF AdoptNative, AdmitCopy, At, PublicationOK, Unknown, Holding
  <2>1. CASE Settle(c, "failed")
    BY <1>s, <2>1, OutcomeNames
  <2>2. ASSUME NEW pc \in {"undo", "fill", "verify"}, op'[c].pc = pc, op'[c].src = op[c].src,
               op'[c].made = op[c].made
        PROVE  PublicationOK(c)'
    BY <1>4, <1>6, <2>0, <2>2 DEF PublicationOK, Unknown, Holding
  <2>3. ASSUME NEW pc \in {"undo", "fill"}, op' = [op EXCEPT ![c].pc = pc, ![c].pub = TRUE]
        PROVE  op'[c].pc = pc /\ op'[c].src = op[c].src /\ op'[c].made = op[c].made
    BY <1>0, <2>3 DEF OpState
  <2>4. CASE op' = [op EXCEPT ![c].pc = "verify", ![c].pub = TRUE, ![c].read = body[op[c].made].data]
    <3>1. op'[c].pc = "verify" /\ op'[c].src = op[c].src /\ op'[c].made = op[c].made
      BY <1>0, <2>4 DEF OpState
    <3> QED BY <2>2, <3>1
  <2> QED BY <1>25, <2>1, <2>2, <2>3, <2>4 DEF AdoptNative, AdmitCopy
<1>11. CASE FillCopy(c)
  <2>1. CASE Undoes(c)
    BY <1>11, <1>u, <2>1 DEF FillCopy, At, Unknown, Holding
  <2>2. CASE op' = [op EXCEPT ![c].pc = "verify", ![c].read = body[op[c].src].data]
    <3>1. op'[c].pc = "verify" /\ op'[c].src = op[c].src /\ op'[c].made = op[c].made
      BY <1>0, <2>2 DEF OpState
    <3> QED BY <1>2, <1>6, <1>11, <3>1 DEF FillCopy, At, PublicationOK, Unknown, Holding
  <2> QED BY <1>11, <2>1, <2>2 DEF FillCopy
<1>12. CASE VerifyTarget(c) \/ SyncParent(c) \/ FinishPublication(c)
  <2>1. CASE Undoes(c)
    BY <1>12, <1>u, <2>1 DEF VerifyTarget, SyncParent, FinishPublication, At, Unknown, Holding
  <2>2. CASE Settle(c, "preserved") \/ Settle(c, "ok")
    BY <1>s, <2>2, OutcomeNames
  <2>3. CASE \E pc \in {"sync", "finish"} : Go(c, pc)
    <3>1. PICK pc \in {"sync", "finish"} : Rests(c) /\ op'[c].pc = pc
      BY <1>g, <2>3, StepNames
    <3> QED BY <1>2, <1>6, <1>12, <3>1
            DEF VerifyTarget, SyncParent, FinishPublication, At, PublicationOK, Rests, Unknown, Holding
  <2> QED BY <1>12, <2>1, <2>2, <2>3 DEF VerifyTarget, SyncParent, FinishPublication
<1>13. CASE CheckUndo(c)
  <2>1. CASE \E told \in {"removed", "preserved", "unknown"} : Settle(c, told)
    BY <1>s, <2>1, OutcomeNames
  <2>2. CASE ent[To(c)] = op[c].made /\ Send(c, "remove", To(c))
    <3>1. Rests(c) /\ op'[c].pc = "remove" /\ op'[c].seen = op[c].made
      BY <1>0, <1>3, <2>2, Dispatched, StepNames
    <3> QED BY <1>2, <1>4, <1>6, <1>13, <3>1 DEF CheckUndo, At, PublicationOK, Rests, Unknown, Holding
  <2> QED BY <1>13, <2>1, <2>2 DEF CheckUndo
<1>14. CASE RemoveCreated(c)
  <2>1. CASE \E told \in {"removed", "unknown"} : Settle(c, told)
    BY <1>s, <2>1, OutcomeNames
  <2>2. CASE Go(c, "void")
    <3>1. Rests(c) /\ op'[c].pc = "void"
      BY <1>g, <2>2, StepNames
    <3> QED BY <1>6, <3>1 DEF PublicationOK, Unknown, Holding
  <2> QED BY <1>14, <2>1, <2>2 DEF RemoveCreated, Reply
<1>15. CASE RenameSource(c)
  <2>1. CASE Settle(c, "failed")
    BY <1>s, <2>1, OutcomeNames
  <2>2. CASE Created(c, op[c].src, "verify")
    <3>1. op'[c].made = op[c].src /\ op'[c].pc = "verify" /\ op'[c].src = op[c].src
      BY <1>c, <2>2
    <3> QED BY <1>2, <1>6, <1>15, <3>1 DEF RenameSource, At, PublicationOK, Unknown, Holding
  <2> QED BY <1>15, <2>1, <2>2 DEF RenameSource
<1>16. CASE CheckSingle(c)
  <2>1. CASE Settle(c, "failed")
    BY <1>s, <2>1, OutcomeNames
  <2>2. CASE Go(c, "pair") /\ op[c].pc = "single"
    <3>1. Rests(c) /\ op'[c].pc = "pair"
      BY <1>g, <2>2, StepNames
    <3> QED BY <1>2, <1>4, <1>6, <2>2, <3>1 DEF PublicationOK, Rests, Unknown, Holding
  <2> QED BY <1>16, <2>1, <2>2 DEF CheckSingle, At
<1>17. CASE CheckPair(c)
  <2>1. CASE Settle(c, "preserved")
    BY <1>s, <2>1, OutcomeNames
  <2>2. CASE Send(c, "unlink", From(c)) /\ ent[From(c)] = op[c].src
    <3>1. Rests(c) /\ op'[c].pc = "unlink" /\ op'[c].seen = op[c].src
      BY <1>0, <1>3, <2>2, Dispatched, StepNames
    <3> QED BY <1>2, <1>4, <1>6, <1>17, <3>1 DEF CheckPair, At, PublicationOK, Rests, Unknown, Holding
  <2> QED BY <1>17, <2>1, <2>2 DEF CheckPair
<1>18. CASE UnlinkSource(c)
  <2>1. CASE Settle(c, "preserved")
    BY <1>s, <2>1, OutcomeNames
  <2>2. CASE Go(c, "verify")
    <3>1. Rests(c) /\ op'[c].pc = "verify"
      BY <1>g, <2>2, StepNames
    <3> QED BY <1>2, <1>6, <1>18, <3>1 DEF UnlinkSource, At, PublicationOK, Rests, Unknown, Holding
  <2> QED BY <1>18, <2>1, <2>2 DEF UnlinkSource
<1> QED BY <1>7, <1>8, <1>9, <1>10, <1>11, <1>12, <1>13, <1>14, <1>15, <1>16, <1>17, <1>18,
           <1>22, <1>23, <1>24, <1>25 DEF PublicationStep

LEMMA SwapOwn ==
  ASSUME Inv, NEW c \in Calls, SwapStep(c)
  PROVE  CallOK(c)'
<1>0. Typed /\ Sole /\ op \in [Calls -> OpState] /\ ent \in [Places -> Nat] /\ op[c] \in OpState
  BY OpType DEF Inv, Typed
<1>1. Effect(c) /\ Kind(c) = "swap"
  BY SwapEffect
<1>2. SwapOK(c) /\ CallOK(c)
  BY <1>1 DEF Inv, CallOK
<1>3. /\ c \in Places /\ c \notin Names /\ From(c) \in Places /\ To(c) \in Places
      /\ From(c) # c /\ To(c) # c /\ Home(c) \in Procs
  BY <1>0, <1>1, SituationType DEF Typed
<1>4. setup' = setup /\ up' = up /\ Kind(c)' = Kind(c) /\ Home(c)' = Home(c)
  BY <1>1, SameSituation DEF Effect, Frame
<1>q. Ordinary(c) => op'[c].exit = op[c].exit /\ (op'[c].reg => op[c].reg)
  BY <1>0, Settled, Gone, Dispatched DEF Ordinary, Rests
<1>5. op'[c].exit = op[c].exit /\ (op'[c].reg => op[c].reg)
  <2>1. CASE Ordinary(c)
    BY <1>q, <2>1
  <2>2. CASE op' = [op EXCEPT ![c].src = ent[From(c)], ![c].old = ent[To(c)],
                              ![c].pc = IF ent[To(c)] = None THEN "place" ELSE "backup"]
    BY <1>0, <2>2 DEF OpState
  <2>3. CASE op' = [op EXCEPT ![c].pc = "placeCheck", ![c].pub = TRUE, ![c].made = op[c].src]
    BY <1>0, <2>3 DEF OpState
  <2> DEFINE Other == \/ Ordinary(c)
                      \/ op' = [op EXCEPT ![c].src = ent[From(c)], ![c].old = ent[To(c)],
                              ![c].pc = IF ent[To(c)] = None THEN "place" ELSE "backup"]
                      \/ op' = [op EXCEPT ![c].pc = "placeCheck", ![c].pub = TRUE, ![c].made = op[c].src]
  <2>4. Admit(c) \/ RenameBackup(c) \/ RenamePlace(c) \/ RenameRollback(c) => Other
    BY StepNames, OutcomeNames
       DEF Admit, RenameBackup, RenamePlace, RenameRollback, Keeps, Unpublished, Ordinary
  <2>5. CheckBackup(c) \/ ObserveBackup(c) \/ CheckPlace(c) \/ ObservePlace(c) \/ CheckClean(c)
          \/ RemoveOriginal(c) \/ CheckRollback(c) \/ ObserveRollback(c) => Other
    BY StepNames, OutcomeNames, ReplyOrdinary
       DEF CheckBackup, ObserveBackup, CheckPlace, ObservePlace, CheckClean, RemoveOriginal,
           CheckRollback, ObserveRollback, Keeps, Unpublished, Ordinary
  <2> QED BY <2>1, <2>2, <2>3, <2>4, <2>5 DEF SwapStep
<1> SUFFICES SwapOK(c)'
  BY <1>1, <1>2, <1>4, <1>5 DEF CallOK
<1>s. ASSUME NEW told \in Outcomes, Settle(c, told),
             ent'[c] # None => op[c].old # None /\ told \in {"backup", "indeterminate", "incomplete"}
      PROVE  SwapOK(c)'
  BY <1>0, <1>s, Settled DEF SwapOK, Rests
<1>g. ASSUME NEW pc \in Steps, Go(c, pc)
      PROVE  Rests(c) /\ op'[c].pc = pc
  BY <1>0, <1>g, Gone
<1>u. ASSUME Unpublished(c), ent' = ent
      PROVE  SwapOK(c)'
  <2>1. CASE op[c].old = None
    BY <1>2, <1>s, <1>u, <2>1, OutcomeNames DEF Unpublished, SwapOK
  <2>2. CASE op[c].old # None
    <3>1. Rests(c) /\ op'[c].pc = "rollback"
      BY <1>g, <1>u, <2>2, StepNames DEF Unpublished
    <3> QED BY <1>2, <1>u, <2>2, <3>1 DEF SwapOK, Rests
  <2> QED BY <2>1, <2>2
<1>k. ASSUME Keeps(c), ent'[c] = ent[c]
      PROVE  SwapOK(c)'
  BY <1>2, <1>s, <1>k, OutcomeNames DEF Keeps, SwapOK
<1>6. CASE Admit(c)
  <2>1. ent' = ent /\ ent[c] = None
    BY <1>2, <1>6 DEF Admit, At, SwapOK
  <2>2. CASE Settle(c, "failed")
    BY <1>s, <2>1, <2>2, OutcomeNames
  <2>3. CASE op' = [op EXCEPT ![c].src = ent[From(c)], ![c].old = ent[To(c)],
                              ![c].pc = IF ent[To(c)] = None THEN "place" ELSE "backup"]
    <3>1. /\ op'[c].pc = (IF ent[To(c)] = None THEN "place" ELSE "backup")
          /\ op'[c].old = ent[To(c)]
      BY <1>0, <2>3 DEF OpState
    <3> QED BY <2>1, <3>1 DEF SwapOK
  <2> QED BY <1>6, <2>2, <2>3 DEF Admit
<1>7. CASE CheckBackup(c)
  <2>1. ent' = ent /\ op[c].pc = "backup" /\ ent[c] = None
    BY <1>2, <1>7 DEF CheckBackup, At, SwapOK
  <2>2. CASE Settle(c, "failed")
    BY <1>s, <2>1, <2>2, OutcomeNames
  <2>3. CASE Go(c, "backupRename")
    <3>1. Rests(c) /\ op'[c].pc = "backupRename"
      BY <1>g, <2>3, StepNames
    <3> QED BY <1>2, <2>1, <3>1 DEF SwapOK, Rests
  <2> QED BY <1>7, <2>2, <2>3 DEF CheckBackup
<1>8. CASE RenameBackup(c)
  <2>1. op[c].pc = "backupRename" /\ ent[c] = None /\ op[c].old # None
    BY <1>2, <1>8 DEF RenameBackup, At, SwapOK
  <2>2. CASE Go(c, "backupCheck")
    <3>1. Rests(c) /\ op'[c].pc = "backupCheck"
      BY <1>g, <2>2, StepNames
    <3> QED BY <2>1, <3>1 DEF SwapOK, Rests
  <2>3. CASE Settle(c, "indeterminate")
    BY <1>s, <2>1, <2>3, OutcomeNames
  <2>4. CASE Settle(c, "failed") /\ UNCHANGED ent
    BY <1>s, <2>1, <2>4, OutcomeNames
  <2> QED BY <1>8, <2>2, <2>3, <2>4 DEF RenameBackup
<1>9. CASE ObserveBackup(c)
  <2>1. op[c].pc = "backupCheck" /\ op[c].old # None
    BY <1>2, <1>9 DEF ObserveBackup, At, SwapOK
  <2>2. PICK pc \in {"place", "rollback"} : Go(c, pc)
    BY <1>9 DEF ObserveBackup
  <2>3. Rests(c) /\ op'[c].pc = pc
    BY <1>g, <2>2, StepNames
  <2> QED BY <2>1, <2>3 DEF SwapOK, Rests
<1>10. CASE CheckPlace(c)
  <2>1. op[c].pc = "place" /\ ent' = ent
    BY <1>10 DEF CheckPlace, At
  <2>2. CASE Unpublished(c)
    BY <1>u, <2>1, <2>2
  <2>3. CASE Go(c, "placeRename")
    <3>1. Rests(c) /\ op'[c].pc = "placeRename"
      BY <1>g, <2>3, StepNames
    <3> QED BY <1>2, <2>1, <3>1 DEF SwapOK, Rests
  <2> QED BY <1>10, <2>2, <2>3 DEF CheckPlace
<1>11. CASE RenamePlace(c)
  <2>1. op[c].pc = "placeRename" /\ ent'[c] = ent[c]
    BY <1>0, <1>3, <1>11 DEF RenamePlace, At, Fails, Rename
  <2>2. CASE Keeps(c)
    BY <1>k, <2>1, <2>2
  <2>3. CASE Unpublished(c) /\ UNCHANGED ent
    BY <1>u, <2>3
  <2>4. CASE op' = [op EXCEPT ![c].pc = "placeCheck", ![c].pub = TRUE, ![c].made = op[c].src]
    <3>1. op'[c].pc = "placeCheck" /\ op'[c].pub /\ op'[c].old = op[c].old
      BY <1>0, <2>4 DEF OpState
    <3> QED BY <1>2, <2>1, <3>1 DEF SwapOK
  <2> QED BY <1>11, <2>2, <2>3, <2>4 DEF RenamePlace
<1>12. CASE ObservePlace(c)
  <2>1. op[c].pc = "placeCheck" /\ ent' = ent
    BY <1>12 DEF ObservePlace, At
  <2>2. CASE Keeps(c)
    BY <1>k, <2>1, <2>2
  <2>3. CASE Settle(c, "ok") /\ op[c].old = None
    BY <1>2, <1>s, <2>1, <2>3, OutcomeNames DEF SwapOK
  <2>4. CASE Go(c, "clean") /\ op[c].old # None
    <3>1. Rests(c) /\ op'[c].pc = "clean"
      BY <1>g, <2>4, StepNames
    <3> QED BY <1>2, <2>1, <2>4, <3>1 DEF SwapOK, Rests
  <2> QED BY <1>12, <2>2, <2>3, <2>4 DEF ObservePlace
<1>13. CASE CheckClean(c)
  <2>1. op[c].pc = "clean" /\ ent' = ent /\ op[c].old # None
    BY <1>2, <1>13 DEF CheckClean, At, SwapOK
  <2>2. CASE Settle(c, "backup")
    BY <1>s, <2>1, <2>2, OutcomeNames
  <2>3. CASE Go(c, "cleaning") /\ ent[c] = op[c].old
    <3>1. Rests(c) /\ op'[c].pc = "cleaning"
      BY <1>g, <2>3, StepNames
    <3>2. \A n \in Places \ {c} : ent'[n] # op[c].old
      BY <1>0, <2>1, <2>3 DEF Sole
    <3> QED BY <1>2, <2>1, <3>1, <3>2 DEF SwapOK, Rests
  <2> QED BY <1>13, <2>2, <2>3 DEF CheckClean
<1>14. CASE RemoveOriginal(c)
  <2>1. op[c].pc = "cleaning" /\ op[c].old # None
    BY <1>2, <1>14 DEF RemoveOriginal, Sent, SwapOK
  <2>2. CASE Go(c, "void")
    <3>1. Rests(c) /\ op'[c].pc = "void"
      BY <1>g, <2>2, StepNames
    <3> QED BY <2>1, <3>1 DEF SwapOK, Rests
  <2>3. CASE Settle(c, "ok") /\ Put(c, None)
    BY <1>0, <1>3, <1>s, <2>1, <2>3, OutcomeNames DEF Put
  <2>4. CASE Settle(c, "incomplete")
    BY <1>s, <2>1, <2>4, OutcomeNames
  <2> QED BY <1>14, <2>2, <2>3, <2>4 DEF RemoveOriginal, Reply
<1>15. CASE CheckRollback(c)
  <2>1. op[c].pc = "rollback" /\ ent' = ent /\ op[c].old # None
    BY <1>2, <1>15 DEF CheckRollback, At, SwapOK
  <2>2. CASE Settle(c, "backup")
    BY <1>s, <2>1, <2>2, OutcomeNames
  <2>3. CASE Go(c, "rollbackRename")
    <3>1. Rests(c) /\ op'[c].pc = "rollbackRename"
      BY <1>g, <2>3, StepNames
    <3> QED BY <1>2, <2>1, <3>1 DEF SwapOK, Rests
  <2> QED BY <1>15, <2>2, <2>3 DEF CheckRollback
<1>16. CASE RenameRollback(c)
  <2>1. op[c].pc = "rollbackRename" /\ op[c].old # None
    BY <1>2, <1>16 DEF RenameRollback, At, SwapOK
  <2>2. CASE Settle(c, "indeterminate") \/ Settle(c, "backup")
    BY <1>s, <2>1, <2>2, OutcomeNames
  <2>3. CASE Go(c, "rollbackCheck") /\ Moves(c, To(c)) /\ Rename(c, To(c))
    <3>1. Rests(c) /\ op'[c].pc = "rollbackCheck"
      BY <1>g, <2>3, StepNames
    <3>2. ent'[c] = None
      BY <1>0, <1>3, <2>3 DEF Moves, Rename
    <3> QED BY <2>1, <3>1, <3>2 DEF SwapOK, Rests
  <2> QED BY <1>16, <2>2, <2>3 DEF RenameRollback
<1>17. CASE ObserveRollback(c)
  <2>1. op[c].pc = "rollbackCheck" /\ ent' = ent /\ ent[c] = None
    BY <1>2, <1>17 DEF ObserveRollback, At, SwapOK
  <2>2. CASE Settle(c, "restored") \/ Settle(c, "unverified")
    BY <1>s, <2>1, <2>2, OutcomeNames
  <2> QED BY <1>17, <2>2 DEF ObserveRollback
<1> QED BY <1>6, <1>7, <1>8, <1>9, <1>10, <1>11, <1>12, <1>13, <1>14, <1>15, <1>16, <1>17
        DEF SwapStep

LEMMA MoveOwn ==
  ASSUME Inv, NEW c \in Calls, MoveStep(c)
  PROVE  CallOK(c)'
<1>0. Typed /\ Sole /\ op \in [Calls -> OpState] /\ ent \in [Places -> Nat] /\ op[c] \in OpState
      /\ faults \in Nat /\ Len(body) \in Nat
  BY OpType DEF Inv, Typed
<1>1. Effect(c) /\ Kind(c) = "move"
  BY MoveEffect
<1>2. MoveOK(c) /\ CallOK(c)
  BY <1>1 DEF Inv, CallOK
<1>3. /\ c \in Places /\ c \notin Names /\ From(c) \in Places /\ To(c) \in Places
      /\ From(c) # c /\ To(c) # c /\ Home(c) \in Procs
  BY <1>0, <1>1, SituationType DEF Typed
<1>4. setup' = setup /\ up' = up /\ Kind(c)' = Kind(c) /\ Home(c)' = Home(c)
  BY <1>1, SameSituation DEF Effect, Frame
<1>5. faults > 0 => faults' > 0
  BY <1>0, <1>1 DEF Effect, Frame
<1>6. /\ up[Home(c)] \in {"up", "exiting"} /\ (up[Home(c)] = "up" => op[c].exit = "no")
      /\ \A kind, pc : At(c, kind, pc) => up[Home(c)] = "up" /\ op[c].pc = pc
      /\ op[c].exit \in {"no", "remove", "done"}
  <2>1. op[c].exit \in {"no", "remove", "done"} /\ (up[Home(c)] = "up" => op[c].exit = "no")
    BY <1>1, <1>2 DEF MoveOK, CallOK
  <2>2. \A kind, pc : At(c, kind, pc) => up[Home(c)] = "up" /\ op[c].pc = pc
    BY <2>1 DEF At
  <2>3. StartMove(c) \/ InspectSource(c) \/ CreateStage(c) \/ RecordStage(c) \/ CopySource(c)
          \/ RecheckSource(c) \/ SendCommit(c) \/ NoteCommit(c) \/ CheckRemoval(c) \/ CheckDrop(c)
          => up[Home(c)] = "up"
    BY <2>2 DEF StartMove, InspectSource, CreateStage, RecordStage, CopySource, RecheckSource,
           SendCommit, NoteCommit, CheckRemoval, CheckDrop
  <2>4. RenameDirect(c) \/ CommitStage(c) \/ RemoveSource(c) \/ DropStage(c)
          \/ ExitCheckStage(c) \/ ExitRemoveStage(c) => up[Home(c)] \in {"up", "exiting"}
    BY DEF RenameDirect, CommitStage, RemoveSource, DropStage, ExitCheckStage, ExitRemoveStage, Sent
  <2> QED BY <2>1, <2>2, <2>3, <2>4 DEF MoveStep
<1>o. ASSUME MoveOK(c)', op'[c].exit = op[c].exit
      PROVE  CallOK(c)'
  BY <1>1, <1>2, <1>4, <1>6, <1>o DEF CallOK
<1>x. ASSUME MoveOK(c)', up[Home(c)] = "exiting"
      PROVE  CallOK(c)'
  BY <1>1, <1>4, <1>x DEF CallOK
\* The stage is not there any more.
<1>s. ASSUME NEW told \in Outcomes, Settle(c, told),
             ent'[c] = None \/ ent'[c] # op[c].made, op[c].exit = "remove" => op'[c].seen = op[c].seen
      PROVE  CallOK(c)'
  <2>1. Rests(c) /\ op'[c].pc = "settled"
    BY <1>0, <1>s, Settled
  <2>2. MoveOK(c)'
    BY <1>2, <1>5, <1>s, <2>1 DEF MoveOK, Unadmitted, Rests
  <2> QED BY <1>o, <2>1, <2>2 DEF Rests
<1>t. ASSUME NEW told, Settle(c, told) PROVE op'[c].seen = op[c].seen
  BY <1>0, <1>t DEF Settle, OpState
<1>g. ASSUME NEW pc \in Steps, Go(c, pc)
      PROVE  Rests(c) /\ op'[c].pc = pc /\ op'[c].reg = op[c].reg /\ op'[c].seen = op[c].seen
  BY <1>0, <1>g, Gone
<1>f. ASSUME NEW pc \in {"void", "drop"}, Go(c, pc), ent'[c] \in {None, ent[c]},
             op[c].pc \notin {"record", "settled"}
      PROVE  CallOK(c)'
  <2>1. Rests(c) /\ op'[c].pc = pc /\ op'[c].reg = op[c].reg /\ op'[c].seen = op[c].seen
    BY <1>f, <1>g, StepNames
  <2>2. MoveOK(c)'
    BY <1>2, <1>5, <1>f, <2>1 DEF MoveOK, Unadmitted, Rests
  <2> QED BY <1>o, <2>1, <2>2 DEF Rests
<1>7. CASE StartMove(c)
  <2>1. op[c].pc = "idle" /\ ent' = ent /\ ent[c] = None /\ op[c].exit = "no" /\ op[c].made = None
    BY <1>2, <1>6, <1>7 DEF StartMove, MoveOK
  <2>2. CASE Settle(c, "failed")
    BY <1>s, <2>1, <2>2, OutcomeNames
  <2>3. CASE \E pc \in {"inspect", "direct"} : Go(c, pc)
    <3>1. PICK pc \in {"inspect", "direct"} : Rests(c) /\ op'[c].pc = pc
      BY <1>g, <2>3, StepNames
    <3>2. MoveOK(c)'
      BY <1>2, <2>1, <3>1 DEF MoveOK, Unadmitted, Rests
    <3> QED BY <1>o, <3>1, <3>2 DEF Rests
  <2>4. Way(c) \in {"direct", "reject"}
    BY <1>0, <1>1, SituationType DEF Typed
  <2> QED BY <1>7, <2>2, <2>3, <2>4 DEF StartMove
<1>8. CASE RenameDirect(c)
  <2>1. op[c].pc = "direct" /\ ent[c] = None /\ op[c].made = None
    BY <1>2, <1>8 DEF RenameDirect, Sent, MoveOK
  <2>2. ent'[c] = None
    BY <1>0, <1>3, <1>8, <2>1 DEF RenameDirect, Replace, Rename
  <2>3. CASE Settle(c, "ok") \/ Settle(c, "failed")
    BY <1>s, <1>t, <2>2, <2>3, OutcomeNames
  <2>4. CASE Go(c, "void")
    BY <1>f, <2>1, <2>2, <2>4
  <2>5. CASE Go(c, "inspect")
    <3>1. Rests(c) /\ op'[c].pc = "inspect" /\ op'[c].seen = op[c].seen
      BY <1>g, <2>5, StepNames
    <3>2. MoveOK(c)'
      BY <1>2, <2>1, <2>2, <3>1 DEF MoveOK, Unadmitted, Rests
    <3> QED BY <1>o, <3>1, <3>2 DEF Rests
  <2> QED BY <1>8, <2>3, <2>4, <2>5 DEF RenameDirect, Reply
<1>9. CASE InspectSource(c)
  <2>1. op[c].pc = "inspect" /\ ent' = ent /\ ent[c] = None /\ op[c].exit = "no" /\ op[c].made = None
    BY <1>2, <1>6, <1>9 DEF InspectSource, MoveOK
  <2>2. CASE Settle(c, "failed")
    BY <1>s, <2>1, <2>2, OutcomeNames
  <2>3. CASE /\ ent[From(c)] # None
             /\ op' = [op EXCEPT ![c].print = Fingerprint(ent[From(c)]), ![c].pc = "stage"]
    <3>1. /\ op'[c].src = op[c].src /\ op'[c].old = op[c].old /\ op'[c].made = op[c].made
          /\ op'[c].exit = op[c].exit /\ op'[c].pc = "stage"
          /\ op'[c].print = Fingerprint(ent[From(c)])
      BY <1>0, <2>3 DEF OpState
    <3>2. op'[c].print.id # None
      BY <2>3, <3>1 DEF Fingerprint
    <3>3. MoveOK(c)'
      BY <1>2, <2>1, <3>1, <3>2 DEF MoveOK, Unadmitted
    <3> QED BY <1>o, <3>1, <3>3
  <2> QED BY <1>9, <2>2, <2>3 DEF InspectSource
<1>10. CASE CreateStage(c)
  <2>1. op[c].pc = "stage" /\ ent[c] = None /\ op[c].exit = "no" /\ op[c].made = None
    BY <1>2, <1>6, <1>10 DEF CreateStage, MoveOK
  <2>2. CASE Settle(c, "failed") /\ UNCHANGED <<ent, body>>
    BY <1>s, <2>1, <2>2, OutcomeNames
  <2>3. CASE op' = [op EXCEPT ![c].pc = "record", ![c].made = Len(body) + 1]
    <3>1. /\ op'[c].src = op[c].src /\ op'[c].old = op[c].old /\ op'[c].made = Len(body) + 1
          /\ op'[c].exit = op[c].exit /\ op'[c].pc = "record" /\ op'[c].print = op[c].print
      BY <1>0, <2>3 DEF OpState
    <3>2. op'[c].made # None
      BY <1>0, <3>1 DEF None
    <3>3. MoveOK(c)'
      BY <1>2, <2>1, <3>1, <3>2 DEF MoveOK, Unadmitted
    <3> QED BY <1>o, <3>1, <3>3
  <2> QED BY <1>10, <2>2, <2>3 DEF CreateStage
<1>11. CASE RecordStage(c)
  <2>1. op[c].pc = "record" /\ op[c].exit = "no" /\ ent' = ent
    BY <1>6, <1>11 DEF RecordStage
  <2>2. CASE op' = [op EXCEPT ![c].pc = "copy", ![c].reg = TRUE]
    <3>1. /\ op'[c].src = op[c].src /\ op'[c].old = op[c].old /\ op'[c].made = op[c].made
          /\ op'[c].exit = op[c].exit /\ op'[c].pc = "copy" /\ op'[c].print = op[c].print
          /\ op'[c].reg
      BY <1>0, <2>2 DEF OpState
    <3>2. MoveOK(c)'
      BY <1>2, <2>1, <3>1 DEF MoveOK
    <3> QED BY <1>o, <3>1, <3>2
  <2>3. CASE Settle(c, "unadmitted")
    <3>1. Rests(c) /\ op'[c].pc = "settled" /\ op'[c].told = "unadmitted"
      BY <1>0, <2>3, Settled, OutcomeNames
    <3>2. MoveOK(c)'
      BY <1>2, <2>1, <3>1 DEF MoveOK, Unadmitted, Rests
    <3> QED BY <1>o, <3>1, <3>2 DEF Rests
  <2> QED BY <1>11, <2>2, <2>3 DEF RecordStage
<1>12. CASE CopySource(c)
  <2>1. op[c].pc = "copy" /\ op[c].exit = "no" /\ ent' = ent
    BY <1>6, <1>12 DEF CopySource
  <2>2. CASE Go(c, "drop")
    BY <1>f, <2>1, <2>2
  <2>3. CASE op' = [op EXCEPT ![c].pc = "recheck", ![c].read = body[op[c].print.id].data]
    <3>1. /\ op'[c].src = op[c].src /\ op'[c].old = op[c].old /\ op'[c].made = op[c].made
          /\ op'[c].exit = op[c].exit /\ op'[c].pc = "recheck" /\ op'[c].print = op[c].print
          /\ op'[c].reg = op[c].reg
      BY <1>0, <2>3 DEF OpState
    <3>2. MoveOK(c)'
      BY <1>2, <2>1, <3>1 DEF MoveOK, Unadmitted
    <3> QED BY <1>o, <3>1, <3>2
  <2> QED BY <1>12, <2>2, <2>3 DEF CopySource
<1>13. CASE RecheckSource(c) \/ SendCommit(c)
  <2>1. op[c].pc \in {"recheck", "commit"} /\ op[c].exit = "no" /\ ent' = ent
    BY <1>6, <1>13 DEF RecheckSource, SendCommit
  <2>2. CASE Go(c, "drop")
    BY <1>f, <2>1, <2>2
  <2>3. CASE \E pc \in {"commit", "rename"} : Go(c, pc)
    <3>1. PICK pc \in {"commit", "rename"} :
            Rests(c) /\ op'[c].pc = pc /\ op'[c].reg = op[c].reg
      BY <1>g, <2>3, StepNames
    <3>2. MoveOK(c)'
      BY <1>2, <2>1, <3>1 DEF MoveOK, Unadmitted, Rests
    <3> QED BY <1>o, <3>1, <3>2 DEF Rests
  <2> QED BY <1>13, <2>2, <2>3 DEF RecheckSource, SendCommit
<1>14. CASE CommitStage(c)
  <2>1. op[c].pc = "rename"
    BY <1>14 DEF CommitStage, Sent
  <2>2. CASE ent[c] # None /\ Replace(c, To(c)) /\ Reply(c, Go(c, "renamed"))
    <3>1. ent[To(c)] # ent[c]
      BY <1>0, <1>3, <2>2 DEF Sole
    <3>2. ent'[c] = None
      BY <1>0, <1>3, <2>2, <3>1 DEF Replace, Rename
    <3>3. CASE Go(c, "void")
      BY <1>f, <2>1, <3>2, <3>3
    <3>4. CASE Go(c, "renamed")
      <4>1. Rests(c) /\ op'[c].pc = "renamed" /\ op'[c].seen = op[c].seen
        BY <1>g, <3>4, StepNames
      <4>2. MoveOK(c)'
        BY <1>2, <2>1, <3>2, <4>1 DEF MoveOK, Unadmitted, Rests
      <4> QED BY <1>o, <4>1, <4>2 DEF Rests
    <3> QED BY <2>2, <3>3, <3>4 DEF Reply
  <2>3. CASE Reply(c, Go(c, "drop")) /\ UNCHANGED ent
    BY <1>f, <2>1, <2>3 DEF Reply
  <2> QED BY <1>14, <2>2, <2>3 DEF CommitStage
<1>15. CASE NoteCommit(c)
  <2>1. op[c].pc = "renamed" /\ op[c].exit = "no" /\ ent' = ent /\ ent[c] = None
    BY <1>2, <1>6, <1>15 DEF NoteCommit, MoveOK
  <2>2. /\ op'[c].src = op[c].src /\ op'[c].old = op[c].old /\ op'[c].made = op[c].made
        /\ op'[c].exit = op[c].exit /\ op'[c].pc = "published" /\ op'[c].print = op[c].print
        /\ op'[c].pub /\ ~op'[c].reg
    BY <1>0, <1>15 DEF NoteCommit, OpState
  <2>3. MoveOK(c)'
    BY <1>2, <2>1, <2>2 DEF MoveOK, Unadmitted
  <2> QED BY <1>o, <2>2, <2>3
<1>16. CASE CheckRemoval(c)
  <2>1. op[c].pc = "published" /\ op[c].exit = "no" /\ ent' = ent /\ ent[c] = None
    BY <1>2, <1>6, <1>16 DEF CheckRemoval, MoveOK
  <2>2. CASE Settle(c, "ok") \/ Settle(c, "stale")
    BY <1>s, <2>1, <2>2, OutcomeNames
  <2>3. CASE SameSource(c) /\ Send(c, "unlink", From(c))
    <3>1. ent[From(c)] = op[c].print.id
      <4>1. Fingerprint(ent[From(c)]).id = ent[From(c)]
        BY DEF Fingerprint
      <4> QED BY <2>3, <4>1 DEF SameSource
    <3>2. Rests(c) /\ op'[c].pc = "unlink" /\ op'[c].seen = ent[From(c)] /\ op'[c].reg = op[c].reg
      BY <1>0, <1>3, <2>3, Dispatched, StepNames
    <3>3. MoveOK(c)'
      BY <1>2, <2>1, <3>1, <3>2 DEF MoveOK, Unadmitted, Rests
    <3> QED BY <1>o, <3>2, <3>3 DEF Rests
  <2> QED BY <1>16, <2>2, <2>3 DEF CheckRemoval
<1>17. CASE RemoveSource(c)
  <2>1. op[c].pc = "unlink" /\ ent[c] = None
    BY <1>2, <1>17 DEF RemoveSource, Sent, MoveOK
  <2>2. ent'[c] = None
    BY <1>0, <1>3, <1>17, <2>1 DEF RemoveSource, Remove, Put
  <2>3. CASE Settle(c, "ok") \/ Settle(c, "stale")
    BY <1>s, <1>t, <2>2, <2>3, OutcomeNames
  <2>4. CASE Go(c, "void")
    BY <1>f, <2>1, <2>2, <2>4
  <2> QED BY <1>17, <2>3, <2>4 DEF RemoveSource, Reply
<1>18. CASE CheckDrop(c)
  <2>1. op[c].pc = "drop" /\ op[c].exit = "no" /\ ent' = ent
    BY <1>6, <1>18 DEF CheckDrop
  <2>2. CASE Settle(c, "failed") /\ ent[c] # op[c].made
    BY <1>s, <2>1, <2>2, OutcomeNames
  <2>3. CASE Send(c, "dropping", c) /\ ent[c] = op[c].made
    <3>1. Rests(c) /\ op'[c].pc = "dropping" /\ op'[c].seen = ent[c] /\ op'[c].reg = op[c].reg
      BY <1>0, <1>3, <2>3, Dispatched, StepNames
    <3>2. MoveOK(c)'
      BY <1>2, <2>1, <2>3, <3>1 DEF MoveOK, Unadmitted, Rests
    <3> QED BY <1>o, <3>1, <3>2 DEF Rests
  <2> QED BY <1>18, <2>2, <2>3 DEF CheckDrop
<1>19. CASE DropStage(c)
  <2>1. op[c].pc = "dropping" /\ ent'[c] \in {None, ent[c]}
    BY <1>0, <1>3, <1>19 DEF DropStage, Sent, Remove, Put
  <2>2. CASE Go(c, "void")
    BY <1>f, <2>1, <2>2
  <2>3. CASE Settle(c, "failed") /\ Remove(c, c)
    BY <1>0, <1>3, <1>s, <1>t, <2>3, OutcomeNames DEF Remove, Put
  <2>4. CASE op' = [op EXCEPT ![c].pc = "settled", ![c].told = "failed"]
    <3>1. /\ op'[c].src = op[c].src /\ op'[c].old = op[c].old /\ op'[c].made = op[c].made
          /\ op'[c].exit = op[c].exit /\ op'[c].pc = "settled" /\ op'[c].print = op[c].print
          /\ op'[c].reg = op[c].reg /\ op'[c].seen = op[c].seen
      BY <1>0, <2>4 DEF OpState
    <3>2. MoveOK(c)'
      BY <1>2, <1>5, <2>1, <3>1 DEF MoveOK, Unadmitted
    <3> QED BY <1>o, <3>1, <3>2
  <2> QED BY <1>19, <2>2, <2>3, <2>4 DEF DropStage, Reply
<1>20. CASE ExitCheckStage(c)
  <2>1. up[Home(c)] = "exiting" /\ op[c].reg /\ ent' = ent
    BY <1>20 DEF ExitCheckStage
  <2>2. /\ op'[c].src = op[c].src /\ op'[c].old = op[c].old /\ op'[c].made = op[c].made
        /\ op'[c].pc = op[c].pc /\ op'[c].print = op[c].print /\ op'[c].pub = op[c].pub
        /\ op'[c].reg = op[c].reg /\ op'[c].told = op[c].told
        /\ \/ op'[c].exit = "remove" /\ op'[c].seen = ent[c] /\ ent[c] = op[c].made
           \/ op'[c].exit = "done" /\ op'[c].seen = op[c].seen /\ ent[c] # op[c].made
    BY <1>0, <1>20 DEF ExitCheckStage, OpState
  <2>3. op[c].pc # "unlink"
    BY <1>2, <2>1 DEF MoveOK, Unadmitted
  <2>4. MoveOK(c)'
    BY <1>2, <2>1, <2>2, <2>3 DEF MoveOK, Unadmitted
  <2> QED BY <1>x, <2>1, <2>4
<1>21. CASE ExitRemoveStage(c)
  <2>1. up[Home(c)] = "exiting" /\ op[c].exit = "remove"
    BY <1>21 DEF ExitRemoveStage
  <2>2. ent'[c] = None \/ (ent'[c] = ent[c] /\ faults' > 0)
    BY <1>0, <1>3, <1>21 DEF ExitRemoveStage, Remove, Put, Fault
  <2>3. /\ op'[c].src = op[c].src /\ op'[c].old = op[c].old /\ op'[c].made = op[c].made
        /\ op'[c].pc = op[c].pc /\ op'[c].print = op[c].print /\ op'[c].pub = op[c].pub
        /\ op'[c].reg = op[c].reg /\ op'[c].exit = "done" /\ op'[c].seen = op[c].seen
        /\ op'[c].told = op[c].told
    BY <1>0, <1>21 DEF ExitRemoveStage, OpState
  <2>4. MoveOK(c)'
    BY <1>2, <2>1, <2>2, <2>3 DEF MoveOK, Unadmitted
  <2> QED BY <1>x, <2>1, <2>4
<1> QED BY <1>7, <1>8, <1>9, <1>10, <1>11, <1>12, <1>13, <1>14, <1>15, <1>16, <1>17, <1>18,
           <1>19, <1>20, <1>21 DEF MoveStep

LEMMA WorkspaceOwn ==
  ASSUME Inv, NEW c \in Calls, WorkspaceStep(c)
  PROVE  CallOK(c)'
<1>0. Typed /\ Sole /\ op \in [Calls -> OpState] /\ ent \in [Places -> Nat] /\ op[c] \in OpState
      /\ Len(body) \in Nat
  BY OpType DEF Inv, Typed
<1>1. Effect(c) /\ Kind(c) = "workspace"
  BY WorkspaceEffect
<1>2. WorkspaceOK(c) /\ CallOK(c)
  BY <1>1 DEF Inv, CallOK
<1>3. /\ c \in Places /\ c \notin Names /\ From(c) \in Places /\ From(c) # c /\ Home(c) \in Procs
  BY <1>0, <1>1, SituationType DEF Typed
<1>4. setup' = setup /\ up' = up /\ Kind(c)' = Kind(c) /\ Home(c)' = Home(c) /\ From(c)' = From(c)
  BY <1>1, SameSituation DEF Effect, Frame
<1>5. up[Home(c)] \in {"up", "exiting"}
  BY DEF WorkspaceStep, CreateWorkspace, AdmitWorkspace, StartCleanup, PrepareCleanup,
         HideWorkspace, ObserveHidden, EraseOwned, ConfirmHidden, ErasePath, ExitWorkspace, At, Sent
<1>o. ASSUME WorkspaceOK(c)', op'[c].exit = op[c].exit
      PROVE  CallOK(c)'
  BY <1>1, <1>2, <1>4, <1>5, <1>o DEF CallOK
<1>x. ASSUME WorkspaceOK(c)', up[Home(c)] = "exiting"
      PROVE  CallOK(c)'
  BY <1>1, <1>4, <1>x DEF CallOK
<1>s. ASSUME NEW told \in Outcomes, Settle(c, told), op[c].pc # "idle",
             op[c].made \in {ent'[c], ent'[From(c)]} => told \in {"indeterminate", "unadmitted"}
      PROVE  CallOK(c)'
  <2>1. Rests(c) /\ op'[c].pc = "settled" /\ op'[c].told = told
    BY <1>0, <1>s, Settled
  <2>2. WorkspaceOK(c)'
    BY <1>2, <1>4, <1>s, <2>1 DEF WorkspaceOK, Rests
  <2> QED BY <1>o, <2>1, <2>2 DEF Rests
<1>n. ASSUME NEW told \in Outcomes, Finish(c, told), op[c].pc # "idle",
             op[c].made \in {ent'[c], ent'[From(c)]} => told = "indeterminate"
      PROVE  CallOK(c)'
  BY <1>s, <1>n, OutcomeNames DEF Finish
<1>g. ASSUME NEW pc \in Steps, Go(c, pc)
      PROVE  Rests(c) /\ op'[c].pc = pc /\ op'[c].reg = op[c].reg /\ op'[c].seen = op[c].seen
  BY <1>0, <1>g, Gone
<1>6. CASE CreateWorkspace(c)
  <2>1. op[c].pc = "idle" /\ ent[c] = None /\ ent' = [ent EXCEPT ![From(c)] = Len(body) + 1]
    BY <1>2, <1>6 DEF CreateWorkspace, At, WorkspaceOK, Create, Put
  <2>2. /\ op'[c].old = op[c].old /\ op'[c].made = Len(body) + 1
        /\ op'[c].exit = op[c].exit /\ op'[c].pc = "created"
    BY <1>0, <1>6 DEF CreateWorkspace, OpState
  <2>3. op'[c].made # None /\ ent'[c] = None
    BY <1>0, <1>3, <2>1, <2>2 DEF None
  <2>4. WorkspaceOK(c)'
    BY <1>2, <2>2, <2>3 DEF WorkspaceOK
  <2> QED BY <1>o, <2>2, <2>4
<1>7. CASE AdmitWorkspace(c)
  <2>1. op[c].pc = "created" /\ ent[c] = None /\ ent' = ent /\ op[c].made # None
    BY <1>2, <1>7 DEF AdmitWorkspace, At, WorkspaceOK
  <2>2. CASE \/ ent[From(c)] # op[c].made /\ Settle(c, "mismatch")
             \/ Settle(c, "unadmitted")
    BY <1>s, <2>1, <2>2, OutcomeNames
  <2>3. CASE op' = [op EXCEPT ![c].pc = "open", ![c].reg = TRUE]
    <3>1. /\ op'[c].old = op[c].old /\ op'[c].made = op[c].made
          /\ op'[c].exit = op[c].exit /\ op'[c].pc = "open" /\ op'[c].reg
      BY <1>0, <2>3 DEF OpState
    <3>2. WorkspaceOK(c)'
      BY <1>2, <2>1, <3>1 DEF WorkspaceOK
    <3> QED BY <1>o, <3>1, <3>2
  <2> QED BY <1>7, <2>2, <2>3 DEF AdmitWorkspace
<1>8. CASE StartCleanup(c)
  <2>1. op[c].pc = "open" /\ ent' = ent
    BY <1>8 DEF StartCleanup, At
  <2>2. Rests(c) /\ op'[c].pc = "prepare" /\ op'[c].reg = op[c].reg
    BY <1>8, <1>g, StepNames DEF StartCleanup
  <2>3. WorkspaceOK(c)'
    BY <1>2, <2>1, <2>2 DEF WorkspaceOK, Rests
  <2> QED BY <1>o, <2>2, <2>3 DEF Rests
<1>9. CASE PrepareCleanup(c)
  <2>1. op[c].pc = "prepare" /\ ent[c] = None /\ ent' = ent /\ op[c].made # None
    BY <1>2, <1>9 DEF PrepareCleanup, At, WorkspaceOK
  <2>2. CASE ent[From(c)] # op[c].made /\ (Finish(c, "missing") \/ Finish(c, "mismatch"))
    BY <1>n, <2>1, <2>2, OutcomeNames
  <2>3. CASE Go(c, "hide")
    <3>1. Rests(c) /\ op'[c].pc = "hide" /\ op'[c].reg = op[c].reg
      BY <1>g, <2>3, StepNames
    <3>2. WorkspaceOK(c)'
      BY <1>2, <2>1, <3>1 DEF WorkspaceOK, Rests
    <3> QED BY <1>o, <3>1, <3>2 DEF Rests
  <2> QED BY <1>9, <2>1, <2>2, <2>3 DEF PrepareCleanup
<1>10. CASE HideWorkspace(c)
  <2>1. op[c].pc = "hide" /\ ent[c] = None /\ op[c].made # None
    BY <1>2, <1>10 DEF HideWorkspace, At, WorkspaceOK
  <2>2. CASE Finish(c, "indeterminate")
    BY <1>n, <2>1, <2>2, OutcomeNames
  <2>3. CASE ent[From(c)] # None /\ Rename(From(c), c) /\ Go(c, "hidden")
    <3>1. Rests(c) /\ op'[c].pc = "hidden" /\ op'[c].reg = op[c].reg
      BY <1>g, <2>3, StepNames
    <3>2. ent'[From(c)] = None
      BY <1>0, <1>3, <2>1, <2>3 DEF Rename
    <3>3. WorkspaceOK(c)'
      BY <1>2, <1>4, <2>1, <3>1, <3>2 DEF WorkspaceOK, Rests
    <3> QED BY <1>o, <3>1, <3>3 DEF Rests
  <2> QED BY <1>10, <2>2, <2>3 DEF HideWorkspace
<1>11. CASE ObserveHidden(c)
  <2>1. op[c].pc = "hidden" /\ ent' = ent /\ op[c].made # None
    BY <1>2, <1>11 DEF ObserveHidden, At, WorkspaceOK
  <2>2. CASE Finish(c, "indeterminate")
    BY <1>n, <2>1, <2>2, OutcomeNames
  <2>3. CASE ent[c] = op[c].made /\ (Go(c, "erase") \/ Go(c, "confirm"))
    <3>1. PICK pc \in {"erase", "confirm"} : Rests(c) /\ op'[c].pc = pc /\ op'[c].reg = op[c].reg
      BY <1>g, <2>3, StepNames
    <3>2. \A n \in Places \ {c} : ent'[n] # op[c].made
      BY <1>0, <2>1, <2>3 DEF Sole
    <3>3. WorkspaceOK(c)'
      BY <1>2, <1>3, <1>4, <2>1, <3>1, <3>2 DEF WorkspaceOK, Rests
    <3> QED BY <1>o, <3>1, <3>3 DEF Rests
  <2> QED BY <1>11, <2>2, <2>3 DEF ObserveHidden
<1>12. CASE ConfirmHidden(c)
  <2>1. op[c].pc = "confirm" /\ ent' = ent /\ op[c].made # None
    BY <1>2, <1>12 DEF ConfirmHidden, At, WorkspaceOK
  <2>2. CASE Finish(c, "indeterminate")
    BY <1>n, <2>1, <2>2, OutcomeNames
  <2>3. CASE ent[c] = op[c].made /\ Send(c, "erasePath", c)
    <3>1. Rests(c) /\ op'[c].pc = "erasePath" /\ op'[c].reg = op[c].reg /\ op'[c].seen = op[c].made
      BY <1>0, <1>3, <2>3, Dispatched, StepNames
    <3>2. \A n \in Places \ {c} : ent'[n] # op[c].made
      BY <1>0, <2>1, <2>3 DEF Sole
    <3>3. WorkspaceOK(c)'
      BY <1>2, <1>3, <1>4, <2>1, <3>1, <3>2 DEF WorkspaceOK, Rests
    <3> QED BY <1>o, <3>1, <3>3 DEF Rests
  <2> QED BY <1>12, <2>2, <2>3 DEF ConfirmHidden
<1>13. CASE EraseOwned(c) \/ ErasePath(c)
  <2>1. /\ op[c].pc \in {"erase", "erasePath"} /\ op[c].made # None
        /\ \A n \in Places \ {c} : ent[n] # op[c].made
    BY <1>2, <1>13 DEF EraseOwned, ErasePath, Sent, WorkspaceOK
  <2>2. ent' = ent \/ ent' = [ent EXCEPT ![c] = None]
    BY <1>13 DEF EraseOwned, ErasePath, Put, Remove
  <2>3. ent'[From(c)] # op[c].made
    BY <1>0, <1>3, <2>1, <2>2
  <2>4. CASE Finish(c, "indeterminate")
    BY <1>n, <2>1, <2>4, OutcomeNames
  <2>5. CASE Finish(c, "removed") /\ Put(c, None)
    <3>1. ent'[c] # op[c].made
      BY <1>0, <1>3, <2>1, <2>5 DEF Put
    <3> QED BY <1>n, <2>1, <2>3, <2>5, <3>1, OutcomeNames
  <2>6. CASE Go(c, "void")
    <3>1. Rests(c) /\ op'[c].pc = "void" /\ op'[c].reg = op[c].reg
      BY <1>g, <2>6, StepNames
    <3>2. WorkspaceOK(c)'
      BY <1>2, <1>4, <2>1, <2>3, <3>1 DEF WorkspaceOK, Rests
    <3> QED BY <1>o, <3>1, <3>2 DEF Rests
  <2> QED BY <1>13, <2>4, <2>5, <2>6 DEF EraseOwned, ErasePath, Reply, Remove
<1>14. CASE ExitWorkspace(c)
  <2>1. up[Home(c)] = "exiting" /\ op[c].reg /\ ent' = ent
    BY <1>14 DEF ExitWorkspace
  <2>2. /\ op'[c].old = op[c].old /\ op'[c].made = op[c].made /\ op'[c].reg = op[c].reg
        /\ op'[c].seen = op[c].seen /\ op'[c].told = op[c].told
        /\ op'[c].exit \in {"cleanup", "pending"}
        /\ op'[c].pc = IF op[c].pc = "open" THEN "prepare" ELSE op[c].pc
    BY <1>0, <1>14 DEF ExitWorkspace, OpState
  <2>3. WorkspaceOK(c)'
    BY <1>2, <1>4, <2>1, <2>2 DEF WorkspaceOK
  <2> QED BY <1>x, <2>1, <2>3
<1> QED BY <1>6, <1>7, <1>8, <1>9, <1>10, <1>11, <1>12, <1>13, <1>14 DEF WorkspaceStep

LEMMA CallsKeepInv ==
  ASSUME Inv, NEW c \in Calls, Step(c)
  PROVE  Inv'
<1>1. Effect(c)
  BY StepsHaveEffect
<1>2. Typed'
  BY <1>1, EffectTypes DEF Inv
<1>3. Sole'
  BY <1>1, SoleNext DEF Inv
<1>4. CallOK(c)'
  BY PublicationOwn, SwapOwn, MoveOwn, WorkspaceOwn DEF Step
<1>5. \A d \in Calls \ {c} : CallOK(d)'
  BY <1>1, OthersOK
<1> QED BY <1>2, <1>3, <1>4, <1>5 DEF Inv

-----------------------------------------------------------------------------
(* What the environment keeps.                                             *)

\* A foreign program takes an object away or puts a new one.
Foreign(n) ==
  /\ n \in Calls => ent[n] # None
  /\ \E i \in {None, Len(body) + 1} : i <= Len(body') /\ ent' = [ent EXCEPT ![n] = i]
  /\ UNCHANGED <<setup, op, up>> /\ faults' \in Nat /\ faults <= faults'

LEMMA IntrudeEffect ==
  ASSUME Typed, NEW n \in Places, Intrude(n)
  PROVE  /\ Foreign(n) /\ body' \in Seq(Object) /\ Len(body') >= Len(body)
         /\ \A i \in 1..Len(body) : body'[i] = body[i]
<1>0. Len(body) \in Nat /\ body \in Seq(Object) /\ faults \in Nat
  BY LenProperties DEF Typed
<1>1. faults' \in Nat /\ faults <= faults'
  <2>1. Fault("put") \/ Fault("take")
    BY DEF Intrude
  <2> QED BY <1>0, <2>1 DEF Fault
<1>2. CASE Create(n, Len(body) + 1, TRUE)
  <2>1. [data |-> Len(body) + 1, whole |-> TRUE] \in Object
    BY <1>0 DEF Object
  <2>2. body' = Append(body, [data |-> Len(body) + 1, whole |-> TRUE])
    BY <1>2 DEF Create
  <2>3. /\ body' \in Seq(Object) /\ Len(body') = Len(body) + 1
        /\ \A i \in 1..Len(body) : body'[i] = body[i]
    BY <1>0, <2>1, <2>2, Appended
  <2> QED BY <1>0, <1>1, <1>2, <2>3 DEF Intrude, Foreign, Create, Put
<1>3. CASE Put(n, None) /\ UNCHANGED body
  BY <1>0, <1>1, <1>3 DEF Intrude, Foreign, Put, None
<1> QED BY <1>2, <1>3 DEF Intrude

LEMMA EditEffect ==
  ASSUME Typed, NEW n \in Places, Edit(n)
  PROVE  /\ body' \in Seq(Object) /\ Len(body') = Len(body)
         /\ \A i \in 1..Len(body) : /\ body[i].data <= body'[i].data
                                    /\ body'[i].whole = body[i].whole
         /\ faults' \in Nat /\ faults <= faults'
         /\ UNCHANGED <<setup, ent, op, up, taken>>
<1>1. ent[n] \in 1..Len(body) /\ Len(body) \in Nat /\ body \in Seq(Object) /\ faults \in Nat
  BY LenProperties DEF Typed, Edit, None
<1> DEFINE v == [body[ent[n]] EXCEPT !.data = @ + 10]
<1>2. body[ent[n]] \in Object
  BY <1>1, ObjectType
<1>3. v \in Object /\ v.data = body[ent[n]].data + 10 /\ v.whole = body[ent[n]].whole
  BY <1>2 DEF Object
<1>4. body' = [body EXCEPT ![ent[n]] = v]
  BY DEF Edit
<1> HIDE DEF v
<1>5. /\ body' \in Seq(Object) /\ Len(body') = Len(body)
      /\ \A j \in 1..Len(body) : body'[j] = IF j = ent[n] THEN v ELSE body[j]
  BY <1>1, <1>3, <1>4, Edited
<1>6. \A i \in 1..Len(body) : body[i].data \in Nat
  BY ObjectType
<1>7. \A i \in 1..Len(body) : /\ body[i].data <= body'[i].data
                              /\ body'[i].whole = body[i].whole
  BY <1>3, <1>5, <1>6
<1> QED BY <1>1, <1>5, <1>7 DEF Edit, Fault

LEMMA ForeignOK ==
  ASSUME Inv, NEW n \in Places, Foreign(n), NEW c \in Calls
  PROVE  CallOK(c)'
<1>0. Typed /\ CallOK(c) /\ Len(body) \in Nat /\ faults \in Nat
  BY LenProperties DEF Inv, Typed
<1>1. /\ op' = op /\ up' = up /\ faults' \in Nat /\ faults <= faults'
      /\ Kind(c)' = Kind(c) /\ From(c)' = From(c) /\ To(c)' = To(c) /\ Home(c)' = Home(c)
      /\ Way(c)' = Way(c)
  BY SameSituation DEF Foreign
<1>2. /\ op[c].made \in Nat /\ op[c].made <= Len(body) /\ op[c].old \in Nat /\ op[c].old <= Len(body)
  BY <1>0, OpType DEF OpState, Bounded
<1>3. /\ c \in Places /\ From(c) \in Places
      /\ \A m \in Places : ent'[m] = ent[m] \/ ent'[m] = None \/ ent'[m] = Len(body) + 1
      /\ ent[c] = None => ent'[c] = None
  BY <1>0, SituationType DEF Foreign, Typed
<1>4. \A m \in Places, i \in {op[c].made, op[c].old} : i # None /\ ent'[m] = i => ent[m] = i
  BY <1>0, <1>2, <1>3 DEF None
<1>5. faults > 0 => faults' > 0
  BY <1>0, <1>1
<1>6. CASE Kind(c) = "publish"
  BY <1>0, <1>1, <1>3, <1>6 DEF CallOK, PublicationOK
<1>7. CASE Kind(c) = "move"
  <2>1. ent'[c] = op[c].made /\ ent'[c] # None => ent[c] = op[c].made /\ ent[c] # None
    BY <1>3, <1>4
  <2> QED BY <1>0, <1>1, <1>3, <1>5, <1>7, <2>1 DEF CallOK, MoveOK, Unadmitted
<1>8. CASE Kind(c) = "swap"
  BY <1>0, <1>1, <1>3, <1>4, <1>8 DEF CallOK, SwapOK
<1>9. CASE Kind(c) = "workspace"
  <2>1. op[c].made \in {ent'[c], ent'[From(c)]} /\ op[c].pc = "settled"
          => op[c].made \in {ent[c], ent[From(c)]}
    BY <1>0, <1>3, <1>4, <1>9 DEF CallOK, WorkspaceOK
  <2>2. op[c].made # None => /\ ent[From(c)] # op[c].made => ent'[From(c)] # op[c].made
                             /\ (\A m \in Places \ {c} : ent[m] # op[c].made)
                                  => \A m \in Places \ {c} : ent'[m] # op[c].made
    BY <1>3, <1>4
  <2> QED BY <1>0, <1>1, <1>3, <1>9, <2>1, <2>2 DEF CallOK, WorkspaceOK
<1> QED BY <1>0, <1>6, <1>7, <1>8, <1>9, SituationType DEF Typed

LEMMA EnvironmentKeepsInv ==
  ASSUME Inv, Environment
  PROVE  Inv'
<1>0. Typed /\ Len(body) \in Nat /\ faults \in Nat
  BY LenProperties DEF Inv, Typed
<1>1. ASSUME NEW n \in Places, Intrude(n)
      PROVE  Inv'
  <2>1. /\ Foreign(n) /\ body' \in Seq(Object) /\ Len(body') >= Len(body) /\ Len(body') \in Nat
    BY <1>0, <1>1, IntrudeEffect, LenProperties
  <2>2. PICK i \in {None, Len(body) + 1} : i <= Len(body') /\ ent' = [ent EXCEPT ![n] = i]
    BY <2>1 DEF Foreign
  <2>3. \A c \in Calls : op[c] \in OpState /\ Bounded(op[c], Len(body'))
    BY <1>0, <2>1, OpType DEF Bounded, OpState
  <2>4. Typed'
    <3>1. ent' \in [Places -> Nat] /\ \A m \in Places : ent'[m] <= Len(body')
      BY <1>0, <2>1, <2>2 DEF Typed, None
    <3> QED BY <1>0, <2>1, <2>3, <3>1 DEF Typed, Foreign
  <2>5. Sole'
    <3>1. TreeNames' = TreeNames /\ Calls \cup TreeNames \subseteq Places
      BY <2>1, SameTrees, TreePlaces DEF Foreign
    <3>2. \A m \in Places : ent'[m] = IF m = n THEN i ELSE ent[m]
      BY <1>0, <2>2 DEF Typed
    <3>3. \A m \in Places : ent[m] \in Nat /\ ent[m] <= Len(body)
      BY <1>0 DEF Typed
    <3>4. \A x \in Calls \cup TreeNames : \A m \in Places \ {x} : ent[m] = ent[x] => ent[x] = None
      BY DEF Inv, Sole
    <3> SUFFICES ASSUME NEW x \in Calls \cup TreeNames, NEW m \in Places \ {x}, ent'[m] = ent'[x]
                 PROVE  ent'[x] = None
      BY <3>1 DEF Sole
    <3> QED BY <1>0, <2>2, <3>1, <3>2, <3>3, <3>4 DEF None
  <2> QED BY <2>1, <2>4, <2>5, ForeignOK DEF Inv
<1>2. ASSUME NEW n \in Places, Edit(n)
      PROVE  Inv'
  <2>1. /\ body' \in Seq(Object) /\ Len(body') = Len(body)
        /\ faults' \in Nat /\ faults <= faults'
        /\ UNCHANGED <<setup, ent, op, up, taken>>
    BY <1>0, <1>2, EditEffect
  <2>2. Typed'
    BY <1>0, <2>1 DEF Typed
  <2>3. Sole'
    BY <2>1, SameTrees DEF Inv, Sole
  <2>4. ASSUME NEW c \in Calls PROVE CallOK(c)'
    <3>1. CallOK(c) /\ (faults > 0 => faults' > 0)
      BY <1>0, <2>1 DEF Inv
    <3>2. /\ Kind(c)' = Kind(c) /\ From(c)' = From(c) /\ Home(c)' = Home(c) /\ Way(c)' = Way(c)
      BY <2>1, SameSituation
    <3> QED BY <2>1, <3>1, <3>2 DEF CallOK, PublicationOK, MoveOK, SwapOK, WorkspaceOK, Unadmitted
  <2> QED BY <2>2, <2>3, <2>4 DEF Inv
<1>3. ASSUME NEW p \in Procs, Crash(p) \/ Exit(p) \/ EndExit(p)
      PROVE  Inv'
  <2>1. /\ UNCHANGED <<setup, ent, body, op, taken>> /\ faults' \in Nat /\ faults <= faults'
        /\ \E s \in {"exiting", "exited", "crashed"} :
             /\ up' = [up EXCEPT ![p] = s]
             /\ s = "exited" => \A c \in Calls : Home(c) = p /\ op[c].reg => op[c].exit \in {"done", "pending"}
    BY <1>0, <1>3 DEF Crash, Exit, EndExit, Fault
  <2>2. Typed'
    BY <1>0, <2>1 DEF Typed
  <2>3. Sole'
    BY <2>1, SameTrees DEF Inv, Sole
  <2>4. ASSUME NEW c \in Calls PROVE CallOK(c)'
    <3>1. CallOK(c) /\ (faults > 0 => faults' > 0)
      BY <1>0, <2>1 DEF Inv
    <3>2. /\ Kind(c)' = Kind(c) /\ From(c)' = From(c) /\ Home(c)' = Home(c) /\ Way(c)' = Way(c)
      BY <2>1, SameSituation
    <3>3. /\ up'[Home(c)] = "up" => up[Home(c)] = "up"
          /\ up'[Home(c)] = "exited" /\ op[c].reg => op[c].exit \in {"done", "pending"}
      BY <1>0, <2>1, <3>1, SituationType DEF Typed, CallOK
    <3> QED BY <2>1, <3>1, <3>2, <3>3 DEF CallOK, PublicationOK, MoveOK, SwapOK, WorkspaceOK, Unadmitted
  <2> QED BY <2>2, <2>3, <2>4 DEF Inv
<1> QED BY <1>1, <1>2, <1>3 DEF Environment, Places

LEMMA StutterKeepsInv ==
  ASSUME Inv, UNCHANGED vars
  PROVE  Inv'
<1>1. Kind(0)' = Kind(0) /\ TreeNames' = TreeNames
  BY DEF vars, Kind, TreeNames, TreeCalls
<1>2. Typed'
  BY DEF vars, Inv, Typed
<1>3. Sole'
  BY <1>1 DEF vars, Inv, Sole
<1>4. ASSUME NEW c \in Calls PROVE CallOK(c)'
  BY SameSituation DEF vars, Inv, CallOK, PublicationOK, MoveOK, SwapOK, WorkspaceOK, Unadmitted
<1> QED BY <1>2, <1>3, <1>4 DEF Inv

-----------------------------------------------------------------------------
(* The start.                                                              *)

LEMMA StartBody ==
  ASSUME EntriesInit
  PROVE  /\ setup \in Setups /\ setup.start \in [Names -> Nat]
         /\ body \in Seq(Object) /\ \A n \in Names : setup.start[n] <= Len(body)
         /\ \A i \in 1..Len(body) : body[i].whole
<1>1. setup \in Setups
  BY DEF EntriesInit
<1>2. setup.start \in [Names -> Nat] /\ \E m \in Names : \A n \in Names : setup.start[n] <= setup.start[m]
  BY <1>1, EntriesAssumption
<1> DEFINE count == CHOOSE k \in {setup.start[n] : n \in Names} :
                      \A n \in Names : setup.start[n] <= k
<1>3. count \in {setup.start[n] : n \in Names} /\ \A n \in Names : setup.start[n] <= count
  BY <1>2
<1>4. count \in Nat
  BY <1>2, <1>3
<1>5. body = [i \in 1..count |-> [data |-> i, whole |-> TRUE]]
  BY DEF EntriesInit
<1> HIDE DEF count
<1>6. \A i \in 1..count : [data |-> i, whole |-> TRUE] \in Object
  BY <1>4 DEF Object
<1>7. body \in [1..count -> Object]
  BY <1>5, <1>6
<1>8. body \in Seq(Object)
  BY <1>4, <1>7, SeqDef
<1>9. Len(body) = count
  BY <1>4, <1>5, <1>8, LenProperties
<1> QED BY <1>1, <1>2, <1>3, <1>5, <1>8, <1>9

LEMMA InitInv == EntriesInit => Inv
<1> SUFFICES ASSUME EntriesInit
             PROVE  Inv
  OBVIOUS
<1>0. /\ setup \in Setups /\ setup.start \in [Names -> Nat]
      /\ body \in Seq(Object) /\ \A n \in Names : setup.start[n] <= Len(body)
      /\ Calls \cap Names = {}
  BY StartBody, EntriesAssumption
<1>1. \A n \in Places : ent[n] = IF n \in Names THEN setup.start[n] ELSE None
  BY DEF EntriesInit, Places
<1>2. /\ ent \in [Places -> Nat] /\ \A n \in Places : ent[n] <= Len(body)
  <2>1. Len(body) \in Nat
    BY <1>0, LenProperties
  <2>2. ent \in [Places -> Nat]
    BY <1>0 DEF EntriesInit, Places, None
  <2>3. \A n \in Places : ent[n] <= Len(body)
    BY <1>0, <1>1, <2>1 DEF None
  <2> QED BY <2>2, <2>3
<1>3. NewOp \in OpState
  BY StepNames, OutcomeNames DEF NewOp, OpState, None
<1>4. \A c \in Calls : op[c] = NewOp
  BY DEF EntriesInit
<1>5. Typed
  <2>1. Bounded(NewOp, Len(body))
    BY <1>0, LenProperties DEF Bounded, NewOp, None
  <2> QED BY <1>0, <1>2, <1>3, <1>4, <2>1 DEF Typed, EntriesInit
<1>6. Sole
  <2> SUFFICES ASSUME NEW n \in Calls \cup TreeNames, NEW m \in Places \ {n}, ent[m] = ent[n],
                      ent[n] # None
               PROVE  FALSE
    BY DEF Sole
  <2>1. n \in Names /\ m \in Names
    BY <1>1, TreePlaces DEF Places
  <2>2. n \in TreeNames /\ n \notin Calls
    BY <1>0, <2>1
  <2>3. PICK c \in TreeCalls : n \in Given(setup, c)
    BY <1>0, <2>2 DEF TreeNames, TreeCalls, ForTrees
  <2>4. setup.start[n] # None => setup.start[m] # setup.start[n]
    BY <1>0, <2>1, <2>3, EntriesAssumption DEF TreeCalls
  <2> QED BY <1>1, <2>1, <2>4 DEF Places
<1>7. ASSUME NEW c \in Calls PROVE CallOK(c)
  <2>1. ent[c] = None
    BY <1>0, <1>1 DEF Places
  <2>2. /\ op[c].pc = "idle" /\ op[c].src = None /\ op[c].old = None /\ op[c].made = None
        /\ op[c].exit = "no" /\ ~op[c].reg /\ ~op[c].pub
    BY <1>4 DEF NewOp
  <2> QED BY <2>1, <2>2 DEF CallOK, PublicationOK, MoveOK, SwapOK, WorkspaceOK, Holding, Unknown
<1> QED BY <1>5, <1>6, <1>7 DEF Inv

\* The invariant, for every situation and every fault.
THEOREM PlacementInvariant == Spec => []Inv
<1>1. Inv /\ [Next]_vars => Inv'
  BY CallsKeepInv, EnvironmentKeepsInv, StutterKeepsInv DEF Next
<1> QED BY InitInv, <1>1, PTL DEF Spec

\* What was registered or handed over is not left behind in silence, by any number of
\* calls, under every fault of the model; what a failure leaves before its
\* registration, and what a crash leaves, is.
THEOREM NothingForgotten == Spec => []Accounted
<1>1. Inv => Accounted
  <2> SUFFICES ASSUME Inv, NEW c \in Calls, Left(c)
               PROVE  \/ up[Home(c)] = "crashed" \/ Unadmitted(c)
                      \/ op[c].pc = "settled" /\ op[c].told \in {"backup", "indeterminate", "incomplete"}
                      \/ up[Home(c)] \in {"up", "exiting"} /\ (op[c].pc # "settled" \/ op[c].reg)
                      \/ up[Home(c)] = "exited" /\ op[c].pc # "settled" /\ Unreached(c)
                      \/ op[c].exit = "done" /\ faults > 0
    BY DEF Accounted
  <2>1. CallOK(c) /\ up[Home(c)] \in {"up", "exiting", "exited", "crashed"}
        /\ Kind(c) \in {"publish", "swap", "move", "workspace"}
    BY SituationType DEF Inv, Typed
  <2>2. CASE Kind(c) = "publish"
    BY <2>1, <2>2 DEF Left, CallOK, PublicationOK, Kind
  <2>3. CASE Kind(c) = "move"
    BY <2>1, <2>3 DEF Left, CallOK, MoveOK, Kind, Unreached, Unadmitted
  <2>4. CASE Kind(c) = "swap"
    BY <2>1, <2>4 DEF Left, CallOK, SwapOK, Kind, Unreached
  <2>5. CASE Kind(c) = "workspace"
    BY <2>1, <2>5 DEF Left, CallOK, WorkspaceOK, Kind, Unreached, Unadmitted
  <2> QED BY <2>1, <2>2, <2>3, <2>4, <2>5
<1> QED BY <1>1, PlacementInvariant, PTL

-----------------------------------------------------------------------------
(* Sources and directories.                                                *)

\* A source gains nothing from the calls.
LEMMA SourcesLose ==
  ASSUME SourcesApart, Typed, NEW c \in Calls, Effect(c), NEW n \in Sources
  PROVE  ent'[n] \in {ent[n], None}
<1>1. n \in Places /\ n \in Names /\ n \notin TreeNames
  BY NamesApart DEF Places, Typed
<1>2. CASE c \in TreeCalls
  <2>1. n \notin Mine(c)
    BY <1>1, <1>2, NamesApart DEF Mine, Typed
  <2> QED BY <1>1, <2>1, SituationType DEF Effect, Shape, Typed, Mine
<1>3. CASE c \notin TreeCalls
  <2>1. n # To(c) /\ n # c
    BY <1>1, <1>3, SourceNoTarget, SituationType DEF Typed
  <2> QED BY <1>1, <1>3, <2>1, SituationType DEF Effect, Shape, Typed, Mine
<1> QED BY <1>2, <1>3

LEMMA UnaliasedNext ==
  ASSUME SourcesApart, Typed, Unaliased, NEW c \in Calls, Effect(c)
  PROVE  Unaliased'
<1>1. Sources' = Sources
  BY SameTrees DEF Effect, Frame
<1>2. \A n \in Sources : ent'[n] \in {ent[n], None}
  BY SourcesLose
<1> QED BY <1>1, <1>2 DEF Unaliased

\* An object reaches the name of a directory from another one.
LEMMA TreesApart ==
  ASSUME Typed, NEW c \in Calls, Effect(c), NEW i \in Nat, i # None, i <= Len(body),
         \A m \in TreeNames : ent[m] # i
  PROVE  \A m \in TreeNames : ent'[m] # i
<1> SUFFICES ASSUME NEW n \in TreeNames, ent'[n] = i
             PROVE  FALSE
  OBVIOUS
<1>1. n \in Places
  BY TreePlaces
<1>2. n \in Mine(c) /\ \E m \in Mine(c) \ {n} : ent[m] = i
  BY <1>1, Spread
<1>3. Mine(c) \subseteq TreeNames
  BY <1>2, NamesApart DEF Typed, Mine
<1> QED BY <1>2, <1>3

\* Where only whole objects are: what calls move and link.
LEMMA WholeNames ==
  ASSUME SourcesApart, Typed, Halves, NEW n \in Names, n \in Sources \/ n \in TreeNames
  PROVE  Whole(n)
<1> SUFFICES ASSUME NEW c \in Calls, HalfAt(c, n)
             PROVE  FALSE
  BY DEF Halves
<1>1. c \notin TreeCalls /\ To(c) = n
  BY SituationType DEF HalfAt, Typed
<1> QED BY <1>1, SourceNoTarget, NamesApart DEF Typed

\* A directory that is erased is under one name.
LEMMA KeptWhole ==
  ASSUME Inv, NEW c \in Calls, Effect(c), NEW n \in Places, n # c \/ c \notin TreeCalls,
         Whole(n), ent'[n] = ent[n]
  PROVE  Whole(n)'
<1> SUFFICES ASSUME ent[n] # None
             PROVE  body'[ent[n]].whole
  BY DEF Whole
<1>1. ent[n] \in 1..Len(body) /\ body[ent[n]].whole
  BY LenProperties DEF Inv, Typed, Whole, None
<1>2. CallOK(c)
  BY DEF Inv
<1>3. c \in TreeCalls <=> Kind(c) \in {"swap", "workspace"}
  BY SituationType DEF Inv, Typed
<1>4. /\ Kind(c) = "swap" /\ op[c].pc = "cleaning" => n = c \/ ent[n] # op[c].old
      /\ Kind(c) = "workspace" /\ op[c].pc \in {"erase", "erasePath"} => n = c \/ ent[n] # op[c].made
  BY <1>2 DEF CallOK, SwapOK, WorkspaceOK
<1> QED BY <1>1, <1>3, <1>4 DEF Effect, Contents

-----------------------------------------------------------------------------
(* What a step notes.                                                      *)

LEMMA OrdinaryRests ==
  ASSUME Typed, NEW c \in Calls, Ordinary(c)
  PROVE  Rests(c)
BY Settled, Gone, Dispatched DEF Ordinary

\* A publication notes its source, then what it created, and what its addon gave up.
LEMMA PublicationNotes ==
  ASSUME Inv, NEW c \in Calls, PublicationStep(c)
  PROVE  \/ Rests(c)
         \/ /\ op'[c].src = op[c].src /\ op'[c].old = op[c].made /\ op'[c].made = None
            /\ (NativeUndo(c) \/ NativeRemove(c))
         \/ /\ op'[c].old = op[c].old
            /\ \/ op[c].made = None /\ op'[c].made = None /\ op'[c].src = ent[From(c)]
               \/ op[c].made = None /\ op'[c].src = op[c].src /\ op'[c].made = op[c].src
               \/ /\ op[c].made = None /\ op'[c].src = op[c].src /\ op'[c].made = Len(body) + 1
                  /\ (CreateCopy(c) \/ CreateNative(c))
               \/ /\ op'[c].src = op[c].src /\ op'[c].made = op[c].made
                  /\ (FillCopy(c) \/ AdmitCopy(c) \/ AdoptNative(c))
<1>0. Typed /\ op \in [Calls -> OpState] /\ op[c] \in OpState
  BY OpType DEF Inv, Typed
<1>1. PublicationOK(c) /\ From(c) \in Places /\ To(c) \in Places
  BY <1>0, PublicationEffect, SituationType DEF Inv, CallOK, Typed
<1>2. Ordinary(c) => Rests(c)
  BY <1>0, OrdinaryRests
<1>3. ASSUME NEW i, NEW pc, Created(c, i, pc)
      PROVE  op'[c].made = i /\ op'[c].src = op[c].src /\ op'[c].old = op[c].old
  BY <1>0, <1>3 DEF Created, OpState
<1>4. CASE OpenSource(c)
  <2>1. op[c].made = None
    BY <1>1, <1>4 DEF OpenSource, At, PublicationOK
  <2>2. CASE Settle(c, "failed")
    BY <1>2, <2>2, OutcomeNames DEF Ordinary
  <2>3. CASE op' = [op EXCEPT ![c].pc = "check", ![c].src = ent[From(c)]]
    <3>1. op'[c].src = ent[From(c)] /\ op'[c].made = op[c].made /\ op'[c].old = op[c].old
      BY <1>0, <2>3 DEF OpState
    <3> QED BY <2>1, <3>1
  <2> QED BY <1>4, <2>2, <2>3 DEF OpenSource
<1>5. CASE LinkTarget(c) \/ LinkPair(c) \/ RenameSource(c)
  <2>1. Ordinary(c) \/ \E pc : Created(c, op[c].src, pc)
    BY <1>5, StepNames, OutcomeNames DEF LinkTarget, LinkPair, RenameSource, Ordinary
  <2>2. op[c].made = None
    BY <1>1, <1>5 DEF LinkTarget, LinkPair, RenameSource, At, PublicationOK
  <2> QED BY <1>2, <1>3, <2>1, <2>2
<1>6. CASE CreateCopy(c) \/ CreateNative(c)
  <2>1. CASE Ordinary(c)
    BY <1>2, <2>1
  <2>2. ASSUME NEW pc, CreateTarget(c, pc)
        PROVE  op'[c].made = Len(body) + 1 /\ op'[c].src = op[c].src /\ op'[c].old = op[c].old
    BY <1>0, <2>2 DEF CreateTarget, OpState
  <2>3. Ordinary(c) \/ \E pc : CreateTarget(c, pc)
    BY <1>6, OutcomeNames DEF CreateCopy, CreateNative, Exists, Ordinary
  <2>4. op[c].made = None
    BY <1>1, <1>6 DEF CreateCopy, CreateNative, At, PublicationOK
  <2> QED BY <1>6, <2>1, <2>2, <2>3, <2>4
<1>7. CASE FillCopy(c) \/ AdmitCopy(c) \/ AdoptNative(c)
  <2>1. CASE Ordinary(c)
    BY <1>2, <2>1
  <2>2. CASE \/ op' = [op EXCEPT ![c].pc = "verify", ![c].read = body[op[c].src].data]
             \/ op' = [op EXCEPT ![c].pc = "fill", ![c].pub = TRUE]
             \/ op' = [op EXCEPT ![c].pc = "verify", ![c].pub = TRUE, ![c].read = body[op[c].made].data]
             \/ op' = [op EXCEPT ![c].pc = "undo", ![c].pub = TRUE]
    <3>1. op'[c].src = op[c].src /\ op'[c].made = op[c].made /\ op'[c].old = op[c].old
      BY <1>0, <2>2 DEF OpState
    <3> QED BY <1>7, <3>1
  <2> QED BY <1>7, <2>1, <2>2, StepNames, OutcomeNames
          DEF FillCopy, AdmitCopy, AdoptNative, Undoes, Ordinary
<1>8. CASE CheckSource(c) \/ VerifyTarget(c) \/ SyncParent(c) \/ FinishPublication(c)
            \/ CheckUndo(c) \/ CheckSingle(c) \/ CheckPair(c)
  <2>1. Ordinary(c)
    BY <1>0, <1>1, <1>8, StepNames, OutcomeNames, SituationType
       DEF CheckSource, VerifyTarget, SyncParent, FinishPublication, CheckUndo, CheckSingle,
           CheckPair, Undoes, Ordinary, Typed
  <2> QED BY <1>2, <2>1
<1>9. CASE RemoveCreated(c) \/ UnlinkSource(c) \/ NativeCopy(c)
  <2>1. Ordinary(c)
    BY <1>9, StepNames, OutcomeNames, ReplyOrdinary, ReplyGoes
       DEF RemoveCreated, UnlinkSource, NativeCopy, Ordinary
  <2> QED BY <1>2, <2>1
<1>10. CASE NativeUndo(c) \/ NativeRemove(c)
  <2>1. CASE Ordinary(c)
    BY <1>2, <2>1
  <2>2. CASE op' = [op EXCEPT ![c].pc = "portable", ![c].old = op[c].made, ![c].made = None]
    <3>1. op'[c].src = op[c].src /\ op'[c].made = None /\ op'[c].old = op[c].made
      BY <1>0, <2>2 DEF OpState
    <3> QED BY <1>10, <3>1
  <2> QED BY <1>1, <1>10, <2>1, <2>2, StepNames, OutcomeNames
          DEF NativeUndo, NativeRemove, GiveUpNative, Reply, Ordinary
<1> QED BY <1>4, <1>5, <1>6, <1>7, <1>8, <1>9, <1>10 DEF PublicationStep

\* A move notes its stage; its fingerprint is of what is at the source.
Same(c) == op'[c].made = op[c].made /\ op'[c].print = op[c].print /\ op'[c].read = op[c].read

LEMMA MoveNotes ==
  ASSUME Inv, NEW c \in Calls, MoveStep(c)
  PROVE  \/ Same(c)
         \/ InspectSource(c) /\ op'[c].made = op[c].made /\ op'[c].pc = "stage"
            /\ op'[c].print = Fingerprint(ent[From(c)]) /\ ent[From(c)] # None
         \/ CreateStage(c) /\ op'[c].made = Len(body) + 1 /\ op'[c].print = op[c].print
            /\ op'[c].pc = "record" /\ Create(c, 0, FALSE)
         \/ CopySource(c) /\ op'[c].made = op[c].made /\ op'[c].print = op[c].print
            /\ op'[c].pc = "recheck" /\ op'[c].read = body[op[c].print.id].data
            /\ body' = [body EXCEPT ![op[c].made] =
                          [data |-> body[op[c].print.id].data, whole |-> TRUE]]
<1>0. Typed /\ op \in [Calls -> OpState] /\ op[c] \in OpState
  BY OpType DEF Inv, Typed
<1>1. From(c) \in Places /\ c \in Places /\ Way(c) \in {"direct", "reject"}
  BY <1>0, MoveEffect, SituationType DEF Typed
<1>2. Ordinary(c) => Same(c)
  BY <1>0, OrdinaryRests DEF Rests, Same
<1>3. CASE StartMove(c) \/ RecheckSource(c) \/ SendCommit(c) \/ CheckRemoval(c) \/ CheckDrop(c)
  <2>1. Ordinary(c)
    BY <1>1, <1>3, StepNames, OutcomeNames
       DEF StartMove, RecheckSource, SendCommit, CheckRemoval, CheckDrop, Ordinary
  <2> QED BY <1>2, <2>1
<1>4. CASE RenameDirect(c) \/ CommitStage(c) \/ RemoveSource(c)
  <2>1. Ordinary(c)
    BY <1>4, StepNames, OutcomeNames, ReplyOrdinary, ReplyGoes
       DEF RenameDirect, CommitStage, RemoveSource
  <2> QED BY <1>2, <2>1
<1>5. CASE InspectSource(c)
  <2>1. CASE Settle(c, "failed")
    BY <1>2, <2>1, OutcomeNames DEF Ordinary
  <2>2. CASE /\ op' = [op EXCEPT ![c].print = Fingerprint(ent[From(c)]), ![c].pc = "stage"]
             /\ ent[From(c)] # None
    <3>1. op'[c].made = op[c].made /\ op'[c].pc = "stage" /\ op'[c].print = Fingerprint(ent[From(c)])
      BY <1>0, <2>2 DEF OpState
    <3> QED BY <1>5, <2>2, <3>1
  <2> QED BY <1>5, <2>1, <2>2 DEF InspectSource
<1>6. CASE CreateStage(c)
  <2>1. CASE Settle(c, "failed")
    BY <1>2, <2>1, OutcomeNames DEF Ordinary
  <2>2. CASE /\ Create(c, 0, FALSE)
             /\ op' = [op EXCEPT ![c].pc = "record", ![c].made = Len(body) + 1]
    <3>1. op'[c].made = Len(body) + 1 /\ op'[c].pc = "record" /\ op'[c].print = op[c].print
      BY <1>0, <2>2 DEF OpState
    <3> QED BY <1>6, <2>2, <3>1
  <2> QED BY <1>6, <2>1, <2>2 DEF CreateStage
<1>7. CASE CopySource(c)
  <2>1. CASE Go(c, "drop")
    BY <1>2, <2>1, StepNames DEF Ordinary
  <2>2. CASE /\ op' = [op EXCEPT ![c].pc = "recheck", ![c].read = body[op[c].print.id].data]
             /\ body' = [body EXCEPT ![op[c].made] =
                          [data |-> body[op[c].print.id].data, whole |-> TRUE]]
    <3>1. /\ op'[c].made = op[c].made /\ op'[c].pc = "recheck" /\ op'[c].print = op[c].print
          /\ op'[c].read = body[op[c].print.id].data
      BY <1>0, <2>2 DEF OpState
    <3> QED BY <1>7, <2>2, <3>1
  <2> QED BY <1>7, <2>1, <2>2 DEF CopySource
<1>8. CASE RecordStage(c)
  <2>1. CASE Settle(c, "unadmitted")
    BY <1>2, <2>1, OutcomeNames DEF Ordinary
  <2>2. CASE op' = [op EXCEPT ![c].pc = "copy", ![c].reg = TRUE]
    BY <1>0, <2>2 DEF Same, OpState
  <2> QED BY <1>8, <2>1, <2>2 DEF RecordStage
<1>9. CASE NoteCommit(c)
  BY <1>0, <1>9 DEF NoteCommit, Same, OpState
<1>10. CASE DropStage(c)
  <2>1. Ordinary(c) \/ op' = [op EXCEPT ![c].pc = "settled", ![c].told = "failed"]
    BY <1>10, StepNames, OutcomeNames, ReplyOrdinary DEF DropStage, Reply, Ordinary
  <2>2. CASE op' = [op EXCEPT ![c].pc = "settled", ![c].told = "failed"]
    BY <1>0, <2>2 DEF Same, OpState
  <2> QED BY <1>2, <2>1, <2>2
<1>11. CASE ExitCheckStage(c)
  BY <1>0, <1>11 DEF ExitCheckStage, Same, OpState
<1>12. CASE ExitRemoveStage(c)
  BY <1>0, <1>12 DEF ExitRemoveStage, Same, OpState
<1> QED BY <1>3, <1>4, <1>5, <1>6, <1>7, <1>8, <1>9, <1>10, <1>11, <1>12 DEF MoveStep

LEMMA SwapNotes ==
  ASSUME Inv, NEW c \in Calls, SwapStep(c)
  PROVE  op'[c].old \in {op[c].old, ent[To(c)]}
<1>0. Typed /\ op \in [Calls -> OpState] /\ op[c] \in OpState
  BY OpType DEF Inv, Typed
<1>1. Ordinary(c) => Rests(c)
  BY <1>0, OrdinaryRests
<1>2. CASE Ordinary(c)
  BY <1>1, <1>2 DEF Rests
<1>3. CASE op' = [op EXCEPT ![c].src = ent[From(c)], ![c].old = ent[To(c)],
                            ![c].pc = IF ent[To(c)] = None THEN "place" ELSE "backup"]
  BY <1>0, <1>3 DEF OpState
<1>4. CASE op' = [op EXCEPT ![c].pc = "placeCheck", ![c].pub = TRUE, ![c].made = op[c].src]
  BY <1>0, <1>4 DEF OpState
<1> DEFINE Other == \/ Ordinary(c)
                    \/ op' = [op EXCEPT ![c].src = ent[From(c)], ![c].old = ent[To(c)],
                            ![c].pc = IF ent[To(c)] = None THEN "place" ELSE "backup"]
                    \/ op' = [op EXCEPT ![c].pc = "placeCheck", ![c].pub = TRUE, ![c].made = op[c].src]
<1>5. Admit(c) \/ RenameBackup(c) \/ RenamePlace(c) \/ RenameRollback(c) => Other
  BY StepNames, OutcomeNames
     DEF Admit, RenameBackup, RenamePlace, RenameRollback, Keeps, Unpublished, Ordinary
<1>6. CheckBackup(c) \/ ObserveBackup(c) \/ CheckPlace(c) \/ ObservePlace(c) \/ CheckClean(c)
        \/ RemoveOriginal(c) \/ CheckRollback(c) \/ ObserveRollback(c) => Other
  BY StepNames, OutcomeNames, ReplyOrdinary
     DEF CheckBackup, ObserveBackup, CheckPlace, ObservePlace, CheckClean, RemoveOriginal,
         CheckRollback, ObserveRollback, Keeps, Unpublished, Ordinary
<1> QED BY <1>2, <1>3, <1>4, <1>5, <1>6 DEF SwapStep

LEMMA WorkspaceNotes ==
  ASSUME Inv, NEW c \in Calls, WorkspaceStep(c)
  PROVE  op'[c].made \in {op[c].made, Len(body) + 1}
<1>0. Typed /\ op \in [Calls -> OpState] /\ op[c] \in OpState
  BY OpType DEF Inv, Typed
<1>1. From(c) \in Places /\ c \in Places
  BY <1>0, SituationType DEF Typed
<1>2. Ordinary(c) => op'[c].made = op[c].made
  BY <1>0, OrdinaryRests DEF Rests
<1>3. CASE CreateWorkspace(c)
  BY <1>0, <1>3 DEF CreateWorkspace, OpState
<1>4. CASE AdmitWorkspace(c)
  <2>1. Ordinary(c) \/ op' = [op EXCEPT ![c].pc = "open", ![c].reg = TRUE]
    BY <1>4, OutcomeNames DEF AdmitWorkspace, Ordinary
  <2> QED BY <1>0, <1>2, <2>1 DEF OpState
<1>5. CASE StartCleanup(c) \/ PrepareCleanup(c) \/ HideWorkspace(c) \/ ObserveHidden(c)
            \/ ConfirmHidden(c)
  <2>1. Ordinary(c)
    BY <1>1, <1>5, StepNames, OutcomeNames
       DEF StartCleanup, PrepareCleanup, HideWorkspace, ObserveHidden, ConfirmHidden, Finish, Ordinary
  <2> QED BY <1>2, <2>1
<1>6. CASE EraseOwned(c) \/ ErasePath(c)
  <2>1. Ordinary(c)
    BY <1>6, StepNames, OutcomeNames DEF EraseOwned, ErasePath, Finish, Reply, Ordinary
  <2> QED BY <1>2, <2>1
<1>7. CASE ExitWorkspace(c)
  BY <1>0, <1>7 DEF ExitWorkspace, OpState
<1> QED BY <1>3, <1>4, <1>5, <1>6, <1>7 DEF WorkspaceStep

-----------------------------------------------------------------------------
(* What the calls keep when no source is a target.                         *)

\* Which step the call takes.
LEMMA KindOfStep ==
  ASSUME Inv, NEW c \in Calls, Step(c)
  PROVE  /\ Effect(c)
         /\ Kind(c) = "publish" => PublicationStep(c)
         /\ Kind(c) = "move" => MoveStep(c)
         /\ Kind(c) = "swap" => SwapStep(c)
         /\ Kind(c) = "workspace" => WorkspaceStep(c)
         /\ Kind(c) \in {"publish", "swap", "move", "workspace"}
         /\ c \in TreeCalls <=> Kind(c) \in {"swap", "workspace"}
BY PublicationEffect, SwapEffect, MoveEffect, WorkspaceEffect, SituationType DEF Step, Inv, Typed

LEMMA MadeNext ==
  ASSUME SourcesApart, Inv, NEW d \in Calls, Step(d), \A x \in Calls : MadeOK(x), NEW c \in Calls
  PROVE  MadeOK(c)'
<1>0. Typed /\ Effect(d) /\ Len(body) \in Nat
  BY KindOfStep, LenProperties DEF Inv, Typed
<1>1. /\ Kind(c)' = Kind(c) /\ TreeCalls' = TreeCalls /\ TreeNames' = TreeNames /\ Sources' = Sources
      /\ \A x \in Calls : Kind(x)' = Kind(x)
  BY <1>0, SameSituation, SameTrees DEF Effect, Frame
<1>2. \A x \in Calls \ {d} : op'[x] = op[x]
  BY <1>0, OthersKept
<1>3. /\ op[c].made \in Nat /\ op[c].made <= Len(body) /\ op[c].src \in Nat
      /\ op[c].src <= Len(body)
      /\ \A x \in Calls : /\ op[x].old \in Nat /\ op[x].old <= Len(body)
                          /\ op[x].made \in Nat /\ op[x].made <= Len(body)
  BY <1>0, OpType DEF OpState, Bounded
<1>4. \A n \in Sources : ent'[n] \in {ent[n], None} /\ n \in Places /\ n \in Names
  BY <1>0, SourcesLose, NamesApart DEF Places, Typed
<1>5. \A n \in Places : ent[n] \in Nat /\ ent[n] <= Len(body)
  BY <1>0 DEF Typed
<1>6. c \in TreeCalls <=> Kind(c) \in {"swap", "workspace"}
  BY <1>0, SituationType DEF Typed
<1>k. Kind(c) \in {"publish", "swap", "move", "workspace"}
  BY <1>0, SituationType DEF Typed
<1>7. c \notin TreeCalls /\ op'[c].made \notin {None, op'[c].src} => \A n \in Sources : ent'[n] # op'[c].made
  <2> SUFFICES ASSUME c \notin TreeCalls, op'[c].made \notin {None, op'[c].src}
               PROVE  \A n \in Sources : ent'[n] # op'[c].made
    OBVIOUS
  <2>1. CASE op'[c].made = op[c].made /\ op'[c].src = op[c].src
    BY <1>4, <2>1 DEF MadeOK
  <2>2. CASE op'[c].made = Len(body) + 1
    BY <1>0, <1>4, <1>5, <2>2 DEF None
  <2>3. CASE c # d
    BY <1>2, <2>1, <2>3
  <2>4. CASE c = d /\ Kind(c) = "publish"
    BY <2>1, <2>2, <2>4, KindOfStep, PublicationNotes DEF Rests, None
  <2>5. CASE c = d /\ Kind(c) = "move"
    <3>1. op[c].src = None /\ op'[c].src = None
      <4>1. CallOK(c) /\ CallOK(c)'
        BY <1>0, <2>5, MoveOwn, KindOfStep DEF Inv
      <4> QED BY <1>1, <2>5, <4>1 DEF CallOK, MoveOK
    <3> QED BY <2>1, <2>2, <2>5, <3>1, KindOfStep, MoveNotes DEF Same
  <2> QED BY <1>6, <1>k, <2>3, <2>4, <2>5
<1>8. ASSUME Kind(c) = "move", op'[c].made # None
      PROVE  /\ \A n \in TreeNames : ent'[n] # op'[c].made
             /\ \A x \in Calls : Kind(x) = "swap" => op'[x].old # op'[c].made
             /\ \A x \in Calls : Kind(x) = "workspace" => op'[x].made # op'[c].made
  <2>1. CASE op'[c].made = op[c].made
    <3>1. /\ \A n \in TreeNames : ent[n] # op[c].made
          /\ \A x \in Calls : Kind(x) = "swap" => op[x].old # op[c].made
          /\ \A x \in Calls : Kind(x) = "workspace" => op[x].made # op[c].made
      BY <1>8, <2>1 DEF MadeOK
    <3>2. \A n \in TreeNames : ent'[n] # op'[c].made
      BY <1>0, <1>3, <1>8, <2>1, <3>1, TreesApart
    <3>3. ASSUME NEW x \in Calls, Kind(x) = "swap"
          PROVE  op'[x].old # op'[c].made
      <4>1. CASE x # d
        BY <1>2, <2>1, <3>1, <3>3, <4>1
      <4>2. CASE x = d
        <5>1. op'[x].old \in {op[x].old, ent[To(x)]}
          BY <3>3, <4>2, KindOfStep, SwapNotes
        <5>2. To(x) \in TreeNames
          BY <1>0, <3>3, NamesApart, SituationType DEF Typed
        <5> QED BY <2>1, <3>1, <3>3, <5>1, <5>2
      <4> QED BY <4>1, <4>2
    <3>4. ASSUME NEW x \in Calls, Kind(x) = "workspace"
          PROVE  op'[x].made # op'[c].made
      <4>1. CASE x # d
        BY <1>2, <2>1, <3>1, <3>4, <4>1
      <4>2. CASE x = d
        <5>1. op'[x].made \in {op[x].made, Len(body) + 1}
          BY <3>4, <4>2, KindOfStep, WorkspaceNotes
        <5> QED BY <1>0, <1>3, <2>1, <3>1, <3>4, <5>1
      <4> QED BY <4>1, <4>2
    <3> QED BY <3>2, <3>3, <3>4
  <2>2. CASE op'[c].made # op[c].made
    <3>1. c = d
      BY <1>2, <2>2
    <3>2. Create(c, 0, FALSE) /\ op'[c].made = Len(body) + 1
      BY <1>8, <2>2, <3>1, KindOfStep, MoveNotes DEF Same
    <3>3. \A n \in Places \ {c} : ent'[n] = ent[n]
      BY <1>0, <3>2 DEF Create, Put, Typed
    <3>4. c \notin TreeNames /\ TreeNames \subseteq Places
      BY <1>0, <1>6, <1>8, NamesApart DEF Typed
    <3>5. \A x \in Calls : Kind(x) \in {"swap", "workspace"} => op'[x] = op[x]
      BY <1>2, <1>8, <3>1
    <3> QED BY <1>0, <1>3, <1>5, <3>2, <3>3, <3>4, <3>5
  <2> QED BY <2>1, <2>2
<1> QED BY <1>1, <1>7, <1>8 DEF MadeOK

\* What is at a private name reaches another one in two ways.
LEMMA FromPrivate ==
  ASSUME Inv, NEW c \in Calls, Step(c), NEW n \in Names, ent[c] # None, ent'[n] = ent[c]
  PROVE  \/ Kind(c) = "swap" /\ op[c].pc = "rollbackRename"
         \/ Kind(c) = "move" /\ op[c].pc = "rename"
<1>0. Typed /\ CallOK(c) /\ ent \in [Places -> Nat] /\ Len(body) \in Nat /\ ent[c] <= Len(body)
  BY OpType DEF Inv, Typed
<1>1. /\ c \in Places /\ n \in Places /\ n # c /\ From(c) \in Places /\ To(c) \in Places
      /\ From(c) # c /\ To(c) # c
  BY <1>0, SituationType DEF Typed, Places
<1>2. \A m \in Places \ {c} : ent[m] # ent[c]
  BY DEF Inv, Sole
<1>3. Kind(c) # "publish"
  BY <1>0 DEF CallOK, PublicationOK
<1>4. CASE Kind(c) = "workspace"
  <2>1. WorkspaceStep(c) /\ op[c].pc \notin {"idle", "created", "open", "prepare", "hide"}
    BY <1>0, <1>4, KindOfStep DEF CallOK, WorkspaceOK
  <2>2. ent' = ent \/ ent' = [ent EXCEPT ![c] = None]
    BY <2>1 DEF WorkspaceStep, CreateWorkspace, AdmitWorkspace, StartCleanup, PrepareCleanup,
           HideWorkspace, ObserveHidden, EraseOwned, ConfirmHidden, ErasePath, ExitWorkspace,
           At, Put, Remove
  <2> QED BY <1>0, <1>1, <1>2, <2>2
<1>5. CASE Kind(c) = "swap"
  <2>1. SwapStep(c) /\ op[c].pc \notin {"idle", "backup", "backupRename"}
    BY <1>0, <1>5, KindOfStep DEF CallOK, SwapOK
  <2>2. CASE RenameRollback(c)
    BY <1>5, <2>2 DEF RenameRollback, At
  <2>3. CASE RenamePlace(c)
    BY <1>0, <1>1, <1>2, <2>3 DEF RenamePlace, Fails, Rename, None
  <2>4. CASE ent' = ent \/ ent' = [ent EXCEPT ![c] = None]
    BY <1>0, <1>1, <1>2, <2>4
  <2> QED BY <2>1, <2>2, <2>3, <2>4
          DEF SwapStep, Admit, CheckBackup, RenameBackup, ObserveBackup, CheckPlace,
              ObservePlace, CheckClean, RemoveOriginal, CheckRollback, ObserveRollback, At, Put
<1>6. CASE Kind(c) = "move"
  <2>1. MoveStep(c) /\ op[c].pc \notin {"idle", "direct", "inspect", "stage", "renamed",
                                        "published", "unlink"}
    BY <1>0, <1>6, KindOfStep DEF CallOK, MoveOK
  <2>2. CASE CommitStage(c)
    BY <1>6, <2>2 DEF CommitStage, Sent
  <2>3. CASE ent' = ent \/ ent' = [ent EXCEPT ![c] = None]
    BY <1>0, <1>1, <1>2, <2>3
  <2>4. ~(StartMove(c) \/ RenameDirect(c) \/ InspectSource(c) \/ CreateStage(c) \/ NoteCommit(c)
          \/ CheckRemoval(c) \/ RemoveSource(c))
    BY <2>1 DEF StartMove, RenameDirect, InspectSource, CreateStage, NoteCommit, CheckRemoval,
           RemoveSource, At, Sent
  <2>5. CASE RecordStage(c) \/ CopySource(c) \/ RecheckSource(c) \/ SendCommit(c)
             \/ CheckDrop(c) \/ DropStage(c) \/ ExitCheckStage(c) \/ ExitRemoveStage(c)
    BY <2>3, <2>5 DEF RecordStage, CopySource, RecheckSource, SendCommit, CheckDrop, DropStage,
           ExitCheckStage, ExitRemoveStage, Remove, Put
  <2> QED BY <2>1, <2>2, <2>4, <2>5 DEF MoveStep
<1> QED BY <1>0, <1>3, <1>4, <1>5, <1>6, SituationType DEF Typed

\* What moves or is linked to a name is whole.
LEMMA WholeArrives ==
  ASSUME SourcesApart, Inv, Halves, NEW d \in Calls, Step(d), WholeOK(d), NEW n \in Names,
         ent'[n] # None, ent'[n] <= Len(body), ent'[n] # ent[n]
  PROVE  Whole(n)'
<1>0. Typed /\ Effect(d) /\ ent \in [Places -> Nat] /\ Len(body) \in Nat
      /\ \A m \in Places : ent[m] <= Len(body)
  BY KindOfStep, LenProperties DEF Inv, Typed
<1>3. n \in Places /\ n # d
  BY <1>0, SituationType DEF Places, Typed
<1> SUFFICES ASSUME ~body'[ent'[n]].whole
             PROVE  FALSE
  BY DEF Whole
<1>1. PICK m \in Mine(d) \ {n} : ent[m] = ent'[n]
  BY <1>0, <1>3, Spread
<1>2. ent[m] \in 1..Len(body) /\ ~Whole(m)
  <2>1. ent[m] \in 1..Len(body)
    BY <1>0, <1>3, <1>1, SituationType DEF Mine, Typed, None
  <2>2. ~body[ent[m]].whole
    BY <1>0, <1>1, <2>1 DEF Effect, Contents
  <2> QED BY <2>1, <2>2 DEF Whole, None
<1>4. CASE m = d
  BY <1>1, <1>2, <1>4, FromPrivate DEF WholeOK
<1>5. CASE m # d /\ d \in TreeCalls
  BY <1>0, <1>1, <1>2, <1>5, NamesApart, SituationType, WholeNames DEF Mine, Typed
<1>6. CASE m = From(d) /\ d \notin TreeCalls
  BY <1>0, <1>2, <1>6, NamesApart, SituationType, WholeNames DEF Typed
<1>7. CASE m = To(d) /\ m # From(d) /\ m # d /\ d \notin TreeCalls
  \* The target of a call for files gives nothing away.
  <2>1. ASSUME NEW x \in Mine(d), ent' = [ent EXCEPT ![x] = None]
        PROVE  FALSE
    BY <1>0, <1>3, <2>1
  <2>2. ASSUME NEW x \in Mine(d), ent' = [ent EXCEPT ![To(d)] = ent[x], ![x] = None]
        PROVE  FALSE
    BY <1>0, <1>3, <1>1, <1>7, <2>2
  <2>3. ASSUME NEW x \in Mine(d), ent' = [ent EXCEPT ![x] = Len(body) + 1]
        PROVE  FALSE
    BY <1>0, <1>3, <2>3
  <2>4. ASSUME ent' = [ent EXCEPT ![To(d)] = ent[From(d)]]
        PROVE  FALSE
    BY <1>0, <1>3, <1>1, <1>7, <2>4
  <2> QED BY <1>0, <1>7, <2>1, <2>2, <2>3, <2>4 DEF Effect, Shape
<1> QED BY <1>1, <1>4, <1>5, <1>6, <1>7 DEF Mine

\* Which steps of a publication lead to what it created and has not filled.
LEMMA PublicationPhases ==
  ASSUME Inv, NEW c \in Calls, PublicationStep(c)
  PROVE  /\ op'[c].pc = "adopt" => NativeCopy(c)
         /\ op'[c].pc \in {"native", "admit", "fill"} =>
              \/ op'[c].made = Len(body) + 1
              \/ AdmitCopy(c) /\ op'[c].made = op[c].made
<1>0. Typed /\ op \in [Calls -> OpState] /\ op[c] \in OpState /\ From(c) \in Places /\ To(c) \in Places
      /\ Kind(c) = "publish"
  BY OpType, PublicationEffect, SituationType DEF Inv, Typed
<1> DEFINE Young == {"adopt", "native", "admit", "fill"}
<1>s. ASSUME NEW told \in Outcomes, Settle(c, told)
      PROVE  op'[c].pc \notin Young
  BY <1>0, <1>s, Settled
<1>g. ASSUME NEW pc \in Steps \ Young, Go(c, pc)
      PROVE  op'[c].pc \notin Young
  BY <1>0, <1>g, Gone
<1>d. ASSUME NEW pc \in Steps \ Young, NEW n \in Places, Send(c, pc, n)
      PROVE  op'[c].pc \notin Young
  BY <1>0, <1>d, Dispatched
<1>e. ASSUME
      \/ op' = [op EXCEPT ![c].pc = "check", ![c].src = ent[From(c)]]
      \/ op' = [op EXCEPT ![c].pc = "verify", ![c].read = body[op[c].src].data]
      \/ op' = [op EXCEPT ![c].pc = "verify", ![c].pub = TRUE, ![c].read = body[op[c].made].data]
      \/ op' = [op EXCEPT ![c].pc = "undo", ![c].pub = TRUE]
      \/ op' = [op EXCEPT ![c].pc = "portable", ![c].old = op[c].made, ![c].made = None]
      \/ \E pc \in {"verify", "checkPair"} : Created(c, op[c].src, pc)
      PROVE  op'[c].pc \notin Young
  BY <1>0, <1>e DEF Created, OpState
<1>1. CASE OpenSource(c) \/ LinkTarget(c) \/ LinkPair(c) \/ RenameSource(c)
  <2>1. \/ Settle(c, "failed") \/ Go(c, "create")
        \/ op' = [op EXCEPT ![c].pc = "check", ![c].src = ent[From(c)]]
        \/ \E pc \in {"verify", "checkPair"} : Created(c, op[c].src, pc)
    BY <1>1 DEF OpenSource, LinkTarget, LinkPair, RenameSource
  <2>2. ~Settle(c, "failed") \/ op'[c].pc \notin Young
    BY <1>s, OutcomeNames
  <2>3. ~Go(c, "create") \/ op'[c].pc \notin Young
    BY <1>g, StepNames
  <2> QED BY <1>e, <2>1, <2>2, <2>3
<1>2. CASE CreateCopy(c) \/ CreateNative(c)
  <2>1. CASE Settle(c, "failed")
    BY <1>s, <2>1, OutcomeNames
  <2>2. ASSUME NEW pc \in {"native", "admit"}, CreateTarget(c, pc)
        PROVE  op'[c].made = Len(body) + 1 /\ op'[c].pc # "adopt"
    BY <1>0, <2>2 DEF CreateTarget, OpState
  <2> QED BY <1>2, <2>1, <2>2 DEF CreateCopy, CreateNative, Exists
<1>3. CASE AdmitCopy(c)
  <2>1. CASE Settle(c, "failed")
    BY <1>s, <2>1, OutcomeNames
  <2>2. CASE op' = [op EXCEPT ![c].pc = "fill", ![c].pub = TRUE]
    <3>1. op'[c].made = op[c].made /\ op'[c].pc = "fill"
      BY <1>0, <2>2 DEF OpState
    <3> QED BY <1>3, <3>1
  <2> QED BY <1>3, <2>1, <2>2 DEF AdmitCopy
<1>4. CASE FillCopy(c) \/ AdoptNative(c)
  <2>1. \/ Settle(c, "failed") \/ Settle(c, "preserved") \/ Go(c, "undo")
        \/ op' = [op EXCEPT ![c].pc = "verify", ![c].read = body[op[c].src].data]
        \/ op' = [op EXCEPT ![c].pc = "verify", ![c].pub = TRUE, ![c].read = body[op[c].made].data]
        \/ op' = [op EXCEPT ![c].pc = "undo", ![c].pub = TRUE]
    BY <1>4 DEF FillCopy, AdoptNative, Undoes
  <2>2. ~(Settle(c, "failed") \/ Settle(c, "preserved")) \/ op'[c].pc \notin Young
    BY <1>s, OutcomeNames
  <2>3. ~Go(c, "undo") \/ op'[c].pc \notin Young
    BY <1>g, StepNames
  <2> QED BY <1>e, <2>1, <2>2, <2>3
<1>5. CASE NativeCopy(c)
  <2>1. \E pc \in {"adopt", "nativeUndo", "void"} : Go(c, pc)
    BY <1>5 DEF NativeCopy, Reply
  <2>2. op'[c].pc \in {"adopt", "nativeUndo", "void"}
    BY <1>0, <2>1, Gone, StepNames
  <2> QED BY <1>5, <2>2
<1>6. CASE NativeUndo(c) \/ NativeRemove(c)
  <2>1. \/ Settle(c, "failed") \/ Go(c, "void") \/ Send(c, "nativeRemove", To(c))
        \/ op' = [op EXCEPT ![c].pc = "portable", ![c].old = op[c].made, ![c].made = None]
    BY <1>6 DEF NativeUndo, NativeRemove, GiveUpNative, Reply
  <2>2. ~Settle(c, "failed") \/ op'[c].pc \notin Young
    BY <1>s, OutcomeNames
  <2>3. ~Go(c, "void") \/ op'[c].pc \notin Young
    BY <1>g, StepNames
  <2>4. ~Send(c, "nativeRemove", To(c)) \/ op'[c].pc \notin Young
    BY <1>0, <1>d, StepNames
  <2> QED BY <1>e, <2>1, <2>2, <2>3, <2>4
<1>7. CASE CheckSource(c)
  <2>1. Settle(c, "failed") \/ \E pc \in {"link", "rename", "single"} : Go(c, pc)
    BY <1>0, <1>7, SituationType DEF CheckSource, Typed
  <2> QED BY <1>s, <1>g, <2>1, StepNames, OutcomeNames
<1>8. CASE VerifyTarget(c) \/ SyncParent(c) \/ FinishPublication(c) \/ CheckSingle(c)
           \/ RemoveCreated(c) \/ UnlinkSource(c)
  <2>1. \/ \E told \in Outcomes : Settle(c, told)
        \/ \E pc \in {"sync", "finish", "undo", "pair", "void", "verify"} : Go(c, pc)
    BY <1>8, OutcomeNames
       DEF VerifyTarget, SyncParent, FinishPublication, CheckSingle, RemoveCreated, UnlinkSource,
           Undoes, Reply
  <2> QED BY <1>s, <1>g, <2>1, StepNames
<1>9. CASE CheckUndo(c) \/ CheckPair(c)
  <2>1. \/ \E told \in Outcomes : Settle(c, told)
        \/ \E pc \in {"remove", "unlink"}, n \in Places : Send(c, pc, n)
    BY <1>0, <1>9, OutcomeNames DEF CheckUndo, CheckPair
  <2> QED BY <1>s, <1>d, <2>1, StepNames
<1> QED BY <1>1, <1>2, <1>3, <1>4, <1>5, <1>6, <1>7, <1>8, <1>9 DEF PublicationStep

\* What a call keeps at its private name is whole, until it is erased, and what the addon
\* copied.
LEMMA WholeNext ==
  ASSUME SourcesApart, Inv, Halves, NEW d \in Calls, Step(d), WholeOK(d),
         NEW c \in Calls, WholeOK(c)
  PROVE  WholeOK(c)'
<1>0. Typed /\ Effect(d) /\ Len(body) \in Nat /\ c \in Places /\ CallOK(c)
  BY KindOfStep, LenProperties, SituationType DEF Inv, Typed
<1>1. Kind(c)' = Kind(c)
  BY <1>0, SameSituation DEF Effect, Frame
<1>2. CASE c # d
  <2>1. op'[c] = op[c] /\ ent'[c] = ent[c]
    BY <1>0, <1>2, OthersKept
  <2>2. Whole(c) => Whole(c)'
    BY <1>0, <1>2, <2>1, KeptWhole
  <2>3. ASSUME Kind(c) = "publish", op[c].pc = "adopt", ent'[To(c)] = op[c].made
        PROVE  Whole(To(c))'
    <3>1. /\ To(c) \in Names /\ To(c) \in Places /\ To(c) # d /\ To(c)' = To(c)
          /\ op[c].made # None /\ op[c].made <= Len(body)
      <4>1. PublicationOK(c)
        BY <1>0, <2>3 DEF CallOK
      <4> QED BY <1>0, <2>3, <4>1, SituationType, SameSituation, OpType
              DEF Typed, PublicationOK, Holding, Unknown, Effect, Frame, Bounded
    <3>2. CASE ent'[To(c)] = ent[To(c)]
      BY <1>0, <2>3, <3>1, <3>2, KeptWhole DEF WholeOK
    <3>3. CASE ent'[To(c)] # ent[To(c)]
      BY <2>3, <3>1, <3>3, WholeArrives
    <3> QED BY <3>2, <3>3
  <2>4. To(c)' = To(c)
    BY <1>0, SameSituation DEF Effect, Frame
  <2> QED BY <1>1, <2>1, <2>2, <2>3, <2>4 DEF WholeOK
<1>3. CASE c = d /\ Kind(c) = "move"
  <2>1. MoveStep(c) /\ c \notin TreeCalls /\ op[c] \in OpState /\ op \in [Calls -> OpState]
    BY <1>0, <1>3, KindOfStep, OpType DEF Typed
  <2>2. Whole(c) /\ ent'[c] = ent[c] => Whole(c)'
    BY <1>0, <1>3, <2>1, KeptWhole
  <2>3. ent'[c] = None => Whole(c)'
    BY DEF Whole
  <2>4. MoveOK(c)
    BY <1>0, <1>3 DEF CallOK
  <2>u. From(c) # c /\ To(c) # c
    BY <1>0, SituationType DEF Typed
  <2>5. CASE \/ StartMove(c) \/ InspectSource(c) \/ RenameDirect(c)
             \/ NoteCommit(c) \/ CheckRemoval(c) \/ RemoveSource(c) \/ CheckDrop(c) \/ DropStage(c)
    <3>1. op'[c].pc \notin {"record", "copy", "recheck", "commit", "rename"}
      <4> DEFINE Staged == {"record", "copy", "recheck", "commit", "rename"}
      <4>1. Way(c) \in {"direct", "reject"} /\ From(c) \in Places
        BY <1>0, <1>3, SituationType DEF Typed
      <4>2. CASE \/ \E told \in Outcomes : Settle(c, told)
                 \/ \E pc \in Steps \ Staged : Go(c, pc)
                 \/ \E pc \in Steps \ Staged, n \in Places : Send(c, pc, n)
        BY <1>0, <4>2, Settled, Gone, Dispatched
      <4>3. CASE \/ op' = [op EXCEPT ![c].pc = "settled", ![c].told = "failed"]
                 \/ op' = [op EXCEPT ![c].print = Fingerprint(ent[From(c)]), ![c].pc = "stage"]
                 \/ op' = [op EXCEPT ![c].pc = "published", ![c].pub = TRUE, ![c].reg = FALSE]
        BY <2>1, <4>3 DEF OpState
      <4>4. CASE StartMove(c) \/ RenameDirect(c) \/ CheckRemoval(c) \/ RemoveSource(c) \/ CheckDrop(c)
        BY <1>0, <4>1, <4>2, <4>4, StepNames, OutcomeNames
           DEF StartMove, RenameDirect, CheckRemoval, RemoveSource, CheckDrop, Reply
      <4>5. CASE InspectSource(c) \/ NoteCommit(c) \/ DropStage(c)
        BY <4>2, <4>3, <4>5, StepNames, OutcomeNames DEF InspectSource, NoteCommit, DropStage, Reply
      <4> QED BY <2>5, <4>4, <4>5
    <3> QED BY <1>1, <1>3, <3>1 DEF WholeOK
  <2>6. CASE ExitCheckStage(c) \/ ExitRemoveStage(c)
    <3>1. op'[c].pc = op[c].pc /\ op'[c].made = op[c].made
      BY <2>1, <2>6 DEF ExitCheckStage, ExitRemoveStage, OpState
    <3>2. ent'[c] \in {ent[c], None}
      BY <1>0, <2>6 DEF ExitCheckStage, ExitRemoveStage, Remove, Put, Typed
    <3> QED BY <1>1, <1>3, <2>2, <2>3, <3>1, <3>2 DEF WholeOK
  <2>7. CASE CreateStage(c)
    <3>1. CASE Settle(c, "failed")
      <4>1. op'[c].pc = "settled"
        BY <1>0, <3>1, Settled, OutcomeNames
      <4> QED BY <1>1, <1>3, <4>1 DEF WholeOK
    <3>2. CASE /\ Create(c, 0, FALSE)
               /\ op' = [op EXCEPT ![c].pc = "record", ![c].made = Len(body) + 1]
      <4>1. op'[c].pc = "record" /\ op'[c].made = ent'[c]
        BY <1>0, <2>1, <3>2 DEF Create, Put, Typed, OpState
      <4> QED BY <1>1, <1>3, <4>1 DEF WholeOK
    <3> QED BY <2>7, <3>1, <3>2 DEF CreateStage
  <2>8. CASE RecordStage(c)
    <3>1. op[c].pc = "record" /\ ent' = ent
      BY <2>1, <2>8 DEF RecordStage, At
    <3>2. \/ op'[c].pc = "copy" /\ op'[c].made = op[c].made
          \/ op'[c].pc = "settled"
      BY <2>1, <2>8 DEF RecordStage, Settle, OpState
    <3> QED BY <1>1, <1>3, <2>2, <3>1, <3>2 DEF WholeOK
  <2>9. CASE CopySource(c)
    <3>1. CASE Go(c, "drop")
      <4>1. op'[c].pc = "drop"
        BY <1>0, <3>1, Gone, StepNames
      <4> QED BY <1>1, <1>3, <4>1 DEF WholeOK
    <3>2. CASE /\ op' = [op EXCEPT ![c].pc = "recheck", ![c].read = body[op[c].print.id].data]
               /\ body' = [body EXCEPT ![op[c].made] =
                            [data |-> body[op[c].print.id].data, whole |-> TRUE]]
      <4>1. op[c].pc = "copy" /\ op'[c].pc = "recheck" /\ ent' = ent
        BY <2>1, <2>9, <3>2 DEF CopySource, At, OpState
      <4>2. op[c].made \in 1..Len(body)
        BY <1>0, <2>4, <4>1, OpType DEF MoveOK, OpState, Bounded, None
      <4>3. body'[op[c].made].whole
        BY <3>2, <4>2, <1>0, LenProperties DEF Typed
      <4>4. Whole(c)'
        <5>1. CASE ent[c] = op[c].made
          BY <4>1, <4>3, <5>1 DEF Whole
        <5>2. CASE ent[c] # op[c].made
          BY <1>3, <2>2, <4>1, <5>2 DEF WholeOK
        <5> QED BY <5>1, <5>2
      <4> QED BY <1>1, <1>3, <4>1, <4>4 DEF WholeOK
    <3> QED BY <2>9, <3>1, <3>2 DEF CopySource
  <2>10. CASE RecheckSource(c) \/ SendCommit(c)
    <3>1. op[c].pc \in {"recheck", "commit"} /\ op'[c].pc \in {"commit", "rename", "drop"} /\ ent' = ent
      BY <2>1, <2>10 DEF RecheckSource, SendCommit, At, Go, OpState
    <3> QED BY <1>1, <1>3, <2>2, <3>1 DEF WholeOK
  <2>11. CASE CommitStage(c)
    <3>1. op'[c].pc \in {"renamed", "drop", "void"}
      BY <2>1, <2>11 DEF CommitStage, Reply, Go, OpState
    <3> QED BY <1>1, <1>3, <3>1 DEF WholeOK
  <2> QED BY <2>1, <2>5, <2>6, <2>7, <2>8, <2>9, <2>10, <2>11 DEF MoveStep
<1>4. CASE c = d /\ Kind(c) = "swap"
  <2>1. SwapStep(c) /\ c \in TreeCalls /\ op[c] \in OpState /\ op \in [Calls -> OpState]
    BY <1>0, <1>4, KindOfStep, OpType DEF Typed
  <2>u. From(c) # c /\ To(c) # c /\ To(c) \in Names /\ To(c) \in Places /\ To(c) \in TreeNames
        /\ From(c) \in Places
    BY <1>0, <2>1, SituationType, NamesApart DEF Typed
  <2>2. Whole(c) /\ op[c].pc # "cleaning" /\ ent'[c] = ent[c] => Whole(c)'
    <3> SUFFICES ASSUME Whole(c), op[c].pc # "cleaning", ent'[c] = ent[c], ent[c] # None
                 PROVE  body'[ent[c]].whole
      BY DEF Whole
    <3>1. ent[c] \in 1..Len(body)
      BY <1>0 DEF Typed, None
    <3> QED BY <1>0, <1>4, <3>1 DEF Effect, Contents, Whole
  <2>3. ent'[c] = None => Whole(c)'
    BY DEF Whole
  <2>4. op[c].pc \notin {"cleaning", "settled", "void"} => Whole(c)
    BY <1>4 DEF WholeOK
  <2>5. CASE RemoveOriginal(c)
    <3>1. op'[c].pc \in {"settled", "void"}
      BY <2>1, <2>5 DEF RemoveOriginal, Reply, Go, Settle, OpState
    <3> QED BY <1>1, <1>4, <3>1 DEF WholeOK
  <2>6. CASE RenameBackup(c)
    <3>1. Whole(To(c))
      BY <1>0, <2>u, WholeNames
    <3>2. op[c].pc = "backupRename" /\ body' = body
      BY <2>6 DEF RenameBackup, At
    <3>3. ent'[c] = ent[c] \/ ent'[c] = ent[To(c)]
      BY <1>0, <2>u, <2>6 DEF RenameBackup, Fails, Rename, Typed
    <3>4. Whole(c)'
      BY <2>2, <2>4, <3>1, <3>2, <3>3 DEF Whole
    <3> QED BY <1>1, <1>4, <3>4 DEF WholeOK
  <2>7. CASE RenameRollback(c) \/ RenamePlace(c)
    <3>1. op[c].pc \in {"rollbackRename", "placeRename"}
      BY <2>7 DEF RenameRollback, RenamePlace, At
    <3>2. ent'[c] \in {ent[c], None}
      BY <1>0, <2>u, <2>7 DEF RenameRollback, RenamePlace, Fails, Rename, Typed
    <3> QED BY <1>1, <1>4, <2>2, <2>3, <2>4, <3>1, <3>2 DEF WholeOK
  <2>8. CASE \/ Admit(c) \/ CheckBackup(c) \/ ObserveBackup(c) \/ CheckPlace(c) \/ ObservePlace(c)
             \/ CheckClean(c) \/ CheckRollback(c) \/ ObserveRollback(c)
    <3>1. op[c].pc \notin {"cleaning", "settled", "void"} /\ ent' = ent
      BY <2>8 DEF Admit, CheckBackup, ObserveBackup, CheckPlace, ObservePlace, CheckClean,
             CheckRollback, ObserveRollback, At
    <3> QED BY <1>1, <1>4, <2>2, <2>4, <3>1 DEF WholeOK
  <2> QED BY <2>1, <2>5, <2>6, <2>7, <2>8 DEF SwapStep
<1>5. CASE c = d /\ Kind(c) = "publish"
  <2> SUFFICES ASSUME op'[c].pc = "adopt", ent'[To(c)] = op'[c].made
               PROVE  Whole(To(c))'
    <3>1. To(c)' = To(c)
      BY <1>0, SameSituation DEF Effect, Frame
    <3> QED BY <1>1, <1>5, <3>1 DEF WholeOK
  <2>1. NativeCopy(c) /\ PublicationOK(c) /\ op[c] \in OpState /\ op \in [Calls -> OpState]
    BY <1>0, <1>5, KindOfStep, PublicationPhases, OpType DEF Typed, CallOK
  <2>2. op[c].made # None /\ op[c].made \in 1..Len(body)
    BY <1>0, <2>1, OpType DEF PublicationOK, NativeCopy, Sent, Holding, Unknown, Bounded, OpState, None
  <2>3. CASE Go(c, "nativeUndo") \/ Go(c, "void")
    BY <1>0, <2>3, Gone, StepNames
  <2>4. CASE Go(c, "adopt") /\ body' = [body EXCEPT ![op[c].made] = [data |-> body[op[c].src].data, whole |-> TRUE]]
    <3>1. op'[c].made = op[c].made
      BY <1>0, <2>4, Gone, StepNames DEF Rests
    <3>2. body'[op[c].made].whole
      BY <1>0, <2>2, <2>4, LenProperties DEF Typed
    <3>3. To(c)' = To(c)
      BY <1>0, SameSituation DEF Effect, Frame
    <3> QED BY <3>1, <3>2, <3>3 DEF Whole
  <2> QED BY <2>1, <2>3, <2>4 DEF NativeCopy, Reply
<1>6. CASE Kind(c) \notin {"publish", "move", "swap"}
  BY <1>1, <1>6 DEF WholeOK
<1> QED BY <1>2, <1>3, <1>4, <1>5, <1>6

\* A new object at a name is a copy that is filled, or a workspace.
LEMMA NewArrives ==
  ASSUME Inv, NEW c \in Calls, Step(c), NEW n \in Names, ent'[n] = Len(body) + 1
  PROVE  \/ /\ CreateCopy(c) \/ CreateNative(c)
            /\ n = To(c) /\ \E pc \in {"native", "admit"} : CreateTarget(c, pc)
         \/ CreateWorkspace(c) /\ body'[Len(body) + 1].whole
<1>0. Typed /\ CallOK(c) /\ ent \in [Places -> Nat] /\ Len(body) \in Nat
      /\ \A m \in Places : ent[m] <= Len(body)
  BY OpType DEF Inv, Typed
<1>1. /\ c \in Places /\ n \in Places /\ n # c /\ From(c) \in Places /\ To(c) \in Places
      /\ From(c) # c /\ To(c) # c
  BY <1>0, SituationType DEF Typed, Places
<1>2. Len(body) + 1 # None /\ \A m \in Places : ent[m] # Len(body) + 1
  BY <1>0 DEF None
<1>r. ASSUME NEW x \in Places, NEW y \in Places, Rename(x, y)
      PROVE  FALSE
  BY <1>0, <1>1, <1>2, <1>r DEF Rename
<1>p. ASSUME NEW x \in Places, NEW y \in Places, Put(x, ent[y])
      PROVE  FALSE
  BY <1>0, <1>1, <1>2, <1>p DEF Put
<1>x. ASSUME NEW x \in Places, Put(x, None)
      PROVE  FALSE
  BY <1>0, <1>1, <1>2, <1>x DEF Put
<1>u. ent' # ent
  BY <1>1, <1>2
<1>3. CASE PublicationStep(c)
  <2>1. CASE CreateCopy(c) \/ CreateNative(c)
    <3>1. \E pc \in {"native", "admit"} : CreateTarget(c, pc)
      BY <1>u, <2>1 DEF CreateCopy, CreateNative, Exists
    <3>2. n = To(c)
      BY <1>0, <1>1, <1>2, <3>1 DEF CreateTarget, Create, Put
    <3> QED BY <2>1, <3>1, <3>2
  <2>2. ~(LinkTarget(c) \/ LinkPair(c))
    BY <1>1, <1>u, <1>p DEF LinkTarget, LinkPair
  <2>3. ~(RemoveCreated(c) \/ UnlinkSource(c) \/ RenameSource(c) \/ NativeRemove(c))
    BY <1>1, <1>u, <1>r, <1>x DEF RemoveCreated, UnlinkSource, RenameSource, NativeRemove, Remove
  <2>5. ~(NativeCopy(c) \/ NativeUndo(c) \/ AdoptNative(c) \/ AdmitCopy(c))
    BY <1>u DEF NativeCopy, NativeUndo, AdoptNative, AdmitCopy
  <2>4. ~(OpenSource(c) \/ CheckSource(c) \/ FillCopy(c) \/ VerifyTarget(c) \/ SyncParent(c)
          \/ FinishPublication(c) \/ CheckUndo(c) \/ CheckSingle(c) \/ CheckPair(c))
    BY <1>u DEF OpenSource, CheckSource, FillCopy, VerifyTarget, SyncParent,
           FinishPublication, CheckUndo, CheckSingle, CheckPair
  <2> QED BY <1>3, <2>1, <2>2, <2>3, <2>4, <2>5 DEF PublicationStep
<1>4. CASE SwapStep(c)
  <2>1. ~(RenameBackup(c) \/ RenamePlace(c) \/ RenameRollback(c) \/ RemoveOriginal(c))
    BY <1>1, <1>u, <1>r, <1>x DEF RenameBackup, RenamePlace, RenameRollback, RemoveOriginal, Fails
  <2>2. ~(Admit(c) \/ CheckBackup(c) \/ ObserveBackup(c) \/ CheckPlace(c) \/ ObservePlace(c)
          \/ CheckClean(c) \/ CheckRollback(c) \/ ObserveRollback(c))
    BY <1>u DEF Admit, CheckBackup, ObserveBackup, CheckPlace, ObservePlace, CheckClean,
           CheckRollback, ObserveRollback
  <2> QED BY <1>4, <2>1, <2>2 DEF SwapStep
<1>5. CASE MoveStep(c)
  <2>1. ~CreateStage(c)
    <3>1. ~Create(c, 0, FALSE)
      BY <1>0, <1>1, <1>2 DEF Create, Put
    <3> QED BY <1>u, <3>1 DEF CreateStage
  <2>2. ~(RenameDirect(c) \/ CommitStage(c) \/ RemoveSource(c) \/ DropStage(c) \/ ExitRemoveStage(c))
    BY <1>1, <1>u, <1>r, <1>x
       DEF RenameDirect, CommitStage, RemoveSource, DropStage, ExitRemoveStage, Replace, Remove
  <2>3. ~(StartMove(c) \/ InspectSource(c) \/ RecordStage(c) \/ CopySource(c) \/ RecheckSource(c)
          \/ SendCommit(c) \/ NoteCommit(c) \/ CheckRemoval(c) \/ CheckDrop(c) \/ ExitCheckStage(c))
    BY <1>u DEF StartMove, InspectSource, RecordStage, CopySource, RecheckSource, SendCommit,
           NoteCommit, CheckRemoval, CheckDrop, ExitCheckStage
  <2> QED BY <1>5, <2>1, <2>2, <2>3 DEF MoveStep
<1>6. CASE WorkspaceStep(c)
  <2>1. CASE CreateWorkspace(c)
    <3>1. body' = Append(body, [data |-> 0, whole |-> TRUE])
      BY <2>1 DEF CreateWorkspace, Create
    <3>2. [data |-> 0, whole |-> TRUE] \in Object /\ body \in Seq(Object)
      BY <1>0 DEF Object, Typed
    <3>3. body'[Len(body) + 1] = [data |-> 0, whole |-> TRUE]
      BY <3>1, <3>2, Appended
    <3> QED BY <2>1, <3>3
  <2>2. ~(HideWorkspace(c) \/ EraseOwned(c) \/ ErasePath(c))
    BY <1>1, <1>u, <1>r, <1>x DEF HideWorkspace, EraseOwned, ErasePath, Remove
  <2>3. ~(AdmitWorkspace(c) \/ StartCleanup(c) \/ PrepareCleanup(c) \/ ObserveHidden(c)
          \/ ConfirmHidden(c) \/ ExitWorkspace(c))
    BY <1>u DEF AdmitWorkspace, StartCleanup, PrepareCleanup, ObserveHidden, ConfirmHidden,
           ExitWorkspace
  <2> QED BY <1>6, <2>1, <2>2, <2>3 DEF WorkspaceStep
<1> QED BY <1>3, <1>4, <1>5, <1>6 DEF Step

\* The publication whose copy is half finishes it, removes it or says so; or it never
\* recognised it.
LEMMA HalfStays ==
  ASSUME Inv, NEW c \in Calls, PublicationStep(c), WholeOK(c), NEW n \in Names, HalfAt(c, n),
         ent[n] # None, ent'[n] = ent[n], ~body'[ent[n]].whole
  PROVE  HalfAt(c, n)'
<1>0. Typed /\ op \in [Calls -> OpState] /\ op[c] \in OpState /\ n \in Places /\ n = To(c)
      /\ ent \in [Places -> Nat] /\ Way(c) = "copy" /\ Kind(c) = "publish"
      /\ ent[n] \in 1..Len(body) /\ body \in [1..Len(body) -> Object]
  BY OpType, LenProperties DEF Inv, Typed, Places, HalfAt, None
<1>1. Kind(c)' = Kind(c) /\ Way(c)' = Way(c) /\ To(c)' = To(c)
  BY PublicationEffect, SameSituation DEF Effect, Frame
<1>2. PublicationOK(c)
  BY <1>0 DEF Inv, CallOK
<1>3. ASSUME Rests(c), \/ op'[c].pc = "undo" \/ op'[c].pc = "remove" \/ op'[c].pc = "void"
                       \/ op'[c].pc = "settled" /\ op'[c].told = "unknown"
      PROVE  op[c].made = ent[n] => HalfAt(c, n)'
  BY <1>0, <1>1, <1>3 DEF HalfAt, Unrecognised, Rests
<1>4. CASE op'[c].old = ent[n] \/ (op'[c].made = ent[n] /\ ~op'[c].pub)
  BY <1>0, <1>1, <1>4 DEF HalfAt, Unrecognised
<1>5. CASE NativeUndo(c) \/ NativeRemove(c)
  <2>1. op[c].old = None
    BY <1>2, <1>5 DEF NativeUndo, NativeRemove, Sent, PublicationOK
  <2>2. op[c].made = ent[n] /\ ~op[c].pub
    BY <1>2, <1>5, <2>1 DEF NativeUndo, NativeRemove, Sent, PublicationOK, HalfAt, Unrecognised, Unknown
  <2>3. ~(FillCopy(c) \/ AdmitCopy(c) \/ AdoptNative(c)) /\ op[c].made # None
    BY <1>0, <1>5, <2>2 DEF NativeUndo, NativeRemove, Sent, FillCopy, AdmitCopy, AdoptNative, At, None
  <2> QED BY <1>4, <2>2, <2>3, PublicationNotes DEF Rests
<1>6. CASE op[c].old = ent[n] /\ ~(NativeUndo(c) \/ NativeRemove(c))
  BY <1>4, <1>6, PublicationNotes DEF Rests
<1>7. CASE op[c].old # ent[n] /\ FillCopy(c)
  <2>1. op[c].made = ent[n]
    BY <1>7 DEF HalfAt, Unrecognised
  <2>2. CASE Undoes(c)
    <3>1. Rests(c) /\ op'[c].pc = "undo"
      BY <1>0, <2>2, Gone, StepNames DEF Undoes
    <3> QED BY <1>3, <2>1, <3>1
  <2>3. CASE body' = [body EXCEPT ![op[c].made] = [data |-> body[op[c].src].data, whole |-> TRUE]]
    <3>1. body'[ent[n]].whole
      BY <1>0, <2>1, <2>3
    <3> QED BY <3>1
  <2> QED BY <1>7, <2>2, <2>3 DEF FillCopy
<1>8. CASE op[c].old # ent[n] /\ AdmitCopy(c)
  <2>1. op[c].made = ent[n] /\ ~op[c].pub
    BY <1>2, <1>8 DEF HalfAt, Unrecognised, AdmitCopy, At, PublicationOK, Unknown
  <2>2. CASE Settle(c, "failed")
    <3>1. Rests(c)
      BY <1>0, <2>2, Settled, OutcomeNames
    <3> QED BY <1>4, <2>1, <3>1 DEF Rests
  <2>3. CASE op' = [op EXCEPT ![c].pc = "fill", ![c].pub = TRUE]
    <3>1. op'[c].pc = "fill" /\ op'[c].made = op[c].made
      BY <1>0, <2>3 DEF OpState
    <3> QED BY <1>0, <1>1, <2>1, <3>1 DEF HalfAt
  <2> QED BY <1>8, <2>2, <2>3 DEF AdmitCopy
<1>9. CASE op[c].old # ent[n] /\ AdoptNative(c)
  <2>1. op[c].made = ent[n] /\ op[c].pc = "adopt" /\ body' = body
    BY <1>9 DEF HalfAt, Unrecognised, AdoptNative, At
  <2>2. Whole(n)
    BY <1>0, <2>1 DEF WholeOK
  <2> QED BY <2>1, <2>2 DEF Whole
<1>10. CASE op[c].old # ent[n] /\ CheckUndo(c)
  <2>1. op[c].made = ent[n]
    BY <1>10 DEF HalfAt, Unrecognised
  <2>2. CASE Send(c, "remove", To(c))
    <3>1. Rests(c) /\ op'[c].pc = "remove"
      BY <1>0, <2>2, Dispatched, StepNames
    <3> QED BY <1>3, <2>1, <3>1
  <2>3. CASE Settle(c, "unknown")
    <3>1. Rests(c) /\ op'[c].pc = "settled" /\ op'[c].told = "unknown"
      BY <1>0, <2>3, Settled, OutcomeNames
    <3> QED BY <1>3, <2>1, <3>1
  <2> QED BY <1>0, <1>10, <2>1, <2>2, <2>3 DEF CheckUndo
<1>11. CASE op[c].old # ent[n] /\ RemoveCreated(c)
  <2>1. op[c].made = ent[n]
    BY <1>11 DEF HalfAt, Unrecognised
  <2>2. ~Remove(c, To(c))
    BY <1>0 DEF Remove, Put, None
  <2>3. CASE Settle(c, "unknown")
    <3>1. Rests(c) /\ op'[c].pc = "settled" /\ op'[c].told = "unknown"
      BY <1>0, <2>3, Settled, OutcomeNames
    <3> QED BY <1>3, <2>1, <3>1
  <2>4. CASE Go(c, "void")
    <3>1. Rests(c) /\ op'[c].pc = "void"
      BY <1>0, <2>4, Gone, StepNames
    <3> QED BY <1>3, <2>1, <3>1
  <2> QED BY <1>11, <2>2, <2>3, <2>4 DEF RemoveCreated, Reply
\* The other steps are of calls that have not recognised what they created.
<1>12. CASE /\ op[c].old # ent[n]
            /\ ~(FillCopy(c) \/ AdmitCopy(c) \/ AdoptNative(c) \/ CheckUndo(c) \/ RemoveCreated(c)
                 \/ NativeUndo(c) \/ NativeRemove(c))
  <2>1. op[c].pc \notin {"fill", "undo", "remove", "void", "settled"}
    BY <1>12 DEF PublicationStep, OpenSource, CheckSource, LinkTarget, CreateCopy, CreateNative,
           NativeCopy, VerifyTarget, SyncParent, FinishPublication, RenameSource,
           CheckSingle, LinkPair, CheckPair, UnlinkSource, At, Sent
  <2>2. op[c].made = ent[n] /\ ~op[c].pub
    BY <1>12, <2>1 DEF HalfAt, Unrecognised
  <2>3. Rests(c)
    BY <1>0, <1>12, <2>2, PublicationNotes DEF None
  <2> QED BY <1>4, <2>2, <2>3 DEF Rests
<1> QED BY <1>5, <1>6, <1>7, <1>8, <1>9, <1>10, <1>11, <1>12

LEMMA HalvesNext ==
  ASSUME SourcesApart, Inv, Halves, NEW d \in Calls, Step(d), WholeOK(d)
  PROVE  Halves'
<1>0. Typed /\ Effect(d) /\ ent \in [Places -> Nat] /\ Len(body) \in Nat
      /\ \A m \in Places : ent[m] <= Len(body)
  BY KindOfStep, LenProperties DEF Inv, Typed
<1>1. \A c \in Calls : Kind(c)' = Kind(c) /\ Way(c)' = Way(c) /\ To(c)' = To(c)
  BY <1>0, SameSituation DEF Effect, Frame
<1>2. \A c \in Calls \ {d} : op'[c] = op[c]
  BY <1>0, OthersKept
<1> SUFFICES ASSUME NEW n \in Names, ent'[n] # None, ~body'[ent'[n]].whole
             PROVE  \E c \in Calls : HalfAt(c, n)'
  BY DEF Halves, Whole
<1>3. n \in Places /\ n # d
  BY <1>0, SituationType DEF Places, Typed
<1>4. CASE ent'[n] = ent[n]
  <2>1. ~Whole(n)
    BY <1>0, <1>3, <1>4, KeptWhole DEF Whole
  <2>2. PICK c \in Calls : HalfAt(c, n)
    BY <2>1 DEF Halves
  <2>3. CASE c # d
    BY <1>1, <1>2, <1>4, <2>2, <2>3 DEF HalfAt, Unrecognised
  <2>4. CASE c = d
    <3>1. PublicationStep(c)
      BY <2>2, <2>4, KindOfStep DEF HalfAt
    <3> QED BY <1>4, <2>2, <2>4, <3>1, HalfStays
  <2> QED BY <2>3, <2>4
<1>5. CASE ent'[n] # ent[n] /\ ent'[n] <= Len(body)
  BY <1>5, WholeArrives DEF Whole
<1>6. CASE ent'[n] = Len(body) + 1
  <2>1. PICK pc \in {"native", "admit"} :
          (CreateCopy(d) \/ CreateNative(d)) /\ n = To(d) /\ CreateTarget(d, pc)
    BY <1>6, NewArrives
  <2>2. op'[d].made = Len(body) + 1 /\ op'[d].pub = op[d].pub
    BY <1>0, <2>1, OpType DEF CreateTarget, OpState, Typed
  <2>3. Kind(d) = "publish" /\ Way(d) = "copy" /\ ~op[d].pub
    BY <2>1 DEF CreateCopy, CreateNative, At, Kind, Inv, CallOK, PublicationOK
  <2>4. HalfAt(d, n)'
    BY <1>1, <1>6, <2>1, <2>2, <2>3 DEF HalfAt, Unrecognised
  <2> QED BY <2>4
<1>7. ent'[n] \in Nat /\ (ent'[n] = ent[n] \/ ent'[n] <= Len(body) \/ ent'[n] = Len(body) + 1)
  <2>1. \A m \in Mine(d) : ent[m] \in Nat /\ ent[m] <= Len(body)
    BY <1>0, SituationType DEF Typed, Mine
  <2>2. ent[n] \in Nat /\ From(d) \in Mine(d)
    BY <1>0, <1>3 DEF Mine
  <2>3. ent' = ent => ent'[n] = ent[n]
    OBVIOUS
  <2>4. ASSUME NEW x \in Mine(d), NEW i \in Nat, ent' = [ent EXCEPT ![x] = i]
        PROVE  ent'[n] \in {ent[n], i}
    BY <1>0, <1>3, <2>4
  <2>5. ASSUME NEW x \in Mine(d), NEW y \in Mine(d), ent' = [ent EXCEPT ![y] = ent[x], ![x] = None]
        PROVE  ent'[n] \in {ent[n], None, ent[x]}
    BY <1>0, <1>3, <2>5
  <2>6. None \in Nat /\ None <= Len(body) /\ Len(body) + 1 \in Nat /\ To(d) \in Mine(d)
    BY <1>0 DEF None, Mine
  <2> QED BY <1>0, <2>1, <2>2, <2>3, <2>4, <2>5, <2>6 DEF Effect, Shape
<1> QED BY <1>0, <1>4, <1>5, <1>6, <1>7

\* The steps of a move between its fingerprint and the removal of the source.
Early == {"stage", "record", "copy"}
Late  == {"recheck", "commit", "rename", "renamed", "published"}

LEMMA MovePhases ==
  ASSUME Inv, NEW c \in Calls, MoveStep(c)
  PROVE  /\ op'[c].pc \in Early => op[c].pc \in Early \/ InspectSource(c)
         /\ op'[c].pc \in Late =>
              op[c].pc \in Late \/ (CopySource(c) /\ op[c].pc = "copy" /\ op'[c].pc = "recheck")
<1>0. Typed /\ op \in [Calls -> OpState] /\ op[c] \in OpState /\ From(c) \in Places /\ c \in Places
      /\ Way(c) \in {"direct", "reject"}
  BY OpType, MoveEffect, SituationType DEF Inv, Typed
<1>s. ASSUME NEW told \in Outcomes, Settle(c, told)
      PROVE  op'[c].pc \notin Early \cup Late
  BY <1>0, <1>s, Settled DEF Early, Late
<1>g. ASSUME NEW pc \in Steps, Go(c, pc)
      PROVE  op'[c].pc = pc
  BY <1>0, <1>g, Gone
<1>d. ASSUME NEW pc \in Steps, NEW n \in Places, Send(c, pc, n)
      PROVE  op'[c].pc = pc
  BY <1>0, <1>d, Dispatched
<1>1. CASE StartMove(c)
  <2>1. (\E told \in Outcomes : Settle(c, told)) \/ (\E pc \in {"inspect", "direct"} : Go(c, pc))
    BY <1>0, <1>1, OutcomeNames DEF StartMove
  <2>2. op'[c].pc \notin Early \cup Late
    BY <1>s, <1>g, <2>1, StepNames DEF Early, Late
  <2> QED BY <2>2
<1>2. CASE RenameDirect(c)
  <2>1. (\E told \in Outcomes : Settle(c, told)) \/ (\E pc \in {"inspect", "void"} : Go(c, pc))
    BY <1>2, OutcomeNames DEF RenameDirect, Reply
  <2>2. op'[c].pc \notin Early \cup Late
    BY <1>s, <1>g, <2>1, StepNames DEF Early, Late
  <2> QED BY <2>2
<1>3. CASE InspectSource(c)
  <2>1. op'[c].pc = "settled" \/ op'[c].pc = "stage"
    BY <1>0, <1>3 DEF InspectSource, Settle, OpState
  <2> QED BY <1>3, <2>1 DEF Early, Late
<1>4. CASE CreateStage(c)
  <2>1. op[c].pc = "stage"
    BY <1>4 DEF CreateStage, At
  <2>2. Settle(c, "failed") \/ op' = [op EXCEPT ![c].pc = "record", ![c].made = Len(body) + 1]
    BY <1>4 DEF CreateStage
  <2>3. op'[c].pc = "settled" \/ op'[c].pc = "record"
    BY <1>0, <2>2 DEF Settle, OpState
  <2> QED BY <2>1, <2>3 DEF Early, Late
<1>5. CASE RecordStage(c)
  <2>1. op[c].pc = "record" /\ op'[c].pc \in {"copy", "settled"}
    BY <1>0, <1>5 DEF RecordStage, At, Settle, OpState
  <2> QED BY <2>1 DEF Early, Late
<1>6. CASE CopySource(c)
  <2>1. op[c].pc = "copy" /\ (op'[c].pc = "drop" \/ op'[c].pc = "recheck")
    BY <1>0, <1>6 DEF CopySource, At, Go, OpState
  <2> QED BY <1>6, <2>1 DEF Early, Late
<1>7. CASE RecheckSource(c) \/ SendCommit(c) \/ CommitStage(c)
  <2>1. op[c].pc \in Late
    BY <1>7 DEF RecheckSource, SendCommit, CommitStage, At, Sent, Late
  <2>2. \E pc \in {"commit", "rename", "drop", "renamed", "void"} : Go(c, pc)
    BY <1>7 DEF RecheckSource, SendCommit, CommitStage, Reply
  <2>3. op'[c].pc \notin Early
    BY <1>g, <2>2, StepNames DEF Early
  <2> QED BY <2>1, <2>3
<1>8. CASE NoteCommit(c)
  <2>1. op[c].pc = "renamed" /\ op'[c].pc = "published"
    BY <1>0, <1>8 DEF NoteCommit, At, OpState
  <2> QED BY <2>1 DEF Early, Late
<1>9. CASE CheckRemoval(c) \/ CheckDrop(c)
  <2>1. \/ \E told \in Outcomes : Settle(c, told)
        \/ \E pc \in {"unlink", "dropping"}, n \in Places : Send(c, pc, n)
    BY <1>0, <1>9, OutcomeNames DEF CheckRemoval, CheckDrop
  <2>2. op'[c].pc \notin Early \cup Late
    BY <1>s, <1>d, <2>1, StepNames DEF Early, Late
  <2> QED BY <2>2
<1>10. CASE RemoveSource(c)
  <2>1. (\E told \in Outcomes : Settle(c, told)) \/ Go(c, "void")
    BY <1>10, OutcomeNames DEF RemoveSource, Reply
  <2>2. op'[c].pc \notin Early \cup Late
    BY <1>s, <1>g, <2>1, StepNames DEF Early, Late
  <2> QED BY <2>2
<1>11. CASE DropStage(c)
  <2>1. \/ Settle(c, "failed") \/ Go(c, "void")
        \/ op' = [op EXCEPT ![c].pc = "settled", ![c].told = "failed"]
    BY <1>11 DEF DropStage, Reply
  <2>2. op' = [op EXCEPT ![c].pc = "settled", ![c].told = "failed"] => op'[c].pc = "settled"
    BY <1>0 DEF OpState
  <2>3. op'[c].pc \notin Early \cup Late
    BY <1>s, <1>g, <2>1, <2>2, StepNames, OutcomeNames DEF Early, Late
  <2> QED BY <2>3
<1>12. CASE ExitCheckStage(c)
  <2>1. op'[c].pc = op[c].pc
    BY <1>0, <1>12 DEF ExitCheckStage, OpState
  <2> QED BY <2>1
<1>13. CASE ExitRemoveStage(c)
  <2>1. op'[c].pc = op[c].pc
    BY <1>0, <1>13 DEF ExitRemoveStage, OpState
  <2> QED BY <2>1
<1> QED BY <1>1, <1>2, <1>3, <1>4, <1>5, <1>6, <1>7, <1>8, <1>9, <1>10, <1>11, <1>12, <1>13
        DEF MoveStep

\* An object that is filled is the one that was created for it.
LEMMA UnfinishedNext ==
  ASSUME Inv, NEW c \in Calls, Step(c), Unfinished(c)'
  PROVE  op'[c].made = Len(body) + 1 \/ (Unfinished(c) /\ op'[c].made = op[c].made)
<1>0. Typed /\ op \in [Calls -> OpState] /\ op[c] \in OpState /\ Effect(c)
      /\ From(c) \in Places /\ To(c) \in Places
  BY OpType, KindOfStep, SituationType DEF Inv, Typed
<1>1. Kind(c)' = Kind(c)
  BY <1>0, SameSituation DEF Effect, Frame
<1>2. CASE Kind(c) = "publish"
  <2>1. PublicationStep(c) /\ op'[c].pc \in {"native", "admit", "fill"}
    BY <1>1, <1>2, KindOfStep DEF Unfinished
  <2>2. CASE AdmitCopy(c) /\ op'[c].made = op[c].made
    BY <1>2, <2>2 DEF AdmitCopy, At, Unfinished
  <2> QED BY <2>1, <2>2, PublicationPhases
<1>3. CASE Kind(c) = "move"
  <2>1. MoveStep(c) /\ op'[c].pc \in {"record", "copy"}
    BY <1>1, <1>3, KindOfStep DEF Unfinished
  <2>2. CASE Same(c)
    <3>1. op[c].pc \in Early \/ InspectSource(c)
      BY <2>1, MovePhases DEF Early
    <3>2. ~InspectSource(c)
      BY <1>0, <2>1 DEF InspectSource, Settle, OpState
    <3>3. CASE op[c].pc = "stage"
      <4>1. CreateStage(c) \/ ExitCheckStage(c) \/ ExitRemoveStage(c)
        BY <2>1, <3>3 DEF MoveStep, StartMove, RenameDirect, InspectSource, CreateStage,
               RecordStage, CopySource, RecheckSource, SendCommit, CommitStage, NoteCommit,
               CheckRemoval, RemoveSource, CheckDrop, DropStage, At, Sent
      <4>2. ~ExitCheckStage(c)
        BY <1>0, <2>1, <3>3 DEF ExitCheckStage, OpState
      <4>3. ~ExitRemoveStage(c)
        BY <1>0, <2>1, <3>3 DEF ExitRemoveStage, OpState
      <4>4. ~Settle(c, "failed")
        BY <1>0, <2>1, Settled, OutcomeNames
      <4>5. op' = [op EXCEPT ![c].pc = "record", ![c].made = Len(body) + 1]
        BY <4>1, <4>2, <4>3, <4>4 DEF CreateStage
      <4> QED BY <1>0, <4>5 DEF OpState
    <3> QED BY <1>3, <2>2, <3>1, <3>2, <3>3 DEF Early, Same, Unfinished
  <2>3. CASE ~Same(c)
    BY <2>1, <2>3, MoveNotes
  <2> QED BY <2>2, <2>3
<1> QED BY <1>1, <1>2, <1>3 DEF Unfinished

LEMMA CopyNext ==
  ASSUME SourcesApart, Inv, \A x \in Calls : MadeOK(x) /\ CopyOK(x),
         NEW d \in Calls, Step(d), NEW c \in Calls
  PROVE  CopyOK(c)'
<1>0. Typed /\ Effect(d) /\ Len(body) \in Nat /\ CallOK(c) /\ op[c] \in OpState
      /\ Bounded(op[c], Len(body))
  BY KindOfStep, LenProperties, OpType DEF Inv, Typed
<1>1. \A x \in Calls : Kind(x)' = Kind(x)
  BY <1>0, SameSituation DEF Effect, Frame
<1>2. \A x \in Calls \ {d} : op'[x] = op[x]
  BY <1>0, OthersKept
<1> SUFFICES ASSUME Kind(c) = "move"
             PROVE  CopyOK(c)'
  BY <1>1 DEF CopyOK
<1>3. MoveOK(c) /\ CopyOK(c) /\ MadeOK(c)
  BY <1>0 DEF CallOK
\* What a fingerprint names is not filled.
<1>4. op'[c].pc \in Early \cup Late => \A x \in Calls : Unfinished(x)' => op'[x].made # op'[c].print.id
  <2> SUFFICES ASSUME op'[c].pc \in Early \cup Late, NEW x \in Calls, Unfinished(x)'
               PROVE  op'[x].made # op'[c].print.id
    OBVIOUS
  <2>1. \/ x = d /\ op'[x].made = Len(body) + 1
        \/ Unfinished(x) /\ op'[x].made = op[x].made
    BY <1>1, <1>2, UnfinishedNext DEF Unfinished
  <2>2. CASE op'[c].print = op[c].print /\ op[c].pc \in Early \cup Late
    <3>1. op[c].print.id \in Nat /\ op[c].print.id <= Len(body)
      BY <1>0 DEF OpState, Bounded
    <3> QED BY <1>0, <1>3, <2>1, <2>2, <3>1 DEF CopyOK, Early, Late
  <2>3. CASE /\ c = d /\ op'[c].made = op[c].made /\ op'[c].pc = "stage"
             /\ op'[c].print = Fingerprint(ent[From(c)]) /\ ent[From(c)] # None
    <3>1. op'[c].print.id = ent[From(c)]
      BY <2>3 DEF Fingerprint
    <3>2. x # d /\ Unfinished(x)
      <4>1. x # d
        BY <1>1, <2>3 DEF Unfinished
      <4> QED BY <2>1, <4>1
    <3>3. x \notin TreeCalls /\ CallOK(x)
      BY <1>0, <3>2, SituationType DEF Unfinished, Inv, Typed
    <3>4. op[x].made \notin {None, op[x].src}
      BY <3>2, <3>3 DEF Unfinished, CallOK, PublicationOK, MoveOK, Holding, Unknown
    <3>5. From(c) \in Sources
      BY <1>0, NamesApart, SituationType DEF Typed
    <3>6. ent[From(c)] # op[x].made
      BY <3>3, <3>4, <3>5 DEF MadeOK
    <3> QED BY <2>1, <3>1, <3>2, <3>6
  <2>4. CASE c # d
    BY <1>2, <2>2, <2>4
  <2>5. CASE c = d
    <3>1. MoveStep(c)
      BY <2>5, KindOfStep
    <3>2. op[c].pc \in Early \cup Late \/ InspectSource(c)
      BY <3>1, MovePhases DEF Early
    <3>3. CASE InspectSource(c)
      <4>1. op'[c].pc # "settled"
        BY DEF Early, Late
      <4>2. ~Settle(c, "failed")
        BY <1>0, <4>1, Settled, OutcomeNames
      <4>3. op' = [op EXCEPT ![c].print = Fingerprint(ent[From(c)]), ![c].pc = "stage"]
            /\ ent[From(c)] # None
        BY <3>3, <4>2 DEF InspectSource
      <4>4. op'[c].made = op[c].made /\ op'[c].pc = "stage" /\ op'[c].print = Fingerprint(ent[From(c)])
        BY <1>0, <4>3 DEF OpState, Typed
      <4> QED BY <2>3, <2>5, <4>3, <4>4
    <3>4. CASE op[c].pc \in Early \cup Late /\ ~InspectSource(c)
      BY <2>2, <3>1, <3>4, MoveNotes DEF Same
    <3> QED BY <3>2, <3>3, <3>4
  <2> QED BY <2>4, <2>5
\* What it was taken from only gets new data.
<1>5. op[c].pc \in Early \cup Late =>
        /\ op[c].print.id \in 1..Len(body)
        /\ body[op[c].print.id].data <= body'[op[c].print.id].data
        /\ body[op[c].print.id].data \in Nat /\ body'[op[c].print.id].data \in Nat
  <2> SUFFICES ASSUME op[c].pc \in Early \cup Late
               PROVE  /\ op[c].print.id \in 1..Len(body)
                      /\ body[op[c].print.id].data <= body'[op[c].print.id].data
                      /\ body[op[c].print.id].data \in Nat /\ body'[op[c].print.id].data \in Nat
    OBVIOUS
  <2>1. op[c].print.id \in 1..Len(body)
    BY <1>0, <1>3 DEF MoveOK, OpState, Bounded, Early, Late, None
  <2>2. ~(Unfinished(d) /\ op[c].print.id = op[d].made)
    BY <1>3 DEF CopyOK, Early, Late
  <2>3. body[op[c].print.id].data \in Nat
    BY <1>0, <2>1, ObjectType
  <2>4. body'[op[c].print.id].data \in Nat
    <3>1. Typed' /\ op[c].print.id \in 1..Len(body')
      BY <1>0, <2>1, EffectTypes, LenProperties DEF Effect, Contents
    <3>2. body'[op[c].print.id] \in Object
      BY <3>1, ElementOfSeq DEF Typed
    <3> QED BY <3>2 DEF Object
  <2> QED BY <1>0, <2>1, <2>2, <2>3, <2>4 DEF Effect, Contents
<1>6. op'[c].pc \in Early => op'[c].print.data <= body'[op'[c].print.id].data
  <2> SUFFICES ASSUME op'[c].pc \in Early
               PROVE  op'[c].print.data <= body'[op'[c].print.id].data
    OBVIOUS
  <2>1. CASE op'[c].print = op[c].print /\ op[c].pc \in Early
    <3>1. op[c].print.data <= body[op[c].print.id].data /\ op[c].print.data \in Nat
      BY <1>0, <1>3, <2>1 DEF CopyOK, Early, OpState
    <3> QED BY <1>5, <2>1, <3>1
  <2>2. CASE c # d
    BY <1>2, <2>1, <2>2
  <2>3. CASE c = d
    <3>1. MoveStep(c)
      BY <2>3, KindOfStep
    <3>2. CASE InspectSource(c)
      <4>1. ~Settle(c, "failed")
        BY <1>0, Settled, OutcomeNames DEF Early
      <4>2. /\ op' = [op EXCEPT ![c].print = Fingerprint(ent[From(c)]), ![c].pc = "stage"]
            /\ ent[From(c)] # None /\ body' = body
        BY <3>2, <4>1 DEF InspectSource
      <4>3. op'[c].print = Fingerprint(ent[From(c)])
        BY <1>0, <4>2 DEF OpState, Typed
      <4>4. op'[c].print.id = ent[From(c)] /\ op'[c].print.data = body[ent[From(c)]].data
        BY <4>3 DEF Fingerprint
      <4>5. ent[From(c)] \in 1..Len(body)
        BY <1>0, <4>2, SituationType DEF Typed, None
      <4>6. body[ent[From(c)]].data \in Nat
        BY <1>0, <4>5, ObjectType
      <4> QED BY <4>2, <4>4, <4>6
    <3>3. CASE ~InspectSource(c)
      <4>1. op[c].pc \in Early
        BY <3>1, <3>3, MovePhases
      <4> QED BY <2>1, <3>1, <3>3, <4>1, MoveNotes DEF Same
    <3> QED BY <3>2, <3>3
  <2> QED BY <2>2, <2>3
<1>7. op'[c].pc \in Late =>
        /\ op'[c].made # None /\ body'[op'[c].made].whole
        /\ op'[c].print.data <= op'[c].read /\ op'[c].read <= body'[op'[c].print.id].data
  <2> SUFFICES ASSUME op'[c].pc \in Late
               PROVE  /\ op'[c].made # None /\ body'[op'[c].made].whole
                      /\ op'[c].print.data <= op'[c].read
                      /\ op'[c].read <= body'[op'[c].print.id].data
    OBVIOUS
  <2>1. CASE Same(c) /\ op[c].pc \in Late
    <3>1. /\ op[c].made # None /\ body[op[c].made].whole
          /\ op[c].print.data <= op[c].read /\ op[c].read <= body[op[c].print.id].data
          /\ op[c].made \in 1..Len(body) /\ op[c].read \in Nat
      BY <1>0, <1>3, <2>1 DEF CopyOK, Late, OpState, Bounded, None
    <3>2. body'[op[c].made].whole
      <4>1. Kind(d) = "swap" => op[d].old # op[c].made
        BY <1>3, <3>1 DEF MadeOK
      <4>2. Kind(d) = "workspace" => op[d].made # op[c].made
        BY <1>3, <3>1 DEF MadeOK
      <4> QED BY <1>0, <3>1, <4>1, <4>2 DEF Effect, Contents
    <3>3. op[c].read <= body'[op[c].print.id].data
      BY <1>5, <2>1, <3>1
    <3> QED BY <2>1, <3>1, <3>2, <3>3 DEF Same
  <2>2. CASE c # d
    <3>1. Same(c) /\ op[c].pc \in Late
      BY <1>2, <2>2 DEF Same
    <3> QED BY <2>1, <3>1
  <2>3. CASE c = d
    <3>1. MoveStep(c)
      BY <2>3, KindOfStep
    <3>2. CASE CopySource(c) /\ op[c].pc = "copy"
      <4>1. ~Go(c, "drop")
        BY <1>0, Gone, StepNames DEF Late
      <4>2. /\ body' = [body EXCEPT ![op[c].made] =
                          [data |-> body[op[c].print.id].data, whole |-> TRUE]]
            /\ op' = [op EXCEPT ![c].pc = "recheck", ![c].read = body[op[c].print.id].data]
        BY <3>2, <4>1 DEF CopySource
      <4>3. /\ op'[c].made = op[c].made /\ op'[c].print = op[c].print
            /\ op'[c].read = body[op[c].print.id].data
        BY <1>0, <4>2 DEF OpState, Typed
      <4>4. op[c].made \in 1..Len(body)
        BY <1>0, <1>3, <3>2 DEF MoveOK, OpState, Bounded, None
      <4>5. body'[op[c].made].whole
        BY <1>0, <4>2, <4>4, LenProperties DEF Typed
      <4>6. op[c].print.data <= body[op[c].print.id].data
        BY <1>3, <3>2 DEF CopyOK
      <4>7. body[op[c].print.id].data <= body'[op[c].print.id].data
        BY <1>5, <3>2 DEF Early
      <4> QED BY <4>3, <4>4, <4>5, <4>6, <4>7 DEF None
    <3>3. CASE ~(CopySource(c) /\ op[c].pc = "copy")
      <4>1. op[c].pc \in Late
        BY <3>1, <3>3, MovePhases
      <4>2. Same(c)
        BY <3>1, <4>1, MoveNotes DEF InspectSource, CreateStage, CopySource, At, Late
      <4> QED BY <2>1, <4>1, <4>2
    <3> QED BY <3>2, <3>3
  <2> QED BY <2>2, <2>3
<1> QED BY <1>1, <1>4, <1>6, <1>7 DEF CopyOK, Early, Late

-----------------------------------------------------------------------------
(* What the environment and the start keep of that.                        *)

\* Everything else: at most one name changes, its object is noted in taken, what
\* comes is new and whole, and objects only get newer data.
Outside ==
  /\ UNCHANGED <<setup, op>> /\ taken \subseteq taken'
  /\ body' \in Seq(Object) /\ Len(body) <= Len(body')
  /\ \A m \in Places : /\ ent'[m] # ent[m] => ent[m] \in taken'
                       /\ \/ ent'[m] = ent[m] \/ ent'[m] = None
                          \/ ent'[m] = Len(body) + 1 /\ body'[Len(body) + 1].whole
  /\ \E n : \A m \in Places \ {n} : ent'[m] = ent[m]
  /\ \A i \in 1..Len(body) : body[i].data <= body'[i].data /\ body'[i].whole = body[i].whole

LEMMA NewData ==
  ASSUME Typed, Outside, NEW i \in 1..Len(body)
  PROVE  body'[i].data \in Nat
<1>1. i \in 1..Len(body')
  BY LenProperties DEF Typed, Outside
<1>2. body'[i] \in Object
  BY <1>1, ElementOfSeq DEF Outside
<1> QED BY <1>2 DEF Object

LEMMA EnvironmentEffect ==
  ASSUME Inv, Environment \/ UNCHANGED vars
  PROVE  Outside
<1>0. /\ Typed /\ Len(body) \in Nat /\ ent \in [Places -> Nat] /\ body \in Seq(Object)
      /\ \A i \in 1..Len(body) : body[i].data <= body[i].data
  BY LenProperties, ObjectType DEF Inv, Typed
<1>1. ASSUME NEW n \in Places, Intrude(n)
      PROVE  Outside
  <2>1. /\ Len(body') >= Len(body) /\ Len(body') \in Nat /\ UNCHANGED <<setup, op>>
        /\ body' \in Seq(Object)
        /\ \A i \in 1..Len(body) : body'[i] = body[i]
    BY <1>0, <1>1, IntrudeEffect, LenProperties DEF Foreign
  <2>2. taken' = taken \cup {ent[n]}
    BY <1>1 DEF Intrude
  <2>3. \/ ent' = [ent EXCEPT ![n] = None]
        \/ ent' = [ent EXCEPT ![n] = Len(body) + 1] /\ body'[Len(body) + 1].whole
    <3>1. CASE Create(n, Len(body) + 1, TRUE)
      <4>1. [data |-> Len(body) + 1, whole |-> TRUE] \in Object
        BY <1>0 DEF Object
      <4>2. body'[Len(body) + 1] = [data |-> Len(body) + 1, whole |-> TRUE]
        BY <1>0, <3>1, <4>1, Appended DEF Create
      <4> QED BY <3>1, <4>2 DEF Create, Put
    <3>2. CASE Put(n, None)
      BY <3>2 DEF Put
    <3> QED BY <1>1, <3>1, <3>2 DEF Intrude
  <2>4. \A m \in Places \ {n} : ent'[m] = ent[m]
    BY <1>0, <2>3
  <2>5. ent'[n] = None \/ (ent'[n] = Len(body) + 1 /\ body'[Len(body) + 1].whole)
    BY <1>0, <2>3
  <2>6. \A m \in Places : /\ ent'[m] # ent[m] => ent[m] \in taken'
                       /\ \/ ent'[m] = ent[m] \/ ent'[m] = None
                          \/ ent'[m] = Len(body) + 1 /\ body'[Len(body) + 1].whole
    BY <2>2, <2>4, <2>5
  <2>7. \E x : \A m \in Places \ {x} : ent'[m] = ent[m]
    BY <2>4
  <2>8. \A i \in 1..Len(body) : body[i].data <= body'[i].data /\ body'[i].whole = body[i].whole
    BY <1>0, <2>1
  <2> QED BY <2>1, <2>2, <2>6, <2>7, <2>8 DEF Outside
<1>2. ASSUME NEW n \in Places, Edit(n)
      PROVE  Outside
  <2>1. /\ Len(body') = Len(body) /\ UNCHANGED <<setup, ent, op, up, taken>>
        /\ body' \in Seq(Object)
        /\ \A i \in 1..Len(body) : body[i].data <= body'[i].data /\ body'[i].whole = body[i].whole
    BY <1>0, <1>2, EditEffect
  <2> QED BY <1>0, <2>1 DEF Outside
<1>3. ASSUME UNCHANGED <<setup, ent, body, op, taken>>
      PROVE  Outside
  BY <1>0, <1>3 DEF Outside
<1>4. ASSUME NEW p \in Procs, Crash(p) \/ Exit(p) \/ EndExit(p)
      PROVE  Outside
  BY <1>3, <1>4 DEF Crash, Exit, EndExit
<1>5. CASE UNCHANGED vars
  BY <1>3, <1>5 DEF vars
<1> QED BY <1>1, <1>2, <1>4, <1>5 DEF Environment, Places

LEMMA OutsideCopies ==
  ASSUME Inv, CopiesOK, Outside
  PROVE  CopiesOK'
<1>0. /\ Typed /\ Len(body) \in Nat /\ setup' = setup /\ op' = op
      /\ \A m \in Places : ent[m] \in Nat /\ ent[m] <= Len(body)
  BY LenProperties DEF Inv, Typed, Outside
<1>1. /\ TreeNames' = TreeNames /\ Sources' = Sources /\ TreeCalls' = TreeCalls
      /\ \A c \in Calls : /\ Kind(c)' = Kind(c) /\ Way(c)' = Way(c) /\ To(c)' = To(c)
                          /\ Unfinished(c)' = Unfinished(c)
  BY <1>0, SameTrees, SameSituation DEF Unfinished
<1>2. /\ TreeNames \subseteq Places /\ Sources \subseteq Places
      /\ \A c \in Calls : c \in Places /\ op[c] \in OpState /\ Bounded(op[c], Len(body)) /\ CallOK(c)
  BY <1>0, TreePlaces, OpType DEF Sources, Places, Inv
<1>3. ASSUME NEW n \in Places, Whole(n)
      PROVE  Whole(n)'
  <2>1. ent[n] # None => ent[n] \in 1..Len(body)
    BY <1>0, <1>3 DEF None
  <2> QED BY <1>0, <1>3, <2>1 DEF Outside, Whole
<1>4. Halves'
  <2> SUFFICES ASSUME NEW n \in Names, ~Whole(n)'
               PROVE  \E c \in Calls : HalfAt(c, n)'
    BY DEF Halves
  <2>1. n \in Places /\ ~Whole(n)
    BY <1>3 DEF Places
  <2>2. PICK c \in Calls : HalfAt(c, n)
    BY <2>1 DEF CopiesOK, Halves
  <2>3. ent'[n] = ent[n]
    BY <1>0, <2>1 DEF Outside, Whole
  <2> QED BY <1>0, <1>1, <2>2, <2>3 DEF HalfAt, Unrecognised
<1>5. ASSUME NEW c \in Calls PROVE MadeOK(c)'
  <2>1. op[c].made \in Nat /\ op[c].made <= Len(body)
    BY <1>2 DEF OpState, Bounded
  <2>2. op[c].made # None => \A n \in Places : ent[n] # op[c].made => ent'[n] # op[c].made
    BY <1>0, <2>1 DEF Outside
  <2>3. MadeOK(c)
    BY DEF CopiesOK
  <2> QED BY <1>0, <1>1, <1>2, <2>2, <2>3 DEF MadeOK
<1>6. ASSUME NEW c \in Calls PROVE WholeOK(c)'
  <2>1. WholeOK(c) /\ (Whole(c) => Whole(c)')
    BY <1>2, <1>3 DEF CopiesOK
  <2>2. ent'[c] = ent[c] \/ Whole(c)'
    BY <1>2 DEF Outside, Whole
  <2>a. To(c) \in Places /\ To(c)' = To(c)
    BY <1>0, <1>1, SituationType DEF Typed
  <2>b. ASSUME NEW n \in Places PROVE (Whole(n) => Whole(n)') /\ (ent'[n] = ent[n] \/ Whole(n)')
    BY <1>3, <2>b DEF Outside, Whole
  <2>3. To(c) \in Places /\ (Whole(To(c)) => Whole(To(c))')
        /\ (ent'[To(c)] = ent[To(c)] \/ Whole(To(c))')
    <3>1. \A n \in Places : (Whole(n) => Whole(n)') /\ (ent'[n] = ent[n] \/ Whole(n)')
      BY <2>b
    <3>2. Whole(To(c))' <=> (ent'[To(c)] # None => body'[ent'[To(c)]].whole)
      BY <2>a DEF Whole
    <3> QED BY <2>a, <3>1, <3>2 DEF Whole
  <2> QED BY <1>0, <1>1, <2>1, <2>2, <2>3 DEF WholeOK
<1>7. ASSUME NEW c \in Calls, Kind(c) = "move" PROVE CopyOK(c)'
  <2>1. CopyOK(c) /\ MoveOK(c)
    BY <1>2, <1>7 DEF CopiesOK, CallOK
  <2>2. /\ op[c].print.id # None => op[c].print.id \in 1..Len(body)
        /\ op[c].made # None => op[c].made \in 1..Len(body)
        /\ op[c].print.data \in Nat /\ op[c].read \in Nat
    BY <1>0, <1>2 DEF OpState, Bounded, None
  <2>3. op[c].pc \in {"stage", "record", "copy"} =>
          op[c].print.data <= body'[op[c].print.id].data
    <3> SUFFICES ASSUME op[c].pc \in {"stage", "record", "copy"}
                 PROVE  op[c].print.data <= body'[op[c].print.id].data
      OBVIOUS
    <3>1. op[c].print.id \in 1..Len(body) /\ op[c].print.data <= body[op[c].print.id].data
      BY <1>7, <2>1, <2>2 DEF CopyOK, MoveOK
    <3>2. body[op[c].print.id].data <= body'[op[c].print.id].data
      BY <3>1 DEF Outside
    <3>3. body[op[c].print.id].data \in Nat
      BY <1>0, <3>1, ObjectType
    <3>4. body'[op[c].print.id].data \in Nat
      BY <1>0, <3>1, NewData
    <3> QED BY <2>2, <3>1, <3>2, <3>3, <3>4
  <2>4. op[c].pc \in Late =>
         /\ op[c].made # None /\ body'[op[c].made].whole
         /\ op[c].print.data <= op[c].read /\ op[c].read <= body'[op[c].print.id].data
    <3> SUFFICES ASSUME op[c].pc \in Late
                 PROVE  /\ op[c].made # None /\ body'[op[c].made].whole
                        /\ op[c].print.data <= op[c].read
                        /\ op[c].read <= body'[op[c].print.id].data
      OBVIOUS
    <3>1. /\ op[c].print.id \in 1..Len(body) /\ op[c].read <= body[op[c].print.id].data
          /\ op[c].print.data <= op[c].read
          /\ op[c].made \in 1..Len(body) /\ body[op[c].made].whole
      BY <1>7, <2>1, <2>2 DEF CopyOK, MoveOK, Late
    <3>2. /\ body[op[c].print.id].data <= body'[op[c].print.id].data
          /\ body'[op[c].made].whole
      BY <3>1 DEF Outside
    <3>3. body[op[c].print.id].data \in Nat
      BY <1>0, <3>1, ObjectType
    <3>4. body'[op[c].print.id].data \in Nat
      BY <1>0, <3>1, NewData
    <3> QED BY <2>2, <3>1, <3>2, <3>3, <3>4 DEF None
  <2>5. op[c].pc \in {"stage", "record", "copy", "recheck", "commit", "rename", "renamed",
                      "published"} =>
         \A d \in Calls : Unfinished(d) => op[d].made # op[c].print.id
    BY <1>7, <2>1 DEF CopyOK
  <2> QED BY <1>0, <1>1, <2>3, <2>4, <2>5 DEF CopyOK, Late
<1>8. \A c \in Calls : CopyOK(c)'
  BY <1>1, <1>7 DEF CopyOK
<1> QED BY <1>4, <1>5, <1>6, <1>8 DEF CopiesOK

LEMMA InitCopies ==
  ASSUME EntriesInit
  PROVE  CopiesOK
<1>0. /\ setup \in Setups /\ \A i \in 1..Len(body) : body[i].whole
      /\ Calls \cap Names = {} /\ Typed
  BY StartBody, EntriesAssumption, InitInv DEF Inv
<1>1. \A c \in Calls : /\ op[c].pc = "idle" /\ op[c].made = None /\ ent[c] = None
  BY <1>0 DEF EntriesInit, NewOp
<1>2. \A n \in Names : Whole(n)
  BY <1>0, LenProperties DEF Whole, Typed, Places, None
<1> QED BY <1>1, <1>2 DEF CopiesOK, Halves, MadeOK, WholeOK, CopyOK, Whole

LEMMA CopiesInvariant ==
  ASSUME SourcesApart
  PROVE  Spec => []CopiesOK
<1>1. ASSUME Inv, CopiesOK, [Next]_vars
      PROVE  CopiesOK'
  <2>1. ASSUME NEW d \in Calls, Step(d)
        PROVE  CopiesOK'
    <3>1. Halves'
      BY <1>1, <2>1, HalvesNext DEF CopiesOK
    <3>2. \A c \in Calls : MadeOK(c)'
      BY <1>1, <2>1, MadeNext DEF CopiesOK
    <3>3. \A c \in Calls : WholeOK(c)'
      BY <1>1, <2>1, WholeNext DEF CopiesOK
    <3>4. \A c \in Calls : CopyOK(c)'
      BY <1>1, <2>1, CopyNext DEF CopiesOK
    <3> QED BY <3>1, <3>2, <3>3, <3>4 DEF CopiesOK
  <2>2. CASE Environment \/ UNCHANGED vars
    BY <1>1, <2>2, EnvironmentEffect, OutsideCopies
  <2> QED BY <1>1, <2>1, <2>2 DEF Next
<1> QED BY <1>1, InitCopies, PlacementInvariant, PTL DEF Spec

\* Nobody finds half an object under a name, unless its publication runs, was cut
\* off, told its caller, or failed before it recognised what it created: TargetWhole,
\* for any calls whose sources are apart.
THEOREM TargetsAreWhole ==
  ASSUME SourcesApart
  PROVE  Spec => []TargetWhole
<1>1. CopiesOK => TargetWhole
  BY DEF CopiesOK, Halves, Whole, HalfAt, TargetWhole, Kind
<1> QED BY <1>1, CopiesInvariant, PTL

\* A move sends the removal of its source only when the target got all that the
\* source holds: SourceOutlivesCopy, for any calls whose sources are apart.
THEOREM SourcesOutliveCopies ==
  ASSUME SourcesApart
  PROVE  Spec => SourceOutlivesCopy
<1> DEFINE Complete(c) ==
      setup.task[c].kind = "move" /\ op'[c].pc = "unlink" /\ op[c].pc # "unlink" =>
         /\ op[c].pub /\ body[op[c].made].whole
         /\ ent[From(c)] = op[c].print.id
         /\ op[c].read = body[ent[From(c)]].data
<1>1. ASSUME Inv, CopiesOK, Next, NEW c \in Calls
      PROVE  Complete(c)
  <2> SUFFICES ASSUME Kind(c) = "move", op'[c].pc = "unlink", op[c].pc # "unlink"
               PROVE  /\ op[c].pub /\ body[op[c].made].whole
                      /\ ent[From(c)] = op[c].print.id
                      /\ op[c].read = body[ent[From(c)]].data
    BY DEF Kind
  <2>0. Typed /\ MoveOK(c) /\ CopyOK(c) /\ op[c] \in OpState /\ op \in [Calls -> OpState]
        /\ c \in Places /\ From(c) \in Places /\ Way(c) \in {"direct", "reject"}
    BY <1>1, OpType, SituationType DEF Inv, CallOK, CopiesOK, Typed
  <2>1. ~Environment
    BY <1>1, EnvironmentEffect DEF Outside
  <2>2. PICK d \in Calls : Step(d)
    BY <1>1, <2>1 DEF Next
  <2>3. d = c
    BY <1>1, <2>0, <2>2, KindOfStep, OthersKept
  <2>4. MoveStep(c)
    BY <1>1, <2>2, <2>3, KindOfStep
  <2>s. ~(\E told \in Outcomes : Settle(c, told)) /\ \A pc \in Steps \ {"unlink"} : ~Go(c, pc)
    BY <2>0, Settled, Gone
  <2>5. CheckRemoval(c)
    <3>1. ~(StartMove(c) \/ RenameDirect(c) \/ RecheckSource(c) \/ SendCommit(c)
            \/ CommitStage(c) \/ RemoveSource(c))
      BY <2>0, <2>s, StepNames, OutcomeNames
         DEF StartMove, RenameDirect, RecheckSource, SendCommit, CommitStage, RemoveSource, Reply
    <3>2. ~InspectSource(c)
      BY <2>0 DEF InspectSource, Settle, OpState
    <3>3. ~(RecordStage(c) \/ NoteCommit(c))
      BY <2>0 DEF RecordStage, NoteCommit, Settle, OpState
    <3>4. ~CreateStage(c)
      <4>1. op' # [op EXCEPT ![c].pc = "record", ![c].made = Len(body) + 1]
        BY <2>0 DEF OpState
      <4> QED BY <2>s, <4>1, OutcomeNames DEF CreateStage
    <3>5. ~CopySource(c)
      BY <2>0 DEF CopySource, Go, OpState
    <3>6. ~DropStage(c)
      BY <2>0 DEF DropStage, Reply, Settle, Go, OpState
    <3>7. ~CheckDrop(c)
      BY <2>0, <2>s, Dispatched, StepNames, OutcomeNames DEF CheckDrop
    <3>8. ~(ExitCheckStage(c) \/ ExitRemoveStage(c))
      BY <2>0 DEF ExitCheckStage, ExitRemoveStage, OpState
    <3> QED BY <2>4, <3>1, <3>2, <3>3, <3>4, <3>5, <3>6, <3>7, <3>8 DEF MoveStep
  <2>6. op[c].pc = "published" /\ SameSource(c)
    BY <2>5, <2>s, OutcomeNames DEF CheckRemoval, At
  <2>7. ent[From(c)] = op[c].print.id /\ body[ent[From(c)]].data = op[c].print.data
    BY <2>6 DEF SameSource, Fingerprint
  <2>8. /\ op[c].pub /\ body[op[c].made].whole
        /\ op[c].print.data <= op[c].read /\ op[c].read <= op[c].print.data
    BY <2>0, <2>6, <2>7 DEF MoveOK, CopyOK
  <2>9. op[c].print.data \in Nat /\ op[c].read \in Nat
    BY <2>0 DEF OpState
  <2> QED BY <2>7, <2>8, <2>9
<1>2. Inv /\ CopiesOK /\ [Next]_vars => [\A c \in Calls : Complete(c)]_vars
  BY <1>1
<1> QED BY <1>2, PlacementInvariant, CopiesInvariant, PTL DEF Spec, SourceOutlivesCopy

-----------------------------------------------------------------------------
(* A link stands while its source does.                                    *)

\* A publication takes hold of a target that was free.
Acquires(c) ==
  /\ ent[To(c)] = None /\ ent'[To(c)] = op'[c].made
  /\ op[c].src # None /\ op'[c].src = op[c].src

LEMMA OwnHold ==
  ASSUME SourcesApart, Inv, NEW c \in Calls, Step(c), Held(c)'
  PROVE  (Held(c) /\ op'[c].made = op[c].made /\ op'[c].src = op[c].src) \/ Acquires(c)
<1>0. Typed /\ Effect(c) /\ op \in [Calls -> OpState] /\ op[c] \in OpState
      /\ ent \in [Places -> Nat] /\ taken \subseteq taken'
  BY KindOfStep, OpType DEF Inv, Typed, Effect, Frame
<1>1. /\ Kind(c)' = Kind(c) /\ From(c)' = From(c) /\ To(c)' = To(c)
  BY <1>0, SameSituation DEF Effect, Frame
<1>2. /\ Kind(c) = "publish" /\ op'[c].pc \in Holding /\ op'[c].made = op'[c].src
      /\ op'[c].made \notin taken /\ ent'[From(c)] = op'[c].made
  BY <1>0, <1>1 DEF Held
<1>3. PublicationStep(c) /\ PublicationOK(c) /\ From(c) \in Places /\ To(c) \in Places
      /\ From(c) \in Sources /\ From(c) # To(c) /\ Way(c) \in {"copy", "link", "rename"}
  BY <1>0, <1>2, KindOfStep, SituationType, NamesApart, SourceNoTarget DEF Inv, CallOK, Typed
<1>4. PublicationOK(c)'
  BY <1>1, <1>2, CallsKeepInv DEF Inv, CallOK
<1>5. op'[c].made # None /\ ent[From(c)] = op'[c].made
  BY <1>0, <1>2, <1>3, <1>4, SourcesLose DEF PublicationOK
<1>6. op[c].pc \in Holding /\ op'[c].made = op[c].made /\ op'[c].src = op[c].src => Held(c)
  BY <1>2, <1>5 DEF Held
<1>s. ~(\E told \in Outcomes : Settle(c, told))
  BY <1>0, <1>2, Settled DEF Holding, Unknown
<1>g. \A pc \in Steps \ Holding : ~Go(c, pc)
  BY <1>0, <1>2, Gone
<1>7. CASE LinkTarget(c) \/ LinkPair(c)
  <2>1. /\ ent[To(c)] = None /\ ent' = [ent EXCEPT ![To(c)] = ent[From(c)]]
        /\ \E pc \in {"verify", "checkPair"} : Created(c, op[c].src, pc)
    BY <1>7, <1>s, <1>g, StepNames, OutcomeNames DEF LinkTarget, LinkPair, Put, Holding, Unknown
  <2>2. op'[c].src = op[c].src
    BY <1>0, <2>1 DEF Created, OpState
  <2>3. ent'[To(c)] = op'[c].made
    BY <1>0, <1>3, <1>5, <2>1
  <2> QED BY <1>2, <1>5, <2>1, <2>2, <2>3 DEF Acquires
<1>8. CASE RenameSource(c)
  <2>1. ent[From(c)] # None /\ ent[To(c)] = None /\ Rename(From(c), To(c))
    BY <1>8, <1>s, OutcomeNames DEF RenameSource
  <2>2. ent'[From(c)] = None
    BY <1>0, <1>3, <2>1 DEF Rename
  <2> QED BY <1>2, <1>5, <2>2
<1>9. CASE CreateCopy(c) \/ CreateNative(c)
  <2>1. \E pc : CreateTarget(c, pc)
    BY <1>9, <1>s, OutcomeNames DEF CreateCopy, CreateNative, Exists
  <2>2. op'[c].made = Len(body) + 1 /\ ent[From(c)] <= Len(body) /\ Len(body) \in Nat
    BY <1>0, <1>3, <2>1, OpType DEF CreateTarget, OpState, Typed
  <2> QED BY <1>0, <1>3, <1>5, <2>2
<1>10. CASE FillCopy(c)
  <2>1. op[c].pc = "fill"
    BY <1>10 DEF FillCopy, At
  <2>2. op'[c].made = op[c].made /\ op'[c].src = op[c].src
    BY <1>0, <1>10, Gone, Settled, StepNames, OutcomeNames DEF FillCopy, Undoes, Rests, OpState
  <2> QED BY <1>6, <2>1, <2>2 DEF Holding, Unknown
<1>11. CASE \/ VerifyTarget(c) \/ SyncParent(c) \/ FinishPublication(c) \/ CheckUndo(c)
            \/ RemoveCreated(c) \/ CheckPair(c) \/ UnlinkSource(c)
  <2>1. op[c].pc \in Holding
    BY <1>11 DEF VerifyTarget, SyncParent, FinishPublication, CheckUndo, RemoveCreated,
           CheckPair, UnlinkSource, At, Sent, Holding, Unknown
  <2>2. Ordinary(c)
    BY <1>3, <1>11, StepNames, OutcomeNames, ReplyOrdinary
       DEF VerifyTarget, SyncParent, FinishPublication, CheckUndo, RemoveCreated, CheckPair,
           UnlinkSource, Undoes, Ordinary
  <2>3. Rests(c)
    BY <1>0, <2>2, OrdinaryRests
  <2> QED BY <1>6, <2>1, <2>3 DEF Rests
<1>12. CASE OpenSource(c)
  <2>1. op' = [op EXCEPT ![c].pc = "check", ![c].src = ent[From(c)]]
    BY <1>12, <1>s, OutcomeNames DEF OpenSource
  <2>2. op'[c].pc = "check"
    BY <1>0, <2>1 DEF OpState
  <2> QED BY <1>2, <2>2 DEF Holding, Unknown
<1>13. CASE CheckSource(c)
  <2>1. Settle(c, "failed") \/ \E pc \in {"link", "rename", "single"} : Go(c, pc)
    BY <1>0, <1>3, <1>13, SituationType DEF CheckSource, Typed
  <2> QED BY <1>s, <1>g, <2>1, StepNames, OutcomeNames DEF Holding, Unknown
<1>14. CASE CheckSingle(c)
  BY <1>14, <1>s, <1>g, StepNames, OutcomeNames DEF CheckSingle, Holding, Unknown
\* What the call created itself is not its source.
<1>15. CASE \/ AdmitCopy(c) \/ AdoptNative(c) \/ NativeCopy(c) \/ NativeUndo(c) \/ NativeRemove(c)
  <2>1. op[c].pc \in Unknown
    BY <1>15 DEF AdmitCopy, AdoptNative, NativeCopy, NativeUndo, NativeRemove, At, Sent, Unknown
  <2>2. op[c].made # op[c].src
    BY <1>3, <2>1 DEF PublicationOK
  <2>3. op'[c].src = op[c].src /\ op'[c].src # None
    BY <1>0, <1>2, <1>5, <1>15, PublicationNotes, <1>3, <2>1 DEF Rests, PublicationOK, Unknown, Holding
  <2>4. op'[c].made \in {op[c].made, None, Len(body) + 1}
    BY <1>3, <2>1, PublicationNotes DEF Rests, PublicationOK, Unknown, Holding
  <2>5. ent[From(c)] <= Len(body) /\ Len(body) \in Nat
    BY <1>0, <1>3, OpType DEF Typed
  <2> QED BY <1>2, <1>5, <2>2, <2>3, <2>4, <2>5
<1> QED BY <1>3, <1>7, <1>8, <1>9, <1>10, <1>11, <1>12, <1>13, <1>14, <1>15 DEF PublicationStep

\* What is at a target is replaced, which is noted, or removed by a publication
\* that holds it for its own.
LEMMA TargetLost ==
  ASSUME SourcesApart, Inv, NEW d \in Calls, Step(d), NEW c \in Calls, c \notin TreeCalls,
         ent[To(c)] # None, ent'[To(c)] # ent[To(c)], ent[To(c)] \notin taken'
  PROVE  /\ Kind(d) = "publish" /\ op[d].pc \in {"remove", "nativeRemove"} /\ To(d) = To(c)
         /\ op[d].made = ent[To(c)] /\ op'[d].pc \notin Holding
<1>0. Typed /\ Effect(d) /\ ent \in [Places -> Nat] /\ CallOK(d)
  BY KindOfStep DEF Inv, Typed
<1>1. /\ To(c) \in Names /\ To(c) \in Places /\ To(c) \notin Sources /\ To(c) \notin TreeNames
      /\ d # To(c) /\ d \in Places /\ From(d) \in Places /\ To(d) \in Places
      /\ c \notin TreeCalls
  BY <1>0, SituationType, SourceNoTarget, NamesApart DEF Typed
<1>2. ent' # ent
  OBVIOUS
<1>3. d \notin TreeCalls
  <2>1. d \in TreeCalls => To(c) \notin Mine(d)
    BY <1>0, <1>1, NamesApart DEF Mine, Typed
  <2> QED BY <1>0, <1>1, <2>1, SituationType DEF Effect, Shape, Mine, Typed
<1>4. From(d) # To(c) /\ From(d) # To(d) /\ From(d) # d /\ To(d) # d
  BY <1>0, <1>1, <1>3, NamesApart, SourceNoTarget, SituationType DEF Typed
<1>p. ASSUME NEW n \in Places, NEW i \in Nat, ent' = [ent EXCEPT ![n] = i]
      PROVE  n = To(c)
  BY <1>0, <1>1, <1>p
<1>r. ASSUME NEW a \in Places, NEW b \in Places, ent' = [ent EXCEPT ![b] = ent[a], ![a] = None]
      PROVE  To(c) = a \/ To(c) = b
  BY <1>0, <1>1, <1>r
<1>5. CASE PublicationStep(d)
  <2>1. CASE LinkTarget(d) \/ LinkPair(d)
    <3>1. ent[To(d)] = None /\ ent' = [ent EXCEPT ![To(d)] = ent[From(d)]]
      BY <1>2, <2>1 DEF LinkTarget, LinkPair, Put
    <3> QED BY <1>0, <1>1, <1>p, <3>1
  <2>2. CASE CreateCopy(d) \/ CreateNative(d)
    <3>1. ent[To(d)] = None /\ ent' = [ent EXCEPT ![To(d)] = Len(body) + 1]
      BY <1>2, <2>2 DEF CreateCopy, CreateNative, Exists, CreateTarget, Create, Put
    <3> QED BY <1>0, <1>1, <3>1
  <2>3. CASE RenameSource(d)
    <3>1. ent[To(d)] = None /\ ent' = [ent EXCEPT ![To(d)] = ent[From(d)], ![From(d)] = None]
      BY <1>2, <2>3 DEF RenameSource, Rename
    <3> QED BY <1>1, <1>4, <1>r, <3>1
  <2>4. CASE UnlinkSource(d)
    <3>1. ent' = [ent EXCEPT ![From(d)] = None]
      BY <1>2, <2>4 DEF UnlinkSource, Remove, Put
    <3> QED BY <1>0, <1>1, <1>4, <3>1
  <2>5. CASE RemoveCreated(d)
    <3>1. /\ ent' = [ent EXCEPT ![To(d)] = None] /\ Reply(d, Settle(d, "removed"))
          /\ taken' = taken \cup ({ent[To(d)]} \ {op[d].seen})
          /\ Kind(d) = "publish" /\ op[d].pc = "remove"
      BY <1>2, <2>5 DEF RemoveCreated, Remove, Put, Sent, Kind
    <3>2. To(d) = To(c)
      BY <1>0, <1>1, <3>1
    <3>3. op[d].seen = op[d].made
      BY <1>0, <3>1 DEF CallOK, PublicationOK
    <3>4. op[d].made = ent[To(c)]
      BY <3>1, <3>2, <3>3
    <3>5. op'[d].pc = "settled" \/ op'[d].pc = "void"
      BY <1>0, <3>1, Settled, Gone, StepNames, OutcomeNames DEF Reply
    <3> QED BY <3>1, <3>2, <3>4, <3>5 DEF Holding, Unknown
  <2>7. CASE NativeRemove(d)
    <3>1. /\ ent' = [ent EXCEPT ![To(d)] = None] /\ GiveUpNative(d)
          /\ taken' = taken \cup ({ent[To(d)]} \ {op[d].seen})
          /\ Kind(d) = "publish" /\ op[d].pc = "nativeRemove"
      BY <1>2, <2>7 DEF NativeRemove, Remove, Put, Sent, Kind
    <3>2. To(d) = To(c)
      BY <1>0, <1>1, <3>1
    <3>3. op[d].seen = op[d].made
      BY <1>0, <3>1 DEF CallOK, PublicationOK
    <3>4. op[d].made = ent[To(c)]
      BY <3>1, <3>2, <3>3
    <3>5. op[d] \in OpState /\ op \in [Calls -> OpState]
      BY <1>0, OpType DEF Typed
    <3>6. op'[d].pc = "settled" \/ op'[d].pc = "void" \/ op'[d].pc = "portable"
      BY <3>1, <3>5 DEF GiveUpNative, Reply, Settle, Go, OpState
    <3> QED BY <3>1, <3>2, <3>4, <3>6 DEF Holding, Unknown
  <2>8. ~(NativeCopy(d) \/ NativeUndo(d) \/ AdoptNative(d) \/ AdmitCopy(d))
    BY <1>2 DEF NativeCopy, NativeUndo, AdoptNative, AdmitCopy
  <2>6. ~(OpenSource(d) \/ CheckSource(d) \/ FillCopy(d) \/ VerifyTarget(d) \/ SyncParent(d)
          \/ FinishPublication(d) \/ CheckUndo(d) \/ CheckSingle(d) \/ CheckPair(d))
    BY <1>2 DEF OpenSource, CheckSource, FillCopy, VerifyTarget, SyncParent,
           FinishPublication, CheckUndo, CheckSingle, CheckPair
  <2> QED BY <1>5, <2>1, <2>2, <2>3, <2>4, <2>5, <2>6, <2>7, <2>8 DEF PublicationStep
<1>6. CASE MoveStep(d)
  <2>1. CASE RenameDirect(d)
    <3>1. /\ ent' = [ent EXCEPT ![To(d)] = ent[From(d)], ![From(d)] = None]
          /\ ent[To(d)] \in taken'
      BY <1>2, <2>1 DEF RenameDirect, Replace, Rename
    <3> QED BY <1>1, <1>4, <1>r, <3>1
  <2>2. CASE CommitStage(d)
    <3>1. /\ ent' = [ent EXCEPT ![To(d)] = ent[d], ![d] = None]
          /\ ent[To(d)] \in taken'
      BY <1>2, <2>2 DEF CommitStage, Replace, Rename
    <3> QED BY <1>1, <1>4, <1>r, <3>1
  <2>3. CASE RemoveSource(d)
    <3>1. ent' = [ent EXCEPT ![From(d)] = None]
      BY <1>2, <2>3 DEF RemoveSource, Remove, Put
    <3> QED BY <1>0, <1>1, <1>4, <3>1
  <2>4. CASE DropStage(d) \/ ExitRemoveStage(d)
    <3>1. ent' = [ent EXCEPT ![d] = None]
      BY <1>2, <2>4 DEF DropStage, ExitRemoveStage, Remove, Put
    <3> QED BY <1>0, <1>1, <3>1
  <2>5. CASE CreateStage(d)
    <3>1. ent' = [ent EXCEPT ![d] = Len(body) + 1]
      BY <1>2, <2>5 DEF CreateStage, Create, Put
    <3> QED BY <1>0, <1>1, <3>1
  <2>6. ~(StartMove(d) \/ InspectSource(d) \/ RecordStage(d) \/ CopySource(d) \/ RecheckSource(d)
          \/ SendCommit(d) \/ NoteCommit(d) \/ CheckRemoval(d) \/ CheckDrop(d) \/ ExitCheckStage(d))
    BY <1>2 DEF StartMove, InspectSource, RecordStage, CopySource, RecheckSource, SendCommit,
           NoteCommit, CheckRemoval, CheckDrop, ExitCheckStage
  <2> QED BY <1>6, <2>1, <2>2, <2>3, <2>4, <2>5, <2>6 DEF MoveStep
<1> QED BY <1>3, <1>5, <1>6, KindOfStep

LEMMA SourcesNext ==
  ASSUME SourcesApart, Inv, CopiesOK, SourcesOK, NEW d \in Calls, Step(d)
  PROVE  SourcesOK'
<1>0. /\ Typed /\ Effect(d) /\ ent \in [Places -> Nat] /\ Len(body) \in Nat /\ taken \subseteq taken'
      /\ \A n \in Places : ent[n] <= Len(body)
  BY KindOfStep, LenProperties DEF Inv, Typed, Effect, Frame
<1>1. /\ \A c \in Calls : Kind(c)' = Kind(c) /\ From(c)' = From(c) /\ To(c)' = To(c)
      /\ Sources' = Sources
  BY <1>0, SameSituation, SameTrees DEF Effect, Frame
<1>2. \A x \in Calls \ {d} : op'[x] = op[x]
  BY <1>0, OthersKept
<1>3. \A n \in Sources : n \in Places /\ ent'[n] \in {ent[n], None}
  BY <1>0, SourcesLose, NamesApart DEF Places, Sources
<1>4. /\ \A c \in Calls : Held(c) => ent[To(c)] = op[c].made
      /\ \A c, x \in Calls : Held(c) /\ Held(x) /\ To(c) = To(x) => c = x
      /\ \A c \in Calls : Kind(c) = "publish" /\ op[c].src # None =>
           \A n \in Sources : ent[n] = op[c].src => n = From(c)
  BY DEF SourcesOK, HeldOK
<1>5. ASSUME NEW c \in Calls, Kind(c) = "publish"
      PROVE  /\ c \notin TreeCalls /\ From(c) \in Sources /\ To(c) \in Places
             /\ op[c].made \in Nat /\ op[c].src \in Nat
             /\ op[c].pc \in Holding => op[c].made # None
  BY <1>0, <1>5, SituationType, NamesApart, OpType DEF Inv, CallOK, PublicationOK, Typed, OpState
\* What is held was held before, or just put at a free target.
<1>6. ASSUME NEW c \in Calls, Held(c)'
      PROVE  \/ Held(c) /\ op'[c].made = op[c].made /\ op'[c].src = op[c].src
             \/ c = d /\ Acquires(c)
  <2>1. CASE c = d
    BY <1>6, <2>1, OwnHold
  <2>2. CASE c # d
    <3>1. /\ op'[c] = op[c] /\ Kind(c) = "publish" /\ op[c].pc \in Holding
          /\ op[c].made = op[c].src /\ op[c].made \notin taken /\ ent'[From(c)] = op[c].made
      BY <1>0, <1>1, <1>2, <1>6, <2>2 DEF Held
    <3>2. ent[From(c)] = op[c].made
      BY <1>3, <1>5, <3>1
    <3> QED BY <3>1, <3>2 DEF Held
  <2> QED BY <2>1, <2>2
<1>7. ASSUME NEW c \in Calls, Held(c)'
      PROVE  ent'[To(c)] = op'[c].made
  <2>1. CASE Acquires(c)
    BY <2>1 DEF Acquires
  <2>2. CASE Held(c) /\ op'[c].made = op[c].made /\ op'[c].src = op[c].src
    <3> SUFFICES ASSUME ent'[To(c)] # ent[To(c)]
                 PROVE  FALSE
      BY <1>4, <2>2
    <3>1. /\ ent[To(c)] = op[c].made /\ Kind(c) = "publish" /\ op[c].made # None
          /\ ent[From(c)] = op[c].made /\ op[c].made \notin taken'
          /\ op'[c].pc \in Holding
      BY <1>4, <1>5, <1>7, <2>2 DEF Held
    <3>2. /\ Kind(d) = "publish" /\ op[d].pc \in {"remove", "nativeRemove"} /\ To(d) = To(c)
          /\ op[d].made = ent[To(c)] /\ op'[d].pc \notin Holding
      BY <1>5, <3>1, TargetLost
    <3>3. c # d
      BY <3>1, <3>2
    <3>4. From(c) \in Sources /\ d \notin TreeCalls
      BY <1>5, <3>1, <3>2
    <3>5. op[d].made = op[d].src
      BY <3>1, <3>2, <3>4 DEF CopiesOK, MadeOK
    <3>6. From(c) = From(d)
      BY <1>4, <3>1, <3>2, <3>4, <3>5
    <3>7. Held(d)
      BY <1>0, <3>1, <3>2, <3>5, <3>6 DEF Held, Holding, Unknown
    <3> QED BY <1>4, <2>2, <3>2, <3>3, <3>7
  <2> QED BY <1>6, <1>7, <2>1, <2>2
<1>8. ASSUME NEW c \in Calls, NEW x \in Calls, Held(c)', Held(x)', To(c) = To(x)
      PROVE  c = x
  <2>1. ~Held(c) => c = d /\ ent[To(c)] = None
    BY <1>6, <1>8 DEF Acquires
  <2>2. ~Held(x) => x = d /\ ent[To(x)] = None
    BY <1>6, <1>8 DEF Acquires
  <2>3. \A y \in Calls : Held(y) => ent[To(y)] # None
    BY <1>4, <1>5 DEF Held
  <2> QED BY <1>4, <1>8, <2>1, <2>2, <2>3
<1>9. ASSUME NEW c \in Calls, Kind(c) = "publish", op'[c].src # None, NEW n \in Sources,
             ent'[n] = op'[c].src
      PROVE  n = From(c)
  <2>1. ent[n] = op'[c].src
    BY <1>3, <1>9
  <2>2. CASE op'[c].src = op[c].src
    BY <1>4, <1>9, <2>1, <2>2
  <2>3. CASE op'[c].src = ent[From(c)]
    BY <1>5, <1>9, <2>1, <2>3 DEF SourcesOK, Unaliased
  <2>4. CASE c # d
    BY <1>2, <2>2, <2>4
  <2>5. CASE c = d
    BY <1>9, <2>2, <2>3, <2>5, KindOfStep, PublicationNotes DEF Rests
  <2> QED BY <2>4, <2>5
<1>10. Unaliased'
  BY <1>0, UnaliasedNext DEF SourcesOK
<1>11. HeldOK'
  BY <1>1, <1>7, <1>8, <1>9 DEF HeldOK
<1> QED BY <1>10, <1>11 DEF SourcesOK

LEMMA OutsideSources ==
  ASSUME Inv, SourcesOK, Outside
  PROVE  SourcesOK'
<1>0. /\ Typed /\ Len(body) \in Nat /\ setup' = setup /\ op' = op /\ taken \subseteq taken'
      /\ \A m \in Places : ent[m] \in Nat /\ ent[m] <= Len(body)
  BY LenProperties DEF Inv, Typed, Outside
<1>1. /\ Sources' = Sources
      /\ \A c \in Calls : /\ Kind(c)' = Kind(c) /\ From(c)' = From(c) /\ To(c)' = To(c)
  BY <1>0, SameTrees, SameSituation
<1>2. Sources \subseteq Places
  BY DEF Sources, Places
<1>3. \A c \in Calls : /\ From(c) \in Places /\ To(c) \in Places
                       /\ op[c].src \in Nat /\ op[c].src <= Len(body)
                       /\ op[c].made \in Nat /\ op[c].made <= Len(body)
                       /\ Kind(c) = "publish" /\ op[c].pc \in Holding => op[c].made # None
  BY <1>0, OpType, SituationType DEF OpState, Bounded, Inv, Typed, CallOK, PublicationOK
<1>4. \A m \in Places, i \in Nat : i # None /\ i <= Len(body) /\ ent'[m] = i => ent[m] = i
  BY <1>0 DEF Outside
<1>5. Unaliased'
  <2> SUFFICES ASSUME NEW m \in Sources, NEW n \in Sources, ent'[m] = ent'[n], ent'[n] # None
               PROVE  m = n
    BY <1>1 DEF Unaliased
  <2>1. PICK x : \A y \in Places \ {x} : ent'[y] = ent[y]
    BY DEF Outside
  <2>2. CASE ent'[n] = Len(body) + 1
    <3>1. \A y \in Places : ent[y] # Len(body) + 1
      BY <1>0
    <3> QED BY <1>2, <2>1, <2>2, <3>1
  <2>3. CASE ent'[n] # Len(body) + 1
    <3>1. ent'[n] = ent[n] /\ ent'[m] = ent[m]
      BY <1>2, <2>3 DEF Outside
    <3> QED BY <3>1 DEF SourcesOK, Unaliased
  <2> QED BY <2>2, <2>3
<1>6. ASSUME NEW c \in Calls, Held(c)'
      PROVE  Held(c) /\ op[c].made \notin taken'
  <2>1. /\ Kind(c) = "publish" /\ op[c].pc \in Holding /\ op[c].made = op[c].src
        /\ op[c].made \notin taken' /\ ent'[From(c)] = op[c].made
    BY <1>0, <1>1, <1>6 DEF Held
  <2>2. ent[From(c)] = op[c].made
    BY <1>3, <1>4, <2>1
  <2> QED BY <1>0, <2>1, <2>2 DEF Held
<1>7. \A c \in Calls : Held(c)' => ent'[To(c)] = op[c].made
  BY <1>3, <1>6 DEF SourcesOK, HeldOK, Outside
<1>8. \A c, d \in Calls : Held(c)' /\ Held(d)' /\ To(c) = To(d) => c = d
  BY <1>6 DEF SourcesOK, HeldOK
<1>9. \A c \in Calls : Kind(c) = "publish" /\ op[c].src # None =>
       \A n \in Sources : ent'[n] = op[c].src => n = From(c)
  BY <1>2, <1>3, <1>4 DEF SourcesOK, HeldOK
<1>10. HeldOK'
  BY <1>0, <1>1, <1>7, <1>8, <1>9 DEF HeldOK
<1> QED BY <1>5, <1>10 DEF SourcesOK

LEMMA InitSources ==
  ASSUME SourcesApart, EntriesInit
  PROVE  SourcesOK
<1>0. setup \in Setups /\ Calls \cap Names = {}
  BY EntriesAssumption DEF EntriesInit
<1>1. \A c \in Calls : op[c].pc = "idle" /\ op[c].src = None
  BY DEF EntriesInit, NewOp
<1>2. \A n \in Sources : ent[n] = setup.start[n]
  BY DEF EntriesInit, Sources
<1>3. Unaliased
  <2> SUFFICES ASSUME NEW m \in Sources, NEW n \in Sources, ent[m] = ent[n], ent[n] # None, m # n
               PROVE  FALSE
    BY DEF Unaliased
  <2>1. PICK c \in Calls \ TreeCalls : m = setup.task[c].from
    BY DEF Sources, From
  <2>2. PICK d \in Calls \ TreeCalls : n = setup.task[d].from
    BY DEF Sources, From
  <2>3. setup.start[m] # None => setup.start[m] # setup.start[n]
    BY <1>0, <2>1, <2>2 DEF SourcesApart, TreeCalls
  <2> QED BY <1>2, <2>3
<1>4. HeldOK
  BY <1>1 DEF HeldOK, Held, Holding, Unknown
<1> QED BY <1>3, <1>4 DEF SourcesOK

LEMMA SourcesInvariant ==
  ASSUME SourcesApart
  PROVE  Spec => []SourcesOK
<1>1. ASSUME Inv, CopiesOK, SourcesOK, [Next]_vars
      PROVE  SourcesOK'
  BY <1>1, SourcesNext, EnvironmentEffect, OutsideSources DEF Next
<1> QED BY <1>1, InitSources, PlacementInvariant, CopiesInvariant, PTL DEF Spec

-----------------------------------------------------------------------------
(* What a step may take the last name of.                                  *)

\* The object i loses its last name, and neither a gap nor a replacement had part in it.
Lost(i) ==
  /\ i # None /\ i \notin taken'
  /\ \E n \in Places : ent[n] = i
  /\ \A n \in Places : ent'[n] # i

\* A rename to a free name loses nothing; one to a name in use only what was there.
LEMMA RenameKeeps ==
  ASSUME Typed, NEW a \in Places, NEW b \in Places, Rename(a, b), NEW i, Lost(i)
  PROVE  ent[b] = i
BY DEF Rename, Lost, Typed

LEMMA PutKeeps ==
  ASSUME Typed, NEW n \in Places, NEW v, Put(n, v), NEW i, Lost(i)
  PROVE  ent[n] = i
BY DEF Put, Lost, Typed

\* A removal takes what was seen.
LEMMA RemoveKeeps ==
  ASSUME Typed, NEW c \in Calls, NEW n \in Places, Remove(c, n), NEW i, Lost(i)
  PROVE  ent[n] = i /\ op[c].seen = i
<1>1. ent[n] = i
  BY PutKeeps DEF Remove
<1> QED BY <1>1 DEF Remove, Lost

LEMMA PublicationLoses ==
  ASSUME SourcesApart, Inv, SourcesOK, NEW c \in Calls, PublicationStep(c), NEW i, Lost(i)
  PROVE  MayDrop(c, i)
<1>0. Typed /\ Kind(c) = "publish" /\ PublicationOK(c) /\ From(c) \in Places /\ To(c) \in Places
      /\ From(c) # To(c) /\ ent \in [Places -> Nat]
  BY PublicationEffect, SituationType, NamesApart, SourceNoTarget DEF Inv, Typed, CallOK
<1>1. ent' # ent /\ i # None
  BY DEF Lost
<1>2. ~(LinkTarget(c) \/ LinkPair(c) \/ CreateCopy(c) \/ CreateNative(c))
  BY <1>0, <1>1, PutKeeps DEF LinkTarget, LinkPair, CreateCopy, CreateNative, Exists, CreateTarget, Create
<1>3. ~RenameSource(c)
  BY <1>0, <1>1, RenameKeeps DEF RenameSource
<1>4. CASE RemoveCreated(c)
  <2>1. Remove(c, To(c)) /\ op[c].pc = "remove"
    BY <1>1, <1>4 DEF RemoveCreated, Sent
  <2>2. op[c].made = i /\ Way(c) # "rename"
    BY <1>0, <2>1, RemoveKeeps DEF PublicationOK
  <2> QED BY <1>0, <2>2 DEF MayDrop, Kind
<1>7. CASE NativeRemove(c)
  <2>1. Remove(c, To(c)) /\ op[c].pc = "nativeRemove"
    BY <1>1, <1>7 DEF NativeRemove, Sent
  <2>2. op[c].made = i /\ Way(c) # "rename"
    BY <1>0, <2>1, RemoveKeeps DEF PublicationOK, Unknown
  <2> QED BY <1>0, <2>2 DEF MayDrop, Kind
<1>8. ~(NativeCopy(c) \/ NativeUndo(c) \/ AdoptNative(c) \/ AdmitCopy(c))
  BY <1>1 DEF NativeCopy, NativeUndo, AdoptNative, AdmitCopy
\* The source goes while its link stays.
<1>5. CASE UnlinkSource(c)
  <2>1. Remove(c, From(c)) /\ op[c].pc = "unlink"
    BY <1>1, <1>5 DEF UnlinkSource, At
  <2>2. ent[From(c)] = i /\ op[c].made = i /\ op[c].src = i
    BY <1>0, <2>1, RemoveKeeps DEF PublicationOK
  <2>3. i \notin taken
    BY <2>1 DEF Lost, Remove
  <2>4. Held(c)
    BY <1>0, <2>1, <2>2, <2>3 DEF Held, Holding
  <2>5. ent[To(c)] = i
    BY <2>2, <2>4 DEF SourcesOK, HeldOK
  <2>6. ent'[To(c)] = i
    BY <1>0, <2>1, <2>5 DEF Remove, Put
  <2> QED BY <1>0, <2>6 DEF Lost
<1>6. ~(OpenSource(c) \/ CheckSource(c) \/ FillCopy(c) \/ VerifyTarget(c) \/ SyncParent(c)
        \/ FinishPublication(c) \/ CheckUndo(c) \/ CheckSingle(c) \/ CheckPair(c))
  BY <1>1 DEF OpenSource, CheckSource, FillCopy, VerifyTarget, SyncParent,
         FinishPublication, CheckUndo, CheckSingle, CheckPair
<1> QED BY <1>2, <1>3, <1>4, <1>5, <1>6, <1>7, <1>8 DEF PublicationStep

LEMMA SwapLoses ==
  ASSUME Inv, NEW c \in Calls, SwapStep(c), NEW i, Lost(i)
  PROVE  MayDrop(c, i)
<1>0. Typed /\ Kind(c) = "swap" /\ SwapOK(c) /\ From(c) \in Places /\ To(c) \in Places /\ c \in Places
  BY SwapEffect, SituationType DEF Inv, Typed, CallOK
<1>1. ent' # ent /\ i # None
  BY DEF Lost
<1>2. ASSUME NEW a \in Places, NEW b \in Places, Moves(a, b) /\ Rename(a, b)
      PROVE  FALSE
  BY <1>0, <1>1, <1>2, RenameKeeps DEF Moves
<1>3. ~(RenameBackup(c) \/ RenamePlace(c) \/ RenameRollback(c))
  BY <1>0, <1>1, <1>2 DEF RenameBackup, RenamePlace, RenameRollback, Fails
<1>4. CASE RemoveOriginal(c)
  <2>1. ent[c] = op[c].old /\ Put(c, None) /\ op[c].pc = "cleaning"
    BY <1>1, <1>4 DEF RemoveOriginal, Sent
  <2>2. op[c].old = i /\ op[c].pub
    BY <1>0, <2>1, PutKeeps DEF SwapOK
  <2> QED BY <1>0, <2>2 DEF MayDrop, Kind
<1>5. ~(Admit(c) \/ CheckBackup(c) \/ ObserveBackup(c) \/ CheckPlace(c) \/ ObservePlace(c)
        \/ CheckClean(c) \/ CheckRollback(c) \/ ObserveRollback(c))
  BY <1>1 DEF Admit, CheckBackup, ObserveBackup, CheckPlace, ObservePlace, CheckClean,
         CheckRollback, ObserveRollback
<1> QED BY <1>3, <1>4, <1>5 DEF SwapStep

LEMMA MoveLoses ==
  ASSUME Inv, NEW c \in Calls, MoveStep(c), NEW i, Lost(i)
  PROVE  MayDrop(c, i)
<1>0. Typed /\ Kind(c) = "move" /\ MoveOK(c) /\ From(c) \in Places /\ To(c) \in Places /\ c \in Places
  BY MoveEffect, SituationType DEF Inv, Typed, CallOK
<1>1. ent' # ent /\ i # None
  BY DEF Lost
<1>2. ASSUME NEW a \in Places, NEW b \in Places, Replace(a, b)
      PROVE  FALSE
  <2>1. ent[b] = i
    BY <1>0, <1>2, RenameKeeps DEF Replace
  <2> QED BY <1>2, <2>1 DEF Replace, Lost
<1>3. ~(RenameDirect(c) \/ CommitStage(c))
  BY <1>0, <1>1, <1>2 DEF RenameDirect, CommitStage
<1>4. ~CreateStage(c)
  <2>1. ~(op[c].pc = "stage" /\ Create(c, 0, FALSE))
    BY <1>0, <1>1, PutKeeps DEF Create, MoveOK
  <2> QED BY <1>1, <2>1 DEF CreateStage, At
<1>5. CASE RemoveSource(c)
  <2>1. Remove(c, From(c)) /\ op[c].pc = "unlink"
    BY <1>1, <1>5 DEF RemoveSource, Sent
  <2>2. op[c].print.id = i /\ op[c].pub
    BY <1>0, <2>1, RemoveKeeps DEF MoveOK
  <2> QED BY <1>0, <2>2 DEF MayDrop, Kind
<1>6. CASE DropStage(c) \/ ExitRemoveStage(c)
  <2>1. Remove(c, c) /\ (op[c].pc = "dropping" \/ op[c].exit = "remove")
    BY <1>1, <1>6 DEF DropStage, ExitRemoveStage, Sent
  <2>2. op[c].made = i
    BY <1>0, <2>1, RemoveKeeps DEF MoveOK
  <2> QED BY <1>0, <2>2 DEF MayDrop, Kind
<1>7. ~(StartMove(c) \/ InspectSource(c) \/ RecordStage(c) \/ CopySource(c) \/ RecheckSource(c)
        \/ SendCommit(c) \/ NoteCommit(c) \/ CheckRemoval(c) \/ CheckDrop(c) \/ ExitCheckStage(c))
  BY <1>1 DEF StartMove, InspectSource, RecordStage, CopySource, RecheckSource, SendCommit,
         NoteCommit, CheckRemoval, CheckDrop, ExitCheckStage
<1> QED BY <1>3, <1>4, <1>5, <1>6, <1>7 DEF MoveStep

LEMMA WorkspaceLoses ==
  ASSUME Inv, NEW c \in Calls, WorkspaceStep(c), NEW i, Lost(i)
  PROVE  MayDrop(c, i)
<1>0. Typed /\ Kind(c) = "workspace" /\ WorkspaceOK(c) /\ From(c) \in Places /\ c \in Places
  BY WorkspaceEffect, SituationType DEF Inv, Typed, CallOK
<1>1. ent' # ent /\ i # None
  BY DEF Lost
<1>2. ~CreateWorkspace(c)
  BY <1>0, <1>1, PutKeeps DEF CreateWorkspace, Create
<1>3. ~HideWorkspace(c)
  <2>1. ~(op[c].pc = "hide" /\ Rename(From(c), c))
    BY <1>0, <1>1, RenameKeeps DEF WorkspaceOK
  <2> QED BY <1>1, <2>1 DEF HideWorkspace, At
<1>4. CASE EraseOwned(c)
  <2>1. ent[c] = op[c].made /\ Put(c, None)
    BY <1>1, <1>4 DEF EraseOwned
  <2> QED BY <1>0, <2>1, PutKeeps DEF MayDrop, Kind
<1>5. CASE ErasePath(c)
  <2>1. Remove(c, c) /\ op[c].pc = "erasePath"
    BY <1>1, <1>5 DEF ErasePath, Sent
  <2>2. op[c].made = i
    BY <1>0, <2>1, RemoveKeeps DEF WorkspaceOK
  <2> QED BY <1>0, <2>2 DEF MayDrop, Kind
<1>6. ~(AdmitWorkspace(c) \/ StartCleanup(c) \/ PrepareCleanup(c) \/ ObserveHidden(c)
        \/ ConfirmHidden(c) \/ ExitWorkspace(c))
  BY <1>1 DEF AdmitWorkspace, StartCleanup, PrepareCleanup, ObserveHidden, ConfirmHidden,
         ExitWorkspace
<1> QED BY <1>2, <1>3, <1>4, <1>5, <1>6 DEF WorkspaceStep

\* No call takes the last name of what is not its own: LastNameKept, for any calls
\* whose sources are apart and whatever fails between them.
THEOREM LastNamesAreKept ==
  ASSUME SourcesApart
  PROVE  Spec => LastNameKept
<1> DEFINE Rightful(c) ==
      op'[c] # op[c] =>
       \A i \in Objects \ taken' :
         Links(i) > 0 /\ (\A n \in DOMAIN ent : ent'[n] # i) => MayDrop(c, i)
<1>1. ASSUME Inv, SourcesOK, Next, NEW c \in Calls
      PROVE  Rightful(c)
  <2> SUFFICES ASSUME op'[c] # op[c], NEW i \in Objects \ taken', Links(i) > 0,
                      \A n \in DOMAIN ent : ent'[n] # i
               PROVE  MayDrop(c, i)
    OBVIOUS
  <2>1. DOMAIN ent = Places /\ i # None
    BY <1>1 DEF Inv, Typed, Objects, None
  <2>2. \E n \in Places : ent[n] = i
    <3> SUFFICES ASSUME \A n \in Places : ent[n] # i
                 PROVE  FALSE
      OBVIOUS
    <3>1. {n \in DOMAIN ent : ent[n] = i} = {}
      BY <2>1
    <3>2. Links(i) = 0
      BY <3>1, FS_EmptySet DEF Links
    <3> QED BY <3>2
  <2>3. Lost(i)
    BY <2>1, <2>2 DEF Lost
  <2>4. ~Environment
    BY <1>1, EnvironmentEffect DEF Outside
  <2>5. PICK d \in Calls : Step(d)
    BY <1>1, <2>4 DEF Next
  <2>6. d = c
    BY <1>1, <2>5, KindOfStep, OthersKept DEF Inv
  <2> QED BY <1>1, <2>3, <2>5, <2>6, PublicationLoses, SwapLoses, MoveLoses, WorkspaceLoses
          DEF Step
<1>2. Inv /\ SourcesOK /\ [Next]_vars => [\A c \in Calls : Rightful(c)]_vars
  BY <1>1
<1> QED BY <1>2, PlacementInvariant, SourcesInvariant, PTL DEF Spec, LastNameKept

================================================================================
