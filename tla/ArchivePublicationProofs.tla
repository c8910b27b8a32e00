---------------------- MODULE ArchivePublicationProofs ----------------------
(***************************************************************************)
(* Proofs about ArchivePublication, for every number of calls, every       *)
(* finite tree, every mode it may find or set and every number of faults.  *)
(*                                                                         *)
(* The argument follows a call through its tree.  What is done is closed   *)
(* under "lies in" (Walked), so that at the end of the walk all is done;   *)
(* a directory gets its final mode before those above it (Deepest), so     *)
(* that the way to what is left is as others made it (Foreign); what is    *)
(* not yet on stable storage is still in hand (Pending, NamesKept).  Each  *)
(* of these is said of one call and of the destination apart: first the    *)
(* destination changes, which is true to every call (Ready), then the call *)
(* moves.                                                                  *)
(***************************************************************************)
EXTENDS ArchivePublication, FiniteSetTheorems, SequenceTheorems, TLAPS

-----------------------------------------------------------------------------
(* The tree.                                                               *)

\* The recursion defines a function: of a directory, the least set of directories
\* that holds it and is closed under Parent.
LEMMA AboveRecursion ==
  Above = [d \in Dirs \cup {Root} |-> IF d = Root THEN {} ELSE {d} \cup Above[Parent[d]]]
<1> DEFINE Closed(X) == \A e \in X : Parent[e] \in X \cup {Root}
           Up(d) == {a \in Dirs : \A X \in SUBSET Dirs : d \in X /\ Closed(X) => a \in X}
           g == [d \in Dirs \cup {Root} |-> IF d = Root THEN {} ELSE Up(d)]
<1>1. ASSUME NEW d \in Dirs
      PROVE  Up(d) = {d} \cup (IF Parent[d] = Root THEN {} ELSE Up(Parent[d]))
  <2>1. Parent[d] \in Dirs \cup {Root} /\ Root \notin Dirs
    BY ArchiveAssumption
  <2>2. CASE Parent[d] = Root
    <3>1. {d} \in SUBSET Dirs /\ Closed({d})
      BY <2>2
    <3> QED BY <2>2, <3>1
  <2>3. CASE Parent[d] \in Dirs
    <3>1. Up(Parent[d]) \subseteq Up(d)
      BY <2>1, <2>3
    <3>2. d \in Up(d)
      OBVIOUS
    <3>3. Closed({d} \cup Up(Parent[d])) /\ {d} \cup Up(Parent[d]) \in SUBSET Dirs
      <4>1. \A e \in Up(Parent[d]) : Parent[e] \in Up(Parent[d]) \cup {Root}
        <5>1. SUFFICES ASSUME NEW e \in Up(Parent[d]), Parent[e] # Root,
                              NEW X \in SUBSET Dirs, Parent[d] \in X, Closed(X)
                       PROVE  Parent[e] \in Dirs /\ Parent[e] \in X
          BY ArchiveAssumption
        <5>2. e \in X
          BY <5>1
        <5> QED BY <5>1, <5>2, ArchiveAssumption
      <4>2. Parent[d] \in Up(Parent[d])
        BY <2>3
      <4> QED BY <4>1, <4>2
    <3>4. Up(d) \subseteq {d} \cup Up(Parent[d])
      <4> DEFINE Y == {d} \cup Up(Parent[d])
      <4>1. Y \in SUBSET Dirs /\ Closed(Y) /\ d \in Y
        BY <3>3
      <4> HIDE DEF Y
      <4>2. Up(d) \subseteq Y
        BY <4>1
      <4> QED BY <4>2 DEF Y
    <3> QED BY <2>1, <2>3, <3>1, <3>2, <3>4
  <2> QED BY <2>1, <2>2, <2>3
<1>2. g = [d \in Dirs \cup {Root} |-> IF d = Root THEN {} ELSE {d} \cup g[Parent[d]]]
  <2>1. ASSUME NEW d \in Dirs
        PROVE  g[d] = {d} \cup g[Parent[d]]
    <3>1. Parent[d] \in Dirs \cup {Root} /\ d # Root
      BY ArchiveAssumption
    <3>2. g[d] = Up(d) /\ g[Parent[d]] = IF Parent[d] = Root THEN {} ELSE Up(Parent[d])
      BY <3>1
    <3> HIDE DEF Up, g
    <3> QED BY <1>1, <3>2
  <2>2. g[Root] = {}
    OBVIOUS
  <2> HIDE DEF Up
  <2>3. \A d \in Dirs \cup {Root} :
          g[d] = IF d = Root THEN {} ELSE {d} \cup g[Parent[d]]
    BY <2>1, <2>2
  <2>4. DOMAIN g = Dirs \cup {Root}
    OBVIOUS
  <2> HIDE DEF g
  <2>5. g = [d \in Dirs \cup {Root} |-> g[d]]
    BY <2>4 DEF g
  <2> QED BY <2>3, <2>5
<1>3. \E f : f = [d \in Dirs \cup {Root} |-> IF d = Root THEN {} ELSE {d} \cup f[Parent[d]]]
  <2> HIDE DEF g
  <2> QED BY <1>2
<1> QED BY <1>3 DEF Above

LEMMA AboveRoot == Above[Root] = {}
<1>1. Root \in Dirs \cup {Root}
  OBVIOUS
<1> QED BY <1>1, AboveRecursion

LEMMA AboveDir == \A d \in Dirs : Above[d] = {d} \cup Above[Parent[d]]
<1> SUFFICES ASSUME NEW d \in Dirs
             PROVE  Above[d] = {d} \cup Above[Parent[d]]
  OBVIOUS
<1>1. d \in Dirs \cup {Root} /\ d # Root
  BY ArchiveAssumption
<1> QED BY <1>1, AboveRecursion

LEMMA ParentOf == \A n \in Dirs \cup Files : Parent[n] \in Dirs \cup {Root}
  BY ArchiveAssumption

\* Every set of directories has one whose parent is outside.
LEMMA Outermost ==
  ASSUME NEW X \in SUBSET Dirs, X # {}
  PROVE  \E d \in X : Parent[d] \in (Dirs \cup {Root}) \ X
<1>1. \E d \in X : Parent[d] \notin X
  BY ArchiveAssumption
<1> QED BY <1>1, ParentOf

LEMMA AboveInDirs == \A d \in Dirs \cup {Root} : Above[d] \subseteq Dirs
<1> DEFINE X == {d \in Dirs : ~(Above[d] \subseteq Dirs)}
<1>1. X = {}
  <2> SUFFICES ASSUME X # {} PROVE FALSE
    OBVIOUS
  <2>1. PICK d \in X : Parent[d] \in (Dirs \cup {Root}) \ X
    BY Outermost
  <2>2. Above[Parent[d]] \subseteq Dirs
    BY <2>1, AboveRoot
  <2> QED BY <2>2, AboveDir
<1> QED BY <1>1, AboveRoot

LEMMA AboveTransitive ==
  \A d \in Dirs \cup {Root} : \A a \in Above[d] : Above[a] \subseteq Above[d]
<1> DEFINE X == {d \in Dirs : \E a \in Above[d] : ~(Above[a] \subseteq Above[d])}
<1>1. X = {}
  <2> SUFFICES ASSUME X # {} PROVE FALSE
    OBVIOUS
  <2>1. PICK d \in X : Parent[d] \in (Dirs \cup {Root}) \ X
    BY Outermost
  <2>2. \A a \in Above[Parent[d]] : Above[a] \subseteq Above[Parent[d]]
    BY <2>1, AboveRoot
  <2>3. Above[d] = {d} \cup Above[Parent[d]]
    BY AboveDir
  <2> QED BY <2>2, <2>3
<1> QED BY <1>1, AboveRoot

LEMMA NotAboveItself == \A d \in Dirs : d \notin Above[Parent[d]]
<1> DEFINE X == {d \in Dirs : d \in Above[Parent[d]]}
<1> SUFFICES ASSUME X # {} PROVE FALSE
  OBVIOUS
<1>1. PICK d \in X : Parent[d] \in (Dirs \cup {Root}) \ X
  BY Outermost
<1> DEFINE p == Parent[d]
<1>2. p \in Dirs /\ p # d
  BY <1>1, AboveRoot
<1>3. Above[p] = {p} \cup Above[Parent[p]] /\ Above[d] = {d} \cup Above[p]
  BY <1>2, AboveDir
<1>4. d \in Above[Parent[p]]
  BY <1>2, <1>3
<1>5. Parent[p] \in Dirs \cup {Root}
  BY <1>2, ParentOf
<1>6. Above[d] \subseteq Above[Parent[p]]
  BY <1>4, <1>5, AboveTransitive
<1>7. p \in X
  BY <1>2, <1>3, <1>6
<1> QED BY <1>1, <1>7

\* What is above a directory is less deep.
LEMMA DepthGrows ==
  ASSUME NEW d \in Dirs, NEW a \in Above[Parent[d]]
  PROVE  Depth(a) < Depth(d) /\ Depth(a) \in Nat /\ Depth(d) \in Nat
<1>1. Parent[d] \in Dirs \cup {Root}
  BY ParentOf
<1>2. Above[a] \subseteq Above[Parent[d]]
  BY <1>1, AboveTransitive
<1>3. Above[d] = {d} \cup Above[Parent[d]] /\ d \notin Above[Parent[d]]
  BY AboveDir, NotAboveItself
<1>4. Above[d] \subseteq Dirs
  BY AboveInDirs
<1>5. IsFiniteSet(Above[d])
  BY <1>4, FS_Subset, ArchiveAssumption
<1>6. Above[a] \subseteq Above[d] /\ Above[a] # Above[d]
  BY <1>2, <1>3
<1>7. /\ IsFiniteSet(Above[a]) /\ Cardinality(Above[a]) <= Cardinality(Above[d])
      /\ Cardinality(Above[a]) # Cardinality(Above[d])
  BY <1>5, <1>6, FS_Subset
<1>8. Cardinality(Above[a]) \in Nat /\ Cardinality(Above[d]) \in Nat
  BY <1>5, <1>7, FS_CardinalityType
<1> QED BY <1>7, <1>8 DEF Depth

\* A set that holds what is in the destination, and what is in its directories, holds all.
LEMMA AllReached ==
  ASSUME NEW D, Children(Root) \subseteq D,
         \A d \in D \cap Dirs : Children(d) \subseteq D
  PROVE  Dirs \cup Files \subseteq D
<1>1. \A n \in Dirs \cup Files : Parent[n] \in (D \cap Dirs) \cup {Root} => n \in D
  BY DEF Children
<1>2. Dirs \subseteq D
  <2> DEFINE X == Dirs \ D
  <2> SUFFICES ASSUME X # {} PROVE FALSE
    OBVIOUS
  <2>1. PICK d \in X : Parent[d] \in (Dirs \cup {Root}) \ X
    BY Outermost
  <2> QED BY <1>1, <2>1
<1> QED BY <1>1, <1>2, ParentOf

-----------------------------------------------------------------------------
(* Types.                                                                  *)

Steps == {"idle", "stage", "walk", "mkdir", "enter", "copy", "rename", "keep", "verify", "files",
          "batch", "dirs", "chmod", "verifyMode", "syncDir", "syncRoot", "end", "unwind",
          "resolved", "rejected"}
Reasons == {"none", "timeout", "denied", "error", "changed"}
Needs   == {<<>>} \cup ((Dirs \cup {Root}) \X SUBSET {"r", "w", "x"})
Faults  == [why : Reasons, need : Needs]
Syncs   == {<<>>} \cup UNION {[b -> {"open", "sync", "look", "done"}] : b \in SUBSET Files}

RunState ==
  [ pc : Steps, path : Seq(Dirs), at : Dirs \cup Files \cup {Nothing},
    done : SUBSET (Dirs \cup Files), files : SUBSET Files, dirs : SUBSET Dirs,
    sync : Syncs, bad : SUBSET Faults, pin : BOOLEAN, why : Reasons, need : Needs ]
RunStates == [Calls -> RunState]

Typed ==
  /\ setup \in Setups
  /\ mode \in [Dirs -> {Absent} \cup Modes]
  /\ cell \in [Files -> Calls \cup {Nobody}]
  /\ data \in SUBSET Files /\ names \in SUBSET (Dirs \cup Files)
  /\ run \in RunStates
  /\ clock \in [Calls -> {"running", "elapsed", "aborted"}]
  /\ answer \in [Calls -> Reasons \cup {"ok"}]

\* The directory reached by a path.
Stand(p) == IF p = <<>> THEN Root ELSE Last(p)

LEMMA CurStand == \A c \in Calls : Cur(c) = Stand(run[c].path)
  BY DEF Cur, Stand

LEMMA StandTyped == \A p \in Seq(Dirs) : Stand(p) \in Dirs \cup {Root}
<1> SUFFICES ASSUME NEW p \in Seq(Dirs), p # <<>>
             PROVE  Last(p) \in Dirs
  BY DEF Stand
<1>1. Len(p) \in 1..Len(p)
  OBVIOUS
<1> QED BY <1>1 DEF Last

LEMMA PathSteps ==
  ASSUME NEW p \in Seq(Dirs)
  PROVE  /\ \A d \in Dirs : Append(p, d) \in Seq(Dirs) /\ Stand(Append(p, d)) = d
         /\ p # <<>> => Front(p) \in Seq(Dirs) /\ Len(Front(p)) = Len(p) - 1
                        /\ \A i \in 1..Len(p) - 1 : Front(p)[i] = p[i]
<1>1. ASSUME NEW d \in Dirs
      PROVE  Append(p, d) \in Seq(Dirs) /\ Stand(Append(p, d)) = d
  <2>1. Append(p, d) \in Seq(Dirs) /\ Len(Append(p, d)) = Len(p) + 1 /\ Append(p, d)[Len(p) + 1] = d
    OBVIOUS
  <2>2. Append(p, d) # <<>>
    BY <2>1
  <2> QED BY <2>1, <2>2 DEF Stand, Last
<1>2. ASSUME p # <<>>
      PROVE  Front(p) \in Seq(Dirs) /\ Len(Front(p)) = Len(p) - 1
             /\ \A i \in 1..Len(p) - 1 : Front(p)[i] = p[i]
  <2>1. Len(p) \in Nat \ {0} /\ \A i \in 1..Len(p) : p[i] \in Dirs
    BY <1>2, EmptySeq
  <2>2. Len(p) - 1 \in Int /\ 1 \in Int /\ 1..Len(p) - 1 \subseteq 1..Len(p)
    BY <2>1
  <2> DEFINE n == Len(p) - 1
  <2>3. /\ SubSeq(p, 1, n) \in Seq(Dirs) /\ Len(SubSeq(p, 1, n)) = IF 1 <= n THEN n - 1 + 1 ELSE 0
        /\ \A i \in 1..n - 1 + 1 : SubSeq(p, 1, n)[i] = p[1 + i - 1]
    <3>1. \A i \in 1..n : p[i] \in Dirs
      BY <2>1, <2>2
    <3> QED BY <2>2, <3>1, SubSeqProperties
  <2>4. n \in Nat
    BY <2>1
  <2> HIDE DEF n
  <2>5. n - 1 + 1 = n /\ (1 <= n \/ n = 0) /\ \A i \in 1..n : 1 + i - 1 = i
    BY <2>4
  <2>6. \A i \in 1..n : SubSeq(p, 1, n)[i] = p[i]
    BY <2>3, <2>5
  <2>7. Front(p) = SubSeq(p, 1, n)
    BY DEF Front, n
  <2>8. Front(p) \in Seq(Dirs) /\ Len(Front(p)) = n /\ \A i \in 1..n : Front(p)[i] = p[i]
    BY <2>3, <2>5, <2>6, <2>7
  <2> QED BY <2>8 DEF n
<1> QED BY <1>1, <1>2

\* What is known of the call that steps, and of the others.
LEMMA SetTyped ==
  ASSUME run \in RunStates, NEW c \in Calls, NEW r \in RunState, Set(c, r)
  PROVE  /\ run' \in RunStates /\ run'[c] = r
         /\ \A o \in Calls \ {c} : run'[o] = run[o]
  BY DEF Set, RunStates

LEMMA FieldsTyped ==
  ASSUME NEW r \in RunState
  PROVE  /\ r.pc \in Steps /\ r.path \in Seq(Dirs) /\ r.at \in Dirs \cup Files \cup {Nothing}
         /\ r.done \in SUBSET (Dirs \cup Files) /\ r.files \in SUBSET Files
         /\ r.dirs \in SUBSET Dirs /\ r.sync \in Syncs /\ r.bad \in SUBSET Faults
         /\ r.pin \in BOOLEAN /\ r.why \in Reasons /\ r.need \in Needs
  BY DEF RunState

LEMMA FieldUpdates ==
  ASSUME NEW r \in RunState
  PROVE  /\ \A v \in Steps : [r EXCEPT !.pc = v] \in RunState
         /\ \A v \in Seq(Dirs) : [r EXCEPT !.path = v] \in RunState
         /\ \A v \in Dirs \cup Files \cup {Nothing} : [r EXCEPT !.at = v] \in RunState
         /\ \A v \in SUBSET (Dirs \cup Files) : [r EXCEPT !.done = v] \in RunState
         /\ \A v \in SUBSET Files : [r EXCEPT !.files = v] \in RunState
         /\ \A v \in SUBSET Dirs : [r EXCEPT !.dirs = v] \in RunState
         /\ \A v \in Syncs : [r EXCEPT !.sync = v] \in RunState
         /\ \A v \in SUBSET Faults : [r EXCEPT !.bad = v] \in RunState
         /\ \A v \in BOOLEAN : [r EXCEPT !.pin = v] \in RunState
         /\ \A v \in Reasons : [r EXCEPT !.why = v] \in RunState
         /\ \A v \in Needs : [r EXCEPT !.need = v] \in RunState
  BY DEF RunState

LEMMA IdleTyped == Idle \in RunState
<1>1. <<>> \in Seq(Dirs) /\ <<>> \in Syncs /\ <<>> \in Needs
  BY EmptySeq DEF Syncs, Needs
<1> QED BY <1>1 DEF Idle, RunState, Steps, Reasons

-----------------------------------------------------------------------------
(* What is known of a call: r is its state, s what the calls are asked, bs *)
(* the calls that began.                                                   *)

Ended    == {"unwind", "rejected"}
Walking  == {"walk", "mkdir", "enter", "copy", "rename", "keep", "verify"}
Sealing  == {"chmod", "verifyMode", "syncDir"}
Fetched  == {"idle", "stage", "files", "batch"} \cup Walking
After    == {"files", "batch", "dirs", "syncDir", "syncRoot", "end", "resolved"}

Made(r) == r.done \cap Dirs

Chain(p) == \A i \in 1..Len(p) : Parent[p[i]] = IF i = 1 THEN Root ELSE p[i - 1]

\* The entry in hand belongs to the directory that was reached.
InPlace(s, c, r) ==
  /\ r.pc \in {"mkdir", "enter"} =>
       r.at \in Dirs /\ r.at \notin r.done /\ Parent[r.at] = Stand(r.path)
  /\ r.pc \in {"copy", "rename", "keep", "verify"} => r.at \in Files /\ Parent[r.at] = Stand(r.path)
  /\ c \in s.merge /\ r.pc \in {"chmod", "verifyMode"} =>
       r.path # <<>> /\ r.at = Stand(r.path) /\ Children(r.at) \subseteq r.done
  /\ r.pc \in {"idle", "stage"} => r.path = <<>>

Kinds(s, c, r) ==
  /\ r.pc \in {"files", "batch", "dirs", "syncDir", "syncRoot"} => c \notin s.merge
  /\ r.pc # "idle" => c \in s.calls
  /\ c \in s.merge \/ r.pc \in {"syncRoot", "end", "resolved"} => r.dirs = {}
  /\ r.dirs \subseteq Made(r)

\* A directory is done after all that is in it, and before all that it is in.
Walked(s, c, r) ==
  /\ \A d \in Made(r) : Children(d) \subseteq r.done
  /\ r.pc \notin Ended => Above[Stand(r.path)] \cap r.done = {}
  /\ r.pc \in After \/ (c \notin s.merge /\ r.pc \in Sealing) => Dirs \cup Files \subseteq r.done

\* An extraction finalizes a directory before those above it.
Deepest(s, c, r) ==
  c \notin s.merge =>
    /\ r.pc \in Fetched => Made(r) \subseteq r.dirs
    /\ r.pc \in {"dirs"} \cup Sealing => \A e \in r.dirs : Above[e] \subseteq r.dirs
    /\ r.pc \in Sealing => r.at \in r.dirs /\ \A e \in r.dirs \ {r.at} : r.at \notin Above[e]

Batched(s, c, r) ==
  /\ r.pc # "batch" => r.sync = <<>>
  /\ r.pc \notin Ended \cup {"batch"} => r.bad = {}
  /\ c \notin s.merge /\ r.pc \in {"dirs", "syncRoot", "end", "resolved"} \cup Sealing
       => r.files = {}

Local(s, c, r) ==
  /\ Chain(r.path) /\ InPlace(s, c, r) /\ Kinds(s, c, r)
  /\ Walked(s, c, r) /\ Deepest(s, c, r) /\ Batched(s, c, r)

\* What is published stays.
Present(r, md, cl) ==
  r.pc \notin Ended =>
    /\ \A d \in Above[Stand(r.path)] \cup Made(r) : md[d] # Absent
    /\ r.pc = "enter" => md[r.at] # Absent
    /\ r.pc = "verify" => cl[r.at] # Nobody
    /\ \A f \in r.done \cap Files : cl[f] # Nobody

\* A directory that is finalized has a final mode, if not that of this call.
Finalized(s, r, md) ==
  r.pc \notin Ended =>
    \A d \in (Made(r) \ r.dirs) \cup (IF r.pc = "syncDir" THEN {r.at} ELSE {}) :
      \E o \in s.calls : md[d] = s.mode[o][d]

\* A file of a durable call that is not on stable storage is still to be synced.
Pending(s, c, r, cl, da) ==
  r.pc \notin Ended /\ c \in s.durable =>
    \A f \in da : cl[f] = c =>
      \/ f \in r.files
      \/ f \in DOMAIN r.sync /\ r.sync[f] \in {"open", "sync"}
      \/ r.pc \in {"rename", "keep"} /\ r.at = f
      \/ r.bad # {}

\* A directory that is synced holds no new name but those of other calls' files.
Synced(r) == (Made(r) \ r.dirs) \cup (IF r.pc \in {"end", "resolved"} THEN {Root} ELSE {})
NamesKept(s, c, r, cl, na) ==
  r.pc \notin Ended /\ c \in s.durable =>
    \A d \in Synced(r) : \A n \in Children(d) \cap na : n \in Files /\ cl[n] # c

Lacks(need, m) == m # Absent /\ ~(need \subseteq m)
Excuse(s, c, d, need, bs) ==
  \/ Lacks(need, s.old[d])
  \/ \E o \in s.calls \ {c} : o \in bs /\ Lacks(need, s.mode[o][d])

\* Where a call did not apply its mode, the mode is another's doing.
Sealed(r) == (Made(r) \ r.dirs) \cup (IF r.pc \in Sealing THEN {r.at} ELSE {})
Foreign(s, c, r, md, bs) ==
  r.pc \notin Ended =>
    \A d \in Dirs \ Sealed(r) :
      \/ md[d] = s.old[d] \/ md[d] = {"r", "w", "x"}
      \/ \E o \in s.calls \ {c} : o \in bs /\ md[d] = s.mode[o][d]

Excused(s, c, r, bs) ==
  /\ r.why = "denied" => Excuse(s, c, r.need[1], r.need[2], bs)
  /\ \A x \in r.bad : x.why = "denied" => Excuse(s, c, x.need[1], x.need[2], bs)
  /\ c \in s.durable /\ r.pc \in {"chmod", "verifyMode"} /\ ~r.pin =>
       Excuse(s, c, r.at, {"r"}, bs)

Shared(s, c, r, md, cl, da, na, bs) ==
  /\ Present(r, md, cl) /\ Finalized(s, r, md) /\ Pending(s, c, r, cl, da)
  /\ NamesKept(s, c, r, cl, na) /\ Foreign(s, c, r, md, bs) /\ Excused(s, c, r, bs)

LEMMA ChainAppend ==
  ASSUME NEW p \in Seq(Dirs), NEW d \in Dirs, Chain(p), Parent[d] = Stand(p)
  PROVE  Chain(Append(p, d))
<1>1. /\ Len(p) \in Nat /\ Len(Append(p, d)) = Len(p) + 1 /\ Append(p, d)[Len(p) + 1] = d
      /\ \A i \in 1..Len(p) : Append(p, d)[i] = p[i]
  OBVIOUS
<1>2. p = <<>> <=> Len(p) = 0
  BY EmptySeq
<1>3. ASSUME NEW i \in 1..Len(p) + 1
      PROVE  Parent[Append(p, d)[i]] = IF i = 1 THEN Root ELSE Append(p, d)[i - 1]
  <2>1. CASE i \in 1..Len(p)
    <3>1. Parent[p[i]] = IF i = 1 THEN Root ELSE p[i - 1]
      BY <2>1 DEF Chain
    <3>2. i # 1 => i - 1 \in 1..Len(p)
      BY <1>1, <2>1
    <3> QED BY <1>1, <2>1, <3>1, <3>2
  <2>2. CASE i = Len(p) + 1 /\ Len(p) = 0
    BY <1>1, <1>2, <2>2 DEF Stand
  <2>3. CASE i = Len(p) + 1 /\ Len(p) # 0
    <3>1. Stand(p) = p[Len(p)]
      BY <1>2, <2>3 DEF Stand, Last
    <3>2. i # 1 /\ i - 1 = Len(p) /\ Len(p) \in 1..Len(p)
      BY <1>1, <2>3
    <3> QED BY <1>1, <2>3, <3>1, <3>2
  <2> QED BY <1>1, <2>1, <2>2, <2>3
<1> QED BY <1>1, <1>3 DEF Chain

LEMMA ChainFront ==
  ASSUME NEW p \in Seq(Dirs), NEW d \in Dirs, Chain(p), Stand(p) = d
  PROVE  /\ Front(p) \in Seq(Dirs) /\ Chain(Front(p)) /\ Stand(Front(p)) = Parent[d]
<1>1. p # <<>>
  BY ArchiveAssumption DEF Stand
<1>2. Len(p) \in Nat \ {0}
  BY <1>1, EmptySeq
<1>3. /\ Front(p) \in Seq(Dirs) /\ Len(Front(p)) = Len(p) - 1
      /\ \A i \in 1..Len(p) - 1 : Front(p)[i] = p[i]
  BY <1>1, PathSteps
<1>4. Parent[d] = IF Len(p) = 1 THEN Root ELSE p[Len(p) - 1]
  <2>1. d = p[Len(p)] /\ Len(p) \in 1..Len(p)
    BY <1>1, <1>2 DEF Stand, Last
  <2> QED BY <2>1 DEF Chain
<1>5. Front(p) = <<>> <=> Len(p) = 1
  <2>1. Front(p) = <<>> <=> Len(Front(p)) = 0
    BY <1>3, EmptySeq
  <2>2. Len(p) - 1 = 0 <=> Len(p) = 1
    BY <1>2
  <2> QED BY <1>3, <2>1, <2>2
<1>6. Stand(Front(p)) = Parent[d]
  <2>1. CASE Len(p) = 1
    BY <1>4, <1>5, <2>1 DEF Stand
  <2>2. CASE Len(p) # 1
    <3>1. Len(p) - 1 \in 1..Len(p) - 1
      <4>1. \A n \in Nat \ {0} : n # 1 => n - 1 \in 1..n - 1
        OBVIOUS
      <4> QED BY <1>2, <2>2, <4>1
    <3>2. Stand(Front(p)) = Front(p)[Len(p) - 1]
      BY <1>3, <1>5, <2>2 DEF Stand, Last
    <3> QED BY <1>3, <1>4, <2>2, <3>1, <3>2
  <2> QED BY <2>1, <2>2
<1>7. Chain(Front(p))
  <2>1. ASSUME NEW i \in 1..Len(p) - 1
        PROVE  Parent[Front(p)[i]] = IF i = 1 THEN Root ELSE Front(p)[i - 1]
    <3>1. i \in 1..Len(p) /\ (i # 1 => i - 1 \in 1..Len(p) - 1)
      BY <1>2
    <3>2. Parent[p[i]] = IF i = 1 THEN Root ELSE p[i - 1]
      BY <3>1 DEF Chain
    <3> QED BY <1>3, <3>1, <3>2
  <2> QED BY <1>3, <2>1 DEF Chain
<1> QED BY <1>3, <1>6, <1>7

\* Entering a directory, and leaving it.
LEMMA AboveEnter ==
  ASSUME NEW d \in Dirs
  PROVE  Above[d] = {d} \cup Above[Parent[d]] /\ d \notin Above[Parent[d]]
  BY AboveDir, NotAboveItself

\* All that is known of a call, of its destination and of the calls that began.
Good(s, c, r, md, cl, da, na, bs) ==
  r \in RunState /\ Local(s, c, r) /\ Shared(s, c, r, md, cl, da, na, bs)

\* A step that goes on, up to the publication of a file.
LEMMA MoveOn ==
  ASSUME NEW s, NEW c, NEW r, NEW md, NEW cl, NEW da, NEW na, NEW bs,
         Good(s, c, r, md, cl, da, na, bs),
         NEW v, c \in s.calls, md[r.at] # Absent \/ v # "enter",
         \/ r.pc = "idle" /\ v \in {"stage", "walk"}
         \/ r.pc = "stage" /\ v = "walk"
         \/ r.pc = "mkdir" /\ v = "enter"
         \/ r.pc = "copy" /\ v = "rename"
         \/ r.pc = "rename" /\ v = "keep"
  PROVE  Good(s, c, [r EXCEPT !.pc = v], md, cl, da, na, bs)
<1> DEFINE q == [r EXCEPT !.pc = v]
<1>1. r \in RunState
  BY DEF Good
<1>2. /\ q \in RunState
      /\ q.pc = v /\ q.path = r.path /\ q.at = r.at /\ q.done = r.done
      /\ q.files = r.files /\ q.dirs = r.dirs /\ q.sync = r.sync /\ q.bad = r.bad
      /\ q.pin = r.pin /\ q.why = r.why /\ q.need = r.need
  BY <1>1 DEF RunState, Steps
<1> HIDE DEF q
<1>3. Local(s, c, q)
  <2>1. Chain(q.path)
    BY <1>1, <1>2 DEF Good, Local, Chain
  <2>2. InPlace(s, c, q)
    BY <1>1, <1>2 DEF Good, Local, InPlace
  <2>3. Kinds(s, c, q)
    BY <1>1, <1>2 DEF Good, Local, Kinds, Made
  <2>4. Walked(s, c, q)
    BY <1>1, <1>2 DEF Good, Local, Walked, Made, Ended, After, Sealing
  <2>5. Deepest(s, c, q)
    BY <1>1, <1>2 DEF Good, Local, Deepest, Made, Fetched, Walking, Sealing
  <2>6. Batched(s, c, q)
    BY <1>1, <1>2 DEF Good, Local, Batched, Ended, Sealing
  <2> QED BY <2>1, <2>2, <2>3, <2>4, <2>5, <2>6 DEF Local
<1>4. Shared(s, c, q, md, cl, da, na, bs)
  <2>1. Present(q, md, cl)
    BY <1>1, <1>2 DEF Good, Shared, Present, Made, Ended
  <2>2. Finalized(s, q, md)
    BY <1>1, <1>2 DEF Good, Shared, Finalized, Made, Ended
  <2>3. Pending(s, c, q, cl, da)
    BY <1>1, <1>2 DEF Good, Shared, Pending, Ended
  <2>4. NamesKept(s, c, q, cl, na)
    BY <1>1, <1>2 DEF Good, Shared, NamesKept, Ended, Synced, Made
  <2>5. Foreign(s, c, q, md, bs)
    BY <1>1, <1>2 DEF Good, Shared, Foreign, Sealed, Sealing, Made, Ended
  <2>6. Excused(s, c, q, bs)
    BY <1>1, <1>2 DEF Good, Shared, Excused
  <2> QED BY <2>1, <2>2, <2>3, <2>4, <2>5, <2>6 DEF Shared
<1> QED BY <1>2, <1>3, <1>4 DEF Good, q

\* The extraction is going to reject.
LEMMA MoveUnwind ==
  ASSUME NEW s, NEW c, NEW r, NEW md, NEW cl, NEW da, NEW na, NEW bs,
         Good(s, c, r, md, cl, da, na, bs),
         r.pc \notin {"idle", "batch"}, NEW w \in Reasons, NEW n \in Needs,
         w = "denied" => Excuse(s, c, n[1], n[2], bs)
  PROVE  Good(s, c, [r EXCEPT !.pc = "unwind", !.why = w, !.need = n], md, cl, da, na, bs)
<1> DEFINE q == [r EXCEPT !.pc = "unwind", !.why = w, !.need = n]
<1>1. r \in RunState
  BY DEF Good
<1>2. /\ q \in RunState
      /\ q.pc = "unwind" /\ q.path = r.path /\ q.at = r.at /\ q.done = r.done
      /\ q.files = r.files /\ q.dirs = r.dirs /\ q.sync = r.sync /\ q.bad = r.bad
      /\ q.pin = r.pin /\ q.why = w /\ q.need = n
  BY <1>1 DEF RunState, Steps
<1> HIDE DEF q
<1>3. Local(s, c, q)
  <2>1. Chain(q.path)
    BY <1>1, <1>2 DEF Good, Local, Chain
  <2>2. InPlace(s, c, q)
    BY <1>1, <1>2 DEF Good, Local, InPlace
  <2>3. Kinds(s, c, q)
    BY <1>1, <1>2 DEF Good, Local, Kinds, Made
  <2>4. Walked(s, c, q)
    BY <1>1, <1>2 DEF Good, Local, Walked, Made, Ended, After, Sealing
  <2>5. Deepest(s, c, q)
    BY <1>1, <1>2 DEF Good, Local, Deepest, Made, Fetched, Walking, Sealing
  <2>6. Batched(s, c, q)
    BY <1>1, <1>2 DEF Good, Local, Batched, Ended, Sealing
  <2> QED BY <2>1, <2>2, <2>3, <2>4, <2>5, <2>6 DEF Local
<1>4. Shared(s, c, q, md, cl, da, na, bs)
  <2>1. Present(q, md, cl)
    BY <1>1, <1>2 DEF Good, Shared, Present, Made, Ended
  <2>2. Finalized(s, q, md)
    BY <1>1, <1>2 DEF Good, Shared, Finalized, Made, Ended
  <2>3. Pending(s, c, q, cl, da)
    BY <1>1, <1>2 DEF Good, Shared, Pending, Ended
  <2>4. NamesKept(s, c, q, cl, na)
    BY <1>1, <1>2 DEF Good, Shared, NamesKept, Ended, Synced, Made
  <2>5. Foreign(s, c, q, md, bs)
    BY <1>1, <1>2 DEF Good, Shared, Foreign, Sealed, Sealing, Made, Ended
  <2>6. Excused(s, c, q, bs)
    BY <1>1, <1>2 DEF Good, Shared, Excused
  <2> QED BY <2>1, <2>2, <2>3, <2>4, <2>5, <2>6 DEF Shared
<1> QED BY <1>2, <1>3, <1>4 DEF Good, q

\* An entry of the directory is taken up.
LEMMA MoveEntry ==
  ASSUME NEW s, NEW c, NEW r, NEW md, NEW cl, NEW da, NEW na, NEW bs,
         Good(s, c, r, md, cl, da, na, bs),
         r.pc = "walk", NEW n \in Children(Stand(r.path)) \ r.done, NEW v,
         v = IF n \in Dirs THEN "mkdir" ELSE "copy"
  PROVE  Good(s, c, [r EXCEPT !.pc = v, !.at = n], md, cl, da, na, bs)
<1> DEFINE q == [r EXCEPT !.pc = v, !.at = n]
<1>1. r \in RunState
  BY DEF Good
<1>2. /\ q \in RunState
      /\ q.pc = v /\ q.path = r.path /\ q.at = n /\ q.done = r.done
      /\ q.files = r.files /\ q.dirs = r.dirs /\ q.sync = r.sync /\ q.bad = r.bad
      /\ q.pin = r.pin /\ q.why = r.why /\ q.need = r.need
  BY <1>1 DEF RunState, Steps, Children
<1> HIDE DEF q
<1>3. Local(s, c, q)
  <2>1. Chain(q.path)
    BY <1>1, <1>2 DEF Good, Local, Chain
  <2>2. InPlace(s, c, q)
    BY <1>1, <1>2 DEF Good, Local, InPlace, Children
  <2>3. Kinds(s, c, q)
    BY <1>1, <1>2 DEF Good, Local, Kinds, Made
  <2>4. Walked(s, c, q)
    BY <1>1, <1>2 DEF Good, Local, Walked, Made, Ended, After, Sealing
  <2>5. Deepest(s, c, q)
    BY <1>1, <1>2 DEF Good, Local, Deepest, Made, Fetched, Walking, Sealing
  <2>6. Batched(s, c, q)
    BY <1>1, <1>2 DEF Good, Local, Batched, Ended, Sealing
  <2> QED BY <2>1, <2>2, <2>3, <2>4, <2>5, <2>6 DEF Local
<1>4. Shared(s, c, q, md, cl, da, na, bs)
  <2>1. Present(q, md, cl)
    BY <1>1, <1>2 DEF Good, Shared, Present, Made, Ended
  <2>2. Finalized(s, q, md)
    BY <1>1, <1>2 DEF Good, Shared, Finalized, Made, Ended
  <2>3. Pending(s, c, q, cl, da)
    BY <1>1, <1>2 DEF Good, Shared, Pending, Ended
  <2>4. NamesKept(s, c, q, cl, na)
    BY <1>1, <1>2 DEF Good, Shared, NamesKept, Ended, Synced, Made
  <2>5. Foreign(s, c, q, md, bs)
    BY <1>1, <1>2 DEF Good, Shared, Foreign, Sealed, Sealing, Made, Ended
  <2>6. Excused(s, c, q, bs)
    BY <1>1, <1>2 DEF Good, Shared, Excused
  <2> QED BY <2>1, <2>2, <2>3, <2>4, <2>5, <2>6 DEF Shared
<1> QED BY <1>2, <1>3, <1>4 DEF Good, q

\* A directory is entered.
LEMMA MoveEnter ==
  ASSUME NEW s, NEW c, NEW r, NEW md, NEW cl, NEW da, NEW na, NEW bs,
         Good(s, c, r, md, cl, da, na, bs),
         r.pc = "enter"
  PROVE  Good(s, c, [r EXCEPT !.pc = "walk", !.path = Append(@, r.at)], md, cl, da, na, bs)
<1> DEFINE q == [r EXCEPT !.pc = "walk", !.path = Append(@, r.at)]
<1>1. r \in RunState
  BY DEF Good
<1>2. r.at \in Dirs /\ r.at \notin r.done /\ Parent[r.at] = Stand(r.path) /\ r.path \in Seq(Dirs)
  BY <1>1, FieldsTyped DEF Good, Local, InPlace
<1>3. Append(r.path, r.at) \in Seq(Dirs) /\ Stand(Append(r.path, r.at)) = r.at
  BY <1>2, PathSteps
<1>4. Above[r.at] = {r.at} \cup Above[Stand(r.path)]
  BY <1>2, AboveDir
<1>5. /\ q \in RunState
      /\ q.pc = "walk" /\ q.path = Append(r.path, r.at) /\ q.at = r.at /\ q.done = r.done
      /\ q.files = r.files /\ q.dirs = r.dirs /\ q.sync = r.sync /\ q.bad = r.bad
      /\ q.pin = r.pin /\ q.why = r.why /\ q.need = r.need
  BY <1>1, <1>2, <1>3 DEF RunState, Steps
<1> HIDE DEF q
<1>6. Local(s, c, q)
  <2>1. Chain(q.path)
    BY <1>2, <1>5, ChainAppend DEF Good, Local
  <2>2. InPlace(s, c, q)
    BY <1>1, <1>5 DEF Good, Local, InPlace
  <2>3. Kinds(s, c, q)
    BY <1>1, <1>5 DEF Good, Local, Kinds, Made
  <2>4. Walked(s, c, q)
    BY <1>1, <1>2, <1>3, <1>4, <1>5 DEF Good, Local, Walked, Made, Ended, After, Sealing
  <2>5. Deepest(s, c, q)
    BY <1>1, <1>5 DEF Good, Local, Deepest, Made, Fetched, Walking, Sealing
  <2>6. Batched(s, c, q)
    BY <1>1, <1>5 DEF Good, Local, Batched, Ended, Sealing
  <2> QED BY <2>1, <2>2, <2>3, <2>4, <2>5, <2>6 DEF Local
<1>7. Shared(s, c, q, md, cl, da, na, bs)
  <2>1. Present(q, md, cl)
    BY <1>1, <1>2, <1>3, <1>4, <1>5 DEF Good, Shared, Present, Made, Ended
  <2>2. Finalized(s, q, md)
    BY <1>1, <1>5 DEF Good, Shared, Finalized, Made, Ended
  <2>3. Pending(s, c, q, cl, da)
    BY <1>1, <1>5 DEF Good, Shared, Pending, Ended
  <2>4. NamesKept(s, c, q, cl, na)
    BY <1>1, <1>5 DEF Good, Shared, NamesKept, Ended, Synced, Made
  <2>5. Foreign(s, c, q, md, bs)
    BY <1>1, <1>5 DEF Good, Shared, Foreign, Sealed, Sealing, Made, Ended
  <2>6. Excused(s, c, q, bs)
    BY <1>1, <1>5 DEF Good, Shared, Excused
  <2> QED BY <2>1, <2>2, <2>3, <2>4, <2>5, <2>6 DEF Shared
<1> QED BY <1>5, <1>6, <1>7 DEF Good, q

\* A file is the one that was written, and is synced or remembered.
LEMMA MoveKept ==
  ASSUME NEW s, NEW c, NEW r, NEW md, NEW cl, NEW da, NEW na, NEW bs,
         Good(s, c, r, md, cl, da, na, bs),
         r.pc = "keep", cl[r.at] = c, c # Nobody,
         NEW X \in SUBSET Files, r.files \subseteq X,
         r.at \in da /\ c \in s.durable => r.at \in X
  PROVE  Good(s, c, [r EXCEPT !.pc = "verify", !.files = X],
              md, cl, da, na, bs)
<1> DEFINE q == [r EXCEPT !.pc = "verify", !.files = X]
<1>1. r \in RunState
  BY DEF Good
<1>2. r.at \in Files /\ r.at \notin Dirs /\ r.path \in Seq(Dirs)
  BY <1>1, FieldsTyped, ArchiveAssumption DEF Good, Local, InPlace
<1>3. Above[Stand(r.path)] \subseteq Dirs
  BY <1>2, StandTyped, AboveInDirs
<1>4. /\ q \in RunState
      /\ q.pc = "verify" /\ q.path = r.path /\ q.at = r.at /\ q.done = r.done
      /\ q.files = X /\ q.dirs = r.dirs /\ q.sync = r.sync /\ q.bad = r.bad
      /\ q.pin = r.pin /\ q.why = r.why /\ q.need = r.need
  BY <1>1, <1>2 DEF RunState, Steps
<1> HIDE DEF q
<1>5. Made(q) = Made(r)
  BY <1>2, <1>4 DEF Made
<1>6. Local(s, c, q)
  <2>1. Chain(q.path)
    BY <1>1, <1>4 DEF Good, Local, Chain
  <2>2. InPlace(s, c, q)
    BY <1>1, <1>4 DEF Good, Local, InPlace
  <2>3. Kinds(s, c, q)
    BY <1>1, <1>4, <1>5 DEF Good, Local, Kinds, Made
  <2>4. Walked(s, c, q)
    BY <1>1, <1>2, <1>3, <1>4, <1>5 DEF Good, Local, Walked, Made, Ended, After, Sealing
  <2>5. Deepest(s, c, q)
    BY <1>1, <1>4, <1>5 DEF Good, Local, Deepest, Made, Fetched, Walking, Sealing
  <2>6. Batched(s, c, q)
    BY <1>1, <1>4 DEF Good, Local, Batched, Ended, Sealing
  <2> QED BY <2>1, <2>2, <2>3, <2>4, <2>5, <2>6 DEF Local
<1>7. Shared(s, c, q, md, cl, da, na, bs)
  <2>1. Present(q, md, cl)
    BY <1>1, <1>2, <1>4, <1>5 DEF Good, Shared, Present, Made, Ended
  <2>2. Finalized(s, q, md)
    BY <1>1, <1>4, <1>5 DEF Good, Shared, Finalized, Made, Ended
  <2>3. Pending(s, c, q, cl, da)
    BY <1>1, <1>4 DEF Good, Shared, Pending, Ended
  <2>4. NamesKept(s, c, q, cl, na)
    BY <1>1, <1>4, <1>5 DEF Good, Shared, NamesKept, Ended, Synced, Made
  <2>5. Foreign(s, c, q, md, bs)
    BY <1>1, <1>4, <1>5 DEF Good, Shared, Foreign, Sealed, Sealing, Made, Ended
  <2>6. Excused(s, c, q, bs)
    BY <1>1, <1>4 DEF Good, Shared, Excused
  <2> QED BY <2>1, <2>2, <2>3, <2>4, <2>5, <2>6 DEF Shared
<1> QED BY <1>4, <1>6, <1>7 DEF Good, q

\* A file is published: its entry is done.
LEMMA MoveVerified ==
  ASSUME NEW s, NEW c, NEW r, NEW md, NEW cl, NEW da, NEW na, NEW bs,
         Good(s, c, r, md, cl, da, na, bs),
         r.pc = "verify"
  PROVE  Good(s, c, [r EXCEPT !.pc = "walk", !.done = @ \cup {r.at}],
              md, cl, da, na, bs)
<1> DEFINE q == [r EXCEPT !.pc = "walk", !.done = @ \cup {r.at}]
<1>1. r \in RunState
  BY DEF Good
<1>2. r.at \in Files /\ r.at \notin Dirs /\ r.path \in Seq(Dirs)
  BY <1>1, FieldsTyped, ArchiveAssumption DEF Good, Local, InPlace
<1>3. Above[Stand(r.path)] \subseteq Dirs
  BY <1>2, StandTyped, AboveInDirs
<1>4. /\ q \in RunState
      /\ q.pc = "walk" /\ q.path = r.path /\ q.at = r.at /\ q.done = r.done \cup {r.at}
      /\ q.files = r.files /\ q.dirs = r.dirs /\ q.sync = r.sync /\ q.bad = r.bad
      /\ q.pin = r.pin /\ q.why = r.why /\ q.need = r.need
  BY <1>1, <1>2 DEF RunState, Steps
<1> HIDE DEF q
<1>5. Made(q) = Made(r)
  BY <1>2, <1>4 DEF Made
<1>6. Local(s, c, q)
  <2>1. Chain(q.path)
    BY <1>1, <1>4 DEF Good, Local, Chain
  <2>2. InPlace(s, c, q)
    BY <1>1, <1>4 DEF Good, Local, InPlace
  <2>3. Kinds(s, c, q)
    BY <1>1, <1>4, <1>5 DEF Good, Local, Kinds, Made
  <2>4. Walked(s, c, q)
    BY <1>1, <1>2, <1>3, <1>4, <1>5 DEF Good, Local, Walked, Made, Ended, After, Sealing
  <2>5. Deepest(s, c, q)
    BY <1>1, <1>4, <1>5 DEF Good, Local, Deepest, Made, Fetched, Walking, Sealing
  <2>6. Batched(s, c, q)
    BY <1>1, <1>4 DEF Good, Local, Batched, Ended, Sealing
  <2> QED BY <2>1, <2>2, <2>3, <2>4, <2>5, <2>6 DEF Local
<1>7. Shared(s, c, q, md, cl, da, na, bs)
  <2>1. Present(q, md, cl)
    BY <1>1, <1>2, <1>4, <1>5 DEF Good, Shared, Present, Made, Ended
  <2>2. Finalized(s, q, md)
    BY <1>1, <1>4, <1>5 DEF Good, Shared, Finalized, Made, Ended
  <2>3. Pending(s, c, q, cl, da)
    BY <1>1, <1>4 DEF Good, Shared, Pending, Ended
  <2>4. NamesKept(s, c, q, cl, na)
    BY <1>1, <1>4, <1>5 DEF Good, Shared, NamesKept, Ended, Synced, Made
  <2>5. Foreign(s, c, q, md, bs)
    BY <1>1, <1>4, <1>5 DEF Good, Shared, Foreign, Sealed, Sealing, Made, Ended
  <2>6. Excused(s, c, q, bs)
    BY <1>1, <1>4 DEF Good, Shared, Excused
  <2> QED BY <2>1, <2>2, <2>3, <2>4, <2>5, <2>6 DEF Shared
<1> QED BY <1>4, <1>6, <1>7 DEF Good, q

\* An extraction leaves a directory.
LEMMA MoveUp ==
  ASSUME NEW s, NEW c, NEW r, NEW md, NEW cl, NEW da, NEW na, NEW bs,
         Good(s, c, r, md, cl, da, na, bs),
         r.pc = "walk", c \notin s.merge, NEW d \in Dirs,
         d = Stand(r.path), Children(d) \subseteq r.done
  PROVE  Good(s, c, [r EXCEPT !.path = Front(@), !.done = @ \cup {d}, !.dirs = @ \cup {d}],
              md, cl, da, na, bs)
<1> DEFINE q == [r EXCEPT !.path = Front(@), !.done = @ \cup {d}, !.dirs = @ \cup {d}]
<1>1. r \in RunState
  BY DEF Good
<1>2. r.path \in Seq(Dirs) /\ r.path # <<>>
  BY <1>1, FieldsTyped, ArchiveAssumption DEF Stand
<1>3. Front(r.path) \in Seq(Dirs) /\ Chain(Front(r.path)) /\ Stand(Front(r.path)) = Parent[d]
  BY <1>2, ChainFront DEF Good, Local
<1>4. Above[d] = {d} \cup Above[Parent[d]] /\ d \notin Above[Parent[d]]
  BY AboveEnter
<1>5. /\ q \in RunState
      /\ q.pc = r.pc /\ q.path = Front(r.path) /\ q.at = r.at /\ q.done = r.done \cup {d}
      /\ q.files = r.files /\ q.dirs = r.dirs \cup {d} /\ q.sync = r.sync /\ q.bad = r.bad
      /\ q.pin = r.pin /\ q.why = r.why /\ q.need = r.need
  BY <1>1, <1>2, <1>3 DEF RunState, Steps
<1> HIDE DEF q
<1>6. Made(q) = Made(r) \cup {d} /\ Made(r) \subseteq r.dirs
  BY <1>5 DEF Good, Local, Deepest, Fetched, Walking, Made
<1>7. q.done \cap Files = r.done \cap Files
  BY <1>5, ArchiveAssumption
<1>8. Local(s, c, q)
  <2>1. Chain(q.path)
    BY <1>3, <1>5
  <2>2. InPlace(s, c, q)
    BY <1>1, <1>5 DEF Good, Local, InPlace
  <2>3. Kinds(s, c, q)
    BY <1>1, <1>5, <1>6 DEF Good, Local, Kinds, Made
  <2>4. Walked(s, c, q)
    BY <1>1, <1>3, <1>4, <1>5, <1>6 DEF Good, Local, Walked, Made, Ended, After, Sealing
  <2>5. Deepest(s, c, q)
    BY <1>1, <1>5, <1>6 DEF Good, Local, Deepest, Made, Fetched, Walking, Sealing
  <2>6. Batched(s, c, q)
    BY <1>1, <1>5 DEF Good, Local, Batched, Ended, Sealing
  <2> QED BY <2>1, <2>2, <2>3, <2>4, <2>5, <2>6 DEF Local
<1>9. Shared(s, c, q, md, cl, da, na, bs)
  <2>1. Present(q, md, cl)
    BY <1>1, <1>3, <1>4, <1>5, <1>6, <1>7 DEF Good, Shared, Present, Made, Ended
  <2>2. Finalized(s, q, md)
    BY <1>1, <1>5, <1>6 DEF Good, Shared, Finalized, Made, Ended
  <2>3. Pending(s, c, q, cl, da)
    BY <1>1, <1>5 DEF Good, Shared, Pending, Ended
  <2>4. NamesKept(s, c, q, cl, na)
    BY <1>1, <1>5, <1>6 DEF Good, Shared, NamesKept, Ended, Synced, Made
  <2>5. Foreign(s, c, q, md, bs)
    BY <1>1, <1>5, <1>6 DEF Good, Shared, Foreign, Sealed, Sealing, Made, Ended
  <2>6. Excused(s, c, q, bs)
    BY <1>1, <1>5 DEF Good, Shared, Excused
  <2> QED BY <2>1, <2>2, <2>3, <2>4, <2>5, <2>6 DEF Shared
<1> QED BY <1>5, <1>8, <1>9 DEF Good, q

\* A merge is about to give a directory its mode.
LEMMA MoveMode ==
  ASSUME NEW s, NEW c, NEW r, NEW md, NEW cl, NEW da, NEW na, NEW bs,
         Good(s, c, r, md, cl, da, na, bs),
         r.pc = "walk", c \in s.merge, c \notin s.durable, NEW d \in Dirs,
         d = Stand(r.path), Children(d) \subseteq r.done
  PROVE  Good(s, c, [r EXCEPT !.pc = "chmod", !.at = d], md, cl, da, na, bs)
<1> DEFINE q == [r EXCEPT !.pc = "chmod", !.at = d]
<1>1. r \in RunState
  BY DEF Good
<1>2. r.path # <<>>
  BY ArchiveAssumption DEF Stand
<1>3. /\ q \in RunState
      /\ q.pc = "chmod" /\ q.path = r.path /\ q.at = d /\ q.done = r.done
      /\ q.files = r.files /\ q.dirs = r.dirs /\ q.sync = r.sync /\ q.bad = r.bad
      /\ q.pin = r.pin /\ q.why = r.why /\ q.need = r.need
  BY <1>1 DEF RunState, Steps
<1> HIDE DEF q
<1>4. Local(s, c, q)
  <2>1. Chain(q.path)
    BY <1>1, <1>3 DEF Good, Local, Chain
  <2>2. InPlace(s, c, q)
    BY <1>1, <1>2, <1>3 DEF Good, Local, InPlace
  <2>3. Kinds(s, c, q)
    BY <1>1, <1>3 DEF Good, Local, Kinds, Made
  <2>4. Walked(s, c, q)
    BY <1>1, <1>3 DEF Good, Local, Walked, Made, Ended, After, Sealing
  <2>5. Deepest(s, c, q)
    BY <1>1, <1>3 DEF Good, Local, Deepest, Made, Fetched, Walking, Sealing
  <2>6. Batched(s, c, q)
    BY <1>1, <1>3 DEF Good, Local, Batched, Ended, Sealing
  <2> QED BY <2>1, <2>2, <2>3, <2>4, <2>5, <2>6 DEF Local
<1>5. Shared(s, c, q, md, cl, da, na, bs)
  <2>1. Present(q, md, cl)
    BY <1>1, <1>3 DEF Good, Shared, Present, Made, Ended
  <2>2. Finalized(s, q, md)
    BY <1>1, <1>3 DEF Good, Shared, Finalized, Made, Ended
  <2>3. Pending(s, c, q, cl, da)
    BY <1>1, <1>3 DEF Good, Shared, Pending, Ended
  <2>4. NamesKept(s, c, q, cl, na)
    BY <1>1, <1>3 DEF Good, Shared, NamesKept, Ended, Synced, Made
  <2>5. Foreign(s, c, q, md, bs)
    BY <1>1, <1>3 DEF Good, Shared, Foreign, Sealed, Sealing, Made, Ended
  <2>6. Excused(s, c, q, bs)
    BY <1>1, <1>3 DEF Good, Shared, Excused
  <2> QED BY <2>1, <2>2, <2>3, <2>4, <2>5, <2>6 DEF Shared
<1> QED BY <1>3, <1>4, <1>5 DEF Good, q

\* A merge leaves a directory that has its mode.
LEMMA MoveMerged ==
  ASSUME NEW s, NEW c, NEW r, NEW md, NEW cl, NEW da, NEW na, NEW bs,
         Good(s, c, r, md, cl, da, na, bs),
         r.pc = "verifyMode", c \in s.merge, c \notin s.durable, NEW o \in s.calls,
         md[r.at] = s.mode[o][r.at]
  PROVE  Good(s, c, [r EXCEPT !.pc = "walk", !.path = Front(@), !.done = @ \cup {r.at}],
              md, cl, da, na, bs)
<1> DEFINE q == [r EXCEPT !.pc = "walk", !.path = Front(@), !.done = @ \cup {r.at}]
<1>1. r \in RunState
  BY DEF Good
<1>2. /\ r.path \in Seq(Dirs) /\ r.at = Stand(r.path) /\ Children(r.at) \subseteq r.done
      /\ r.at \in Dirs /\ r.dirs = {} /\ Chain(r.path)
  <2>1. /\ r.path \in Seq(Dirs) /\ r.path # <<>> /\ r.at = Stand(r.path) /\ Chain(r.path)
        /\ Children(r.at) \subseteq r.done /\ r.dirs = {}
    BY <1>1, FieldsTyped DEF Good, Local, InPlace, Kinds
  <2>2. Len(r.path) \in 1..Len(r.path)
    BY <2>1, EmptySeq
  <2> QED BY <2>1, <2>2 DEF Stand, Last
<1>3. Front(r.path) \in Seq(Dirs) /\ Chain(Front(r.path)) /\ Stand(Front(r.path)) = Parent[r.at]
  BY <1>2, ChainFront
<1>4. Above[r.at] = {r.at} \cup Above[Parent[r.at]] /\ r.at \notin Above[Parent[r.at]]
  BY <1>2, AboveEnter
<1>5. /\ q \in RunState
      /\ q.pc = "walk" /\ q.path = Front(r.path) /\ q.at = r.at /\ q.done = r.done \cup {r.at}
      /\ q.files = r.files /\ q.dirs = r.dirs /\ q.sync = r.sync /\ q.bad = r.bad
      /\ q.pin = r.pin /\ q.why = r.why /\ q.need = r.need
  BY <1>1, <1>2, <1>3 DEF RunState, Steps
<1> HIDE DEF q
<1>6. Made(q) = Made(r) \cup {r.at}
  BY <1>2, <1>5 DEF Made
<1>7. q.done \cap Files = r.done \cap Files
  BY <1>2, <1>5, ArchiveAssumption
<1>8. Local(s, c, q)
  <2>1. Chain(q.path)
    BY <1>3, <1>5
  <2>2. InPlace(s, c, q)
    BY <1>1, <1>5 DEF Good, Local, InPlace
  <2>3. Kinds(s, c, q)
    BY <1>1, <1>2, <1>5, <1>6 DEF Good, Local, Kinds, Made
  <2>4. Walked(s, c, q)
    BY <1>1, <1>2, <1>3, <1>4, <1>5, <1>6 DEF Good, Local, Walked, Made, Ended, After, Sealing
  <2>5. Deepest(s, c, q)
    BY <1>1, <1>5, <1>6 DEF Good, Local, Deepest, Made, Fetched, Walking, Sealing
  <2>6. Batched(s, c, q)
    BY <1>1, <1>5 DEF Good, Local, Batched, Ended, Sealing
  <2> QED BY <2>1, <2>2, <2>3, <2>4, <2>5, <2>6 DEF Local
<1>9. Shared(s, c, q, md, cl, da, na, bs)
  <2>1. Present(q, md, cl)
    BY <1>1, <1>2, <1>3, <1>4, <1>5, <1>6, <1>7 DEF Good, Shared, Present, Made, Ended
  <2>2. Finalized(s, q, md)
    BY <1>1, <1>2, <1>5, <1>6 DEF Good, Shared, Finalized, Made, Ended
  <2>3. Pending(s, c, q, cl, da)
    BY <1>1, <1>5 DEF Good, Shared, Pending, Ended
  <2>4. NamesKept(s, c, q, cl, na)
    BY <1>1, <1>5, <1>6 DEF Good, Shared, NamesKept, Ended, Synced, Made
  <2>5. Foreign(s, c, q, md, bs)
    BY <1>1, <1>2, <1>5, <1>6 DEF Good, Shared, Foreign, Sealed, Sealing, Made, Ended
  <2>6. Excused(s, c, q, bs)
    BY <1>1, <1>5 DEF Good, Shared, Excused
  <2> QED BY <2>1, <2>2, <2>3, <2>4, <2>5, <2>6 DEF Shared
<1> QED BY <1>5, <1>8, <1>9 DEF Good, q

\* The walk is over.
LEMMA MoveWalked ==
  ASSUME NEW s, NEW c, NEW r, NEW md, NEW cl, NEW da, NEW na, NEW bs,
         Good(s, c, r, md, cl, da, na, bs),
         r.pc = "walk", Stand(r.path) = Root, Children(Root) \subseteq r.done, NEW v,
         c \in s.merge => c \notin s.durable,
         v = IF c \in s.merge THEN "end" ELSE "files"
  PROVE  Good(s, c, [r EXCEPT !.pc = v], md, cl, da, na, bs)
<1> DEFINE q == [r EXCEPT !.pc = v]
<1>1. r \in RunState
  BY DEF Good
<1>2. Dirs \cup Files \subseteq r.done
  BY AllReached DEF Good, Local, Walked, Made
<1>3. /\ q \in RunState
      /\ q.pc = v /\ q.path = r.path /\ q.at = r.at /\ q.done = r.done
      /\ q.files = r.files /\ q.dirs = r.dirs /\ q.sync = r.sync /\ q.bad = r.bad
      /\ q.pin = r.pin /\ q.why = r.why /\ q.need = r.need
  BY <1>1 DEF RunState, Steps
<1> HIDE DEF q
<1>4. Local(s, c, q)
  <2>1. Chain(q.path)
    BY <1>1, <1>3 DEF Good, Local, Chain
  <2>2. InPlace(s, c, q)
    BY <1>1, <1>3 DEF Good, Local, InPlace
  <2>3. Kinds(s, c, q)
    BY <1>1, <1>3 DEF Good, Local, Kinds, Made
  <2>4. Walked(s, c, q)
    BY <1>1, <1>2, <1>3 DEF Good, Local, Walked, Made, Ended, After, Sealing
  <2>5. Deepest(s, c, q)
    BY <1>1, <1>3 DEF Good, Local, Deepest, Made, Fetched, Walking, Sealing
  <2>6. Batched(s, c, q)
    BY <1>1, <1>3 DEF Good, Local, Batched, Ended, Sealing
  <2> QED BY <2>1, <2>2, <2>3, <2>4, <2>5, <2>6 DEF Local
<1>5. Shared(s, c, q, md, cl, da, na, bs)
  <2>1. Present(q, md, cl)
    BY <1>1, <1>3 DEF Good, Shared, Present, Made, Ended
  <2>2. Finalized(s, q, md)
    BY <1>1, <1>3 DEF Good, Shared, Finalized, Made, Ended
  <2>3. Pending(s, c, q, cl, da)
    BY <1>1, <1>3 DEF Good, Shared, Pending, Ended
  <2>4. NamesKept(s, c, q, cl, na)
    BY <1>1, <1>3 DEF Good, Shared, NamesKept, Ended, Synced, Made
  <2>5. Foreign(s, c, q, md, bs)
    BY <1>1, <1>3 DEF Good, Shared, Foreign, Sealed, Sealing, Made, Ended
  <2>6. Excused(s, c, q, bs)
    BY <1>1, <1>3 DEF Good, Shared, Excused
  <2> QED BY <2>1, <2>2, <2>3, <2>4, <2>5, <2>6 DEF Shared
<1> QED BY <1>3, <1>4, <1>5 DEF Good, q

\* A batch of file syncs starts.
LEMMA MoveBatch ==
  ASSUME NEW s, NEW c, NEW r, NEW md, NEW cl, NEW da, NEW na, NEW bs,
         Good(s, c, r, md, cl, da, na, bs),
         r.pc = "files", NEW b \in SUBSET r.files
  PROVE  Good(s, c, [r EXCEPT !.pc = "batch", !.files = @ \ b, !.sync = [f \in b |-> "open"]],
              md, cl, da, na, bs)
<1> DEFINE q == [r EXCEPT !.pc = "batch", !.files = @ \ b, !.sync = [f \in b |-> "open"]]
<1>1. r \in RunState
  BY DEF Good
<1>2. r.files \in SUBSET Files
  BY <1>1, FieldsTyped
<1>3. r.sync = <<>> /\ r.bad = {}
  BY DEF Good, Local, Batched, Ended
<1>4. [f \in b |-> "open"] \in Syncs
  <2>1. [f \in b |-> "open"] \in [b -> {"open", "sync", "look", "done"}]
    OBVIOUS
  <2>2. b \in SUBSET Files
    BY <1>2
  <2> QED BY <2>1, <2>2 DEF Syncs
<1>5. /\ q \in RunState
      /\ q.pc = "batch" /\ q.path = r.path /\ q.at = r.at /\ q.done = r.done
      /\ q.files = r.files \ b /\ q.dirs = r.dirs /\ q.sync = [f \in b |-> "open"] /\ q.bad = r.bad
      /\ q.pin = r.pin /\ q.why = r.why /\ q.need = r.need
  BY <1>1, <1>2, <1>4 DEF RunState, Steps
<1> HIDE DEF q
<1>6. Local(s, c, q)
  <2>1. Chain(q.path)
    BY <1>1, <1>5 DEF Good, Local, Chain
  <2>2. InPlace(s, c, q)
    BY <1>1, <1>5 DEF Good, Local, InPlace
  <2>3. Kinds(s, c, q)
    BY <1>1, <1>5 DEF Good, Local, Kinds, Made
  <2>4. Walked(s, c, q)
    BY <1>1, <1>5 DEF Good, Local, Walked, Made, Ended, After, Sealing
  <2>5. Deepest(s, c, q)
    BY <1>1, <1>5 DEF Good, Local, Deepest, Made, Fetched, Walking, Sealing
  <2>6. Batched(s, c, q)
    BY <1>1, <1>5 DEF Good, Local, Batched, Ended, Sealing
  <2> QED BY <2>1, <2>2, <2>3, <2>4, <2>5, <2>6 DEF Local
<1>7. Shared(s, c, q, md, cl, da, na, bs)
  <2>1. Present(q, md, cl)
    BY <1>1, <1>5 DEF Good, Shared, Present, Made, Ended
  <2>2. Finalized(s, q, md)
    BY <1>1, <1>5 DEF Good, Shared, Finalized, Made, Ended
  <2>3. Pending(s, c, q, cl, da)
    <3>1. SUFFICES ASSUME c \in s.durable, NEW f \in da, cl[f] = c, f \notin q.files
                   PROVE  f \in DOMAIN q.sync /\ q.sync[f] = "open"
      BY DEF Pending
    <3>2. f \in r.files
      BY <1>3, <3>1 DEF Good, Shared, Pending, Ended
    <3>3. f \in b
      BY <1>5, <3>1, <3>2
    <3> QED BY <1>5, <3>3
  <2>4. NamesKept(s, c, q, cl, na)
    BY <1>1, <1>5 DEF Good, Shared, NamesKept, Ended, Synced, Made
  <2>5. Foreign(s, c, q, md, bs)
    BY <1>1, <1>5 DEF Good, Shared, Foreign, Sealed, Sealing, Made, Ended
  <2>6. Excused(s, c, q, bs)
    BY <1>1, <1>5 DEF Good, Shared, Excused
  <2> QED BY <2>1, <2>2, <2>3, <2>4, <2>5, <2>6 DEF Shared
<1> QED BY <1>5, <1>6, <1>7 DEF Good, q

\* A step of one file sync, and perhaps its failure.
LEMMA MoveSync ==
  ASSUME NEW s, NEW c, NEW r, NEW md, NEW cl, NEW da, NEW na, NEW bs,
         Good(s, c, r, md, cl, da, na, bs),
         r.pc = "batch", NEW f \in DOMAIN r.sync, NEW v, NEW B \in SUBSET Faults,
         v \in {"sync", "look", "done"}, r.bad \subseteq B,
         \/ v = "sync" /\ r.sync[f] = "open"
         \/ r.sync[f] \notin {"open", "sync"} \/ B # {} \/ f \notin da \/ cl[f] # c,
         \A x \in B \ r.bad : x.why = "denied" => Excuse(s, c, x.need[1], x.need[2], bs)
  PROVE  Good(s, c, [r EXCEPT !.sync = [@ EXCEPT ![f] = v], !.bad = B], md, cl, da, na, bs)
<1> DEFINE q == [r EXCEPT !.sync = [@ EXCEPT ![f] = v], !.bad = B]
<1>1. r \in RunState
  BY DEF Good
<1>2. [r.sync EXCEPT ![f] = v] \in Syncs
  <2>1. r.sync \in Syncs /\ r.sync # <<>>
    BY <1>1, FieldsTyped
  <2>2. PICK b \in SUBSET Files : r.sync \in [b -> {"open", "sync", "look", "done"}]
    BY <2>1 DEF Syncs
  <2>3. [r.sync EXCEPT ![f] = v] \in [b -> {"open", "sync", "look", "done"}]
    BY <2>2
  <2> QED BY <2>3 DEF Syncs
<1>3. /\ q \in RunState
      /\ q.pc = r.pc /\ q.path = r.path /\ q.at = r.at /\ q.done = r.done
      /\ q.files = r.files /\ q.dirs = r.dirs /\ q.sync = [r.sync EXCEPT ![f] = v] /\ q.bad = B
      /\ q.pin = r.pin /\ q.why = r.why /\ q.need = r.need
  BY <1>1, <1>2 DEF RunState, Steps
<1> HIDE DEF q
<1>4. Local(s, c, q)
  <2>1. Chain(q.path)
    BY <1>1, <1>3 DEF Good, Local, Chain
  <2>2. InPlace(s, c, q)
    BY <1>1, <1>3 DEF Good, Local, InPlace
  <2>3. Kinds(s, c, q)
    BY <1>1, <1>3 DEF Good, Local, Kinds, Made
  <2>4. Walked(s, c, q)
    BY <1>1, <1>3 DEF Good, Local, Walked, Made, Ended, After, Sealing
  <2>5. Deepest(s, c, q)
    BY <1>1, <1>3 DEF Good, Local, Deepest, Made, Fetched, Walking, Sealing
  <2>6. Batched(s, c, q)
    BY <1>1, <1>3 DEF Good, Local, Batched, Ended, Sealing
  <2> QED BY <2>1, <2>2, <2>3, <2>4, <2>5, <2>6 DEF Local
<1>5. Shared(s, c, q, md, cl, da, na, bs)
  <2>1. Present(q, md, cl)
    BY <1>1, <1>3 DEF Good, Shared, Present, Made, Ended
  <2>2. Finalized(s, q, md)
    BY <1>1, <1>3 DEF Good, Shared, Finalized, Made, Ended
  <2>3. Pending(s, c, q, cl, da)
    BY <1>1, <1>3 DEF Good, Shared, Pending, Ended
  <2>4. NamesKept(s, c, q, cl, na)
    BY <1>1, <1>3 DEF Good, Shared, NamesKept, Ended, Synced, Made
  <2>5. Foreign(s, c, q, md, bs)
    BY <1>1, <1>3 DEF Good, Shared, Foreign, Sealed, Sealing, Made, Ended
  <2>6. Excused(s, c, q, bs)
    BY <1>1, <1>3 DEF Good, Shared, Excused
  <2> QED BY <2>1, <2>2, <2>3, <2>4, <2>5, <2>6 DEF Shared
<1> QED BY <1>3, <1>4, <1>5 DEF Good, q

\* A batch went well.
LEMMA MoveBatched ==
  ASSUME NEW s, NEW c, NEW r, NEW md, NEW cl, NEW da, NEW na, NEW bs,
         Good(s, c, r, md, cl, da, na, bs),
         r.pc = "batch", r.bad = {}, \A f \in DOMAIN r.sync : r.sync[f] = "done"
  PROVE  Good(s, c, [r EXCEPT !.pc = "files", !.sync = <<>>], md, cl, da, na, bs)
<1> DEFINE q == [r EXCEPT !.pc = "files", !.sync = <<>>]
<1>1. r \in RunState
  BY DEF Good
<1>2. /\ q \in RunState
      /\ q.pc = "files" /\ q.path = r.path /\ q.at = r.at /\ q.done = r.done
      /\ q.files = r.files /\ q.dirs = r.dirs /\ q.sync = <<>> /\ q.bad = r.bad
      /\ q.pin = r.pin /\ q.why = r.why /\ q.need = r.need
  BY <1>1 DEF RunState, Steps, Syncs
<1> HIDE DEF q
<1>3. Local(s, c, q)
  <2>1. Chain(q.path)
    BY <1>1, <1>2 DEF Good, Local, Chain
  <2>2. InPlace(s, c, q)
    BY <1>1, <1>2 DEF Good, Local, InPlace
  <2>3. Kinds(s, c, q)
    BY <1>1, <1>2 DEF Good, Local, Kinds, Made
  <2>4. Walked(s, c, q)
    BY <1>1, <1>2 DEF Good, Local, Walked, Made, Ended, After, Sealing
  <2>5. Deepest(s, c, q)
    BY <1>1, <1>2 DEF Good, Local, Deepest, Made, Fetched, Walking, Sealing
  <2>6. Batched(s, c, q)
    BY <1>1, <1>2 DEF Good, Local, Batched, Ended, Sealing
  <2> QED BY <2>1, <2>2, <2>3, <2>4, <2>5, <2>6 DEF Local
<1>4. Shared(s, c, q, md, cl, da, na, bs)
  <2>1. Present(q, md, cl)
    BY <1>1, <1>2 DEF Good, Shared, Present, Made, Ended
  <2>2. Finalized(s, q, md)
    BY <1>1, <1>2 DEF Good, Shared, Finalized, Made, Ended
  <2>3. Pending(s, c, q, cl, da)
    BY <1>1, <1>2 DEF Good, Shared, Pending, Ended
  <2>4. NamesKept(s, c, q, cl, na)
    BY <1>1, <1>2 DEF Good, Shared, NamesKept, Ended, Synced, Made
  <2>5. Foreign(s, c, q, md, bs)
    BY <1>1, <1>2 DEF Good, Shared, Foreign, Sealed, Sealing, Made, Ended
  <2>6. Excused(s, c, q, bs)
    BY <1>1, <1>2 DEF Good, Shared, Excused
  <2> QED BY <2>1, <2>2, <2>3, <2>4, <2>5, <2>6 DEF Shared
<1> QED BY <1>2, <1>3, <1>4 DEF Good, q

\* A batch failed.
LEMMA MoveBatchUnwind ==
  ASSUME NEW s, NEW c, NEW r, NEW md, NEW cl, NEW da, NEW na, NEW bs,
         Good(s, c, r, md, cl, da, na, bs),
         r.pc = "batch", NEW w \in Reasons, NEW n \in Needs,
         w = "denied" => Excuse(s, c, n[1], n[2], bs)
  PROVE  Good(s, c, [r EXCEPT !.pc = "unwind", !.sync = <<>>, !.why = w, !.need = n],
              md, cl, da, na, bs)
<1> DEFINE q == [r EXCEPT !.pc = "unwind", !.sync = <<>>, !.why = w, !.need = n]
<1>1. r \in RunState
  BY DEF Good
<1>2. /\ q \in RunState
      /\ q.pc = "unwind" /\ q.path = r.path /\ q.at = r.at /\ q.done = r.done
      /\ q.files = r.files /\ q.dirs = r.dirs /\ q.sync = <<>> /\ q.bad = r.bad
      /\ q.pin = r.pin /\ q.why = w /\ q.need = n
  BY <1>1 DEF RunState, Steps, Syncs
<1> HIDE DEF q
<1>3. Local(s, c, q)
  <2>1. Chain(q.path)
    BY <1>1, <1>2 DEF Good, Local, Chain
  <2>2. InPlace(s, c, q)
    BY <1>1, <1>2 DEF Good, Local, InPlace
  <2>3. Kinds(s, c, q)
    BY <1>1, <1>2 DEF Good, Local, Kinds, Made
  <2>4. Walked(s, c, q)
    BY <1>1, <1>2 DEF Good, Local, Walked, Made, Ended, After, Sealing
  <2>5. Deepest(s, c, q)
    BY <1>1, <1>2 DEF Good, Local, Deepest, Made, Fetched, Walking, Sealing
  <2>6. Batched(s, c, q)
    BY <1>1, <1>2 DEF Good, Local, Batched, Ended, Sealing
  <2> QED BY <2>1, <2>2, <2>3, <2>4, <2>5, <2>6 DEF Local
<1>4. Shared(s, c, q, md, cl, da, na, bs)
  <2>1. Present(q, md, cl)
    BY <1>1, <1>2 DEF Good, Shared, Present, Made, Ended
  <2>2. Finalized(s, q, md)
    BY <1>1, <1>2 DEF Good, Shared, Finalized, Made, Ended
  <2>3. Pending(s, c, q, cl, da)
    BY <1>1, <1>2 DEF Good, Shared, Pending, Ended
  <2>4. NamesKept(s, c, q, cl, na)
    BY <1>1, <1>2 DEF Good, Shared, NamesKept, Ended, Synced, Made
  <2>5. Foreign(s, c, q, md, bs)
    BY <1>1, <1>2 DEF Good, Shared, Foreign, Sealed, Sealing, Made, Ended
  <2>6. Excused(s, c, q, bs)
    BY <1>1, <1>2 DEF Good, Shared, Excused
  <2> QED BY <2>1, <2>2, <2>3, <2>4, <2>5, <2>6 DEF Shared
<1> QED BY <1>2, <1>3, <1>4 DEF Good, q

\* A step that goes on, after the files.
LEMMA MoveLate ==
  ASSUME NEW s, NEW c, NEW r, NEW md, NEW cl, NEW da, NEW na, NEW bs,
         Good(s, c, r, md, cl, da, na, bs),
         NEW v,
         \/ r.pc = "files" /\ v = "dirs" /\ r.files = {}
         \/ r.pc = "dirs" /\ v = "syncRoot" /\ r.dirs = {}
         \/ r.pc = "dirs" /\ v = "end" /\ r.dirs = {} /\ c \notin s.durable
         \/ r.pc = "syncRoot" /\ v = "end" /\ Children(Root) \cap na = {}
         \/ r.pc = "chmod" /\ v = "verifyMode"
         \/ r.pc = "verifyMode" /\ v = "syncDir" /\ c \notin s.merge
            /\ \E o \in s.calls : md[r.at] = s.mode[o][r.at]
  PROVE  Good(s, c, [r EXCEPT !.pc = v], md, cl, da, na, bs)
<1> DEFINE q == [r EXCEPT !.pc = v]
<1>1. r \in RunState
  BY DEF Good
<1>2. \A e \in Dirs : Above[e] \subseteq Dirs
  BY AboveInDirs
<1>3. /\ q \in RunState
      /\ q.pc = v /\ q.path = r.path /\ q.at = r.at /\ q.done = r.done
      /\ q.files = r.files /\ q.dirs = r.dirs /\ q.sync = r.sync /\ q.bad = r.bad
      /\ q.pin = r.pin /\ q.why = r.why /\ q.need = r.need
  BY <1>1 DEF RunState, Steps
<1> HIDE DEF q
<1>4. Local(s, c, q)
  <2>1. Chain(q.path)
    BY <1>1, <1>3 DEF Good, Local, Chain
  <2>2. InPlace(s, c, q)
    BY <1>1, <1>3 DEF Good, Local, InPlace
  <2>3. Kinds(s, c, q)
    BY <1>1, <1>3 DEF Good, Local, Kinds, Made
  <2>4. Walked(s, c, q)
    BY <1>1, <1>3 DEF Good, Local, Walked, Made, Ended, After, Sealing
  <2>5. Deepest(s, c, q)
    BY <1>1, <1>2, <1>3, FieldsTyped
       DEF Good, Local, Deepest, Made, Fetched, Walking, Sealing, Walked, After, Kinds
  <2>6. Batched(s, c, q)
    BY <1>1, <1>3 DEF Good, Local, Batched, Ended, Sealing
  <2> QED BY <2>1, <2>2, <2>3, <2>4, <2>5, <2>6 DEF Local
<1>5. Shared(s, c, q, md, cl, da, na, bs)
  <2>1. Present(q, md, cl)
    BY <1>1, <1>3 DEF Good, Shared, Present, Made, Ended
  <2>2. Finalized(s, q, md)
    BY <1>1, <1>3 DEF Good, Shared, Finalized, Made, Ended
  <2>3. Pending(s, c, q, cl, da)
    BY <1>1, <1>3 DEF Good, Shared, Pending, Ended
  <2>4. NamesKept(s, c, q, cl, na)
    BY <1>1, <1>3 DEF Good, Shared, NamesKept, Ended, Synced, Made
  <2>5. Foreign(s, c, q, md, bs)
    BY <1>1, <1>3 DEF Good, Shared, Foreign, Sealed, Sealing, Made, Ended
  <2>6. Excused(s, c, q, bs)
    BY <1>1, <1>3 DEF Good, Shared, Excused
  <2> QED BY <2>1, <2>2, <2>3, <2>4, <2>5, <2>6 DEF Shared
<1> QED BY <1>3, <1>4, <1>5 DEF Good, q

\* A directory is pinned, the deepest that is left.
LEMMA MovePin ==
  ASSUME NEW s, NEW c, NEW r, NEW md, NEW cl, NEW da, NEW na, NEW bs,
         Good(s, c, r, md, cl, da, na, bs),
         r.pc = "dirs", NEW d \in r.dirs, \A e \in r.dirs : Depth(e) <= Depth(d),
         NEW x \in BOOLEAN, c \in s.durable /\ ~x => "r" \notin md[d]
  PROVE  Good(s, c, [r EXCEPT !.pc = "chmod", !.at = d, !.pin = x], md, cl, da, na, bs)
<1> DEFINE q == [r EXCEPT !.pc = "chmod", !.at = d, !.pin = x]
<1>1. r \in RunState
  BY DEF Good
<1>2. r.dirs \subseteq Dirs /\ c \notin s.merge /\ d \in Made(r) /\ d \notin Sealed(r)
  BY <1>1, FieldsTyped DEF Good, Local, Kinds, Sealed, Sealing
<1>3. \A e \in r.dirs \ {d} : d \notin Above[e]
  <2> SUFFICES ASSUME NEW e \in r.dirs \ {d}, d \in Above[e]
               PROVE  FALSE
    OBVIOUS
  <2>1. e \in Dirs /\ d \in Above[Parent[e]]
    BY <1>2, AboveDir
  <2>2. Depth(d) < Depth(e) /\ Depth(d) \in Nat /\ Depth(e) \in Nat
    BY <2>1, DepthGrows
  <2>3. Depth(e) <= Depth(d)
    OBVIOUS
  <2> QED BY <2>2, <2>3
<1>4. c \in s.durable /\ ~x => Excuse(s, c, d, {"r"}, bs)
  <2> SUFFICES ASSUME "r" \notin md[d]
               PROVE  Excuse(s, c, d, {"r"}, bs)
    OBVIOUS
  <2>1. md[d] # Absent
    BY <1>2 DEF Good, Shared, Present, Ended
  <2>2. \/ md[d] = s.old[d]
        \/ \E o \in s.calls \ {c} : o \in bs /\ md[d] = s.mode[o][d]
    BY <1>2 DEF Good, Shared, Foreign, Ended, Made
  <2> QED BY <2>1, <2>2 DEF Excuse, Lacks
<1>5. /\ q \in RunState
      /\ q.pc = "chmod" /\ q.path = r.path /\ q.at = d /\ q.done = r.done
      /\ q.files = r.files /\ q.dirs = r.dirs /\ q.sync = r.sync /\ q.bad = r.bad
      /\ q.pin = x /\ q.why = r.why /\ q.need = r.need
  BY <1>1, <1>2 DEF RunState, Steps
<1> HIDE DEF q
<1>6. Local(s, c, q)
  <2>1. Chain(q.path)
    BY <1>1, <1>5 DEF Good, Local, Chain
  <2>2. InPlace(s, c, q)
    BY <1>1, <1>2, <1>5 DEF Good, Local, InPlace
  <2>3. Kinds(s, c, q)
    BY <1>1, <1>5 DEF Good, Local, Kinds, Made
  <2>4. Walked(s, c, q)
    BY <1>1, <1>5 DEF Good, Local, Walked, Made, Ended, After, Sealing
  <2>5. Deepest(s, c, q)
    BY <1>1, <1>3, <1>5 DEF Good, Local, Deepest, Made, Fetched, Walking, Sealing
  <2>6. Batched(s, c, q)
    BY <1>1, <1>5 DEF Good, Local, Batched, Ended, Sealing
  <2> QED BY <2>1, <2>2, <2>3, <2>4, <2>5, <2>6 DEF Local
<1>7. Shared(s, c, q, md, cl, da, na, bs)
  <2>1. Present(q, md, cl)
    BY <1>1, <1>5 DEF Good, Shared, Present, Made, Ended
  <2>2. Finalized(s, q, md)
    BY <1>1, <1>5 DEF Good, Shared, Finalized, Made, Ended
  <2>3. Pending(s, c, q, cl, da)
    BY <1>1, <1>5 DEF Good, Shared, Pending, Ended
  <2>4. NamesKept(s, c, q, cl, na)
    BY <1>1, <1>5 DEF Good, Shared, NamesKept, Ended, Synced, Made
  <2>5. Foreign(s, c, q, md, bs)
    BY <1>1, <1>5 DEF Good, Shared, Foreign, Sealed, Sealing, Made, Ended
  <2>6. Excused(s, c, q, bs)
    BY <1>1, <1>4, <1>5 DEF Good, Shared, Excused
  <2> QED BY <2>1, <2>2, <2>3, <2>4, <2>5, <2>6 DEF Shared
<1> QED BY <1>5, <1>6, <1>7 DEF Good, q

\* A directory is finalized.
LEMMA MoveFinal ==
  ASSUME NEW s, NEW c, NEW r, NEW md, NEW cl, NEW da, NEW na, NEW bs,
         Good(s, c, r, md, cl, da, na, bs),
         c \notin s.merge, \E o \in s.calls : md[r.at] = s.mode[o][r.at],
         \/ r.pc = "verifyMode" /\ c \notin s.durable
         \/ r.pc = "syncDir" /\ Children(r.at) \cap na = {}
  PROVE  Good(s, c, [r EXCEPT !.pc = "dirs", !.dirs = @ \ {r.at}], md, cl, da, na, bs)
<1> DEFINE q == [r EXCEPT !.pc = "dirs", !.dirs = @ \ {r.at}]
<1>1. r \in RunState
  BY DEF Good
<1>2. r.at \in r.dirs /\ r.dirs \subseteq Made(r)
  BY DEF Good, Local, Deepest, Kinds, Sealing
<1>3. /\ q \in RunState
      /\ q.pc = "dirs" /\ q.path = r.path /\ q.at = r.at /\ q.done = r.done
      /\ q.files = r.files /\ q.dirs = r.dirs \ {r.at} /\ q.sync = r.sync /\ q.bad = r.bad
      /\ q.pin = r.pin /\ q.why = r.why /\ q.need = r.need
  BY <1>1 DEF RunState, Steps
<1> HIDE DEF q
<1>4. Local(s, c, q)
  <2>1. Chain(q.path)
    BY <1>1, <1>3 DEF Good, Local, Chain
  <2>2. InPlace(s, c, q)
    BY <1>1, <1>3 DEF Good, Local, InPlace
  <2>3. Kinds(s, c, q)
    BY <1>1, <1>3 DEF Good, Local, Kinds, Made
  <2>4. Walked(s, c, q)
    BY <1>1, <1>3 DEF Good, Local, Walked, Made, Ended, After, Sealing
  <2>5. Deepest(s, c, q)
    BY <1>1, <1>3 DEF Good, Local, Deepest, Made, Fetched, Walking, Sealing
  <2>6. Batched(s, c, q)
    BY <1>1, <1>3 DEF Good, Local, Batched, Ended, Sealing
  <2> QED BY <2>1, <2>2, <2>3, <2>4, <2>5, <2>6 DEF Local
<1>5. Shared(s, c, q, md, cl, da, na, bs)
  <2>1. Present(q, md, cl)
    BY <1>1, <1>3 DEF Good, Shared, Present, Made, Ended
  <2>2. Finalized(s, q, md)
    BY <1>1, <1>2, <1>3 DEF Good, Shared, Finalized, Made, Ended
  <2>3. Pending(s, c, q, cl, da)
    BY <1>1, <1>3 DEF Good, Shared, Pending, Ended
  <2>4. NamesKept(s, c, q, cl, na)
    BY <1>1, <1>2, <1>3 DEF Good, Shared, NamesKept, Ended, Synced, Made
  <2>5. Foreign(s, c, q, md, bs)
    BY <1>1, <1>2, <1>3 DEF Good, Shared, Foreign, Sealed, Sealing, Made, Ended
  <2>6. Excused(s, c, q, bs)
    BY <1>1, <1>3 DEF Good, Shared, Excused
  <2> QED BY <2>1, <2>2, <2>3, <2>4, <2>5, <2>6 DEF Shared
<1> QED BY <1>3, <1>4, <1>5 DEF Good, q

\* The extraction resolves.
LEMMA MoveResolved ==
  ASSUME NEW s, NEW c, NEW r, NEW md, NEW cl, NEW da, NEW na, NEW bs,
         Good(s, c, r, md, cl, da, na, bs),
         r.pc = "end", c \in s.merge => c \notin s.durable
  PROVE  Good(s, c, [Idle EXCEPT !.pc = "resolved", !.done = r.done], md, cl, da, na, bs)
<1> DEFINE q == [Idle EXCEPT !.pc = "resolved", !.done = r.done]
<1>1. r \in RunState
  BY DEF Good
<1>2. r.done \in SUBSET (Dirs \cup Files) /\ r.dirs = {} /\ r.bad = {} /\ r.sync = <<>>
  BY <1>1, FieldsTyped DEF Good, Local, Kinds, Batched, Ended
<1>3. Above[Stand(<<>>)] = {}
  BY AboveRoot DEF Stand
<1>4. /\ q \in RunState
      /\ q.pc = "resolved" /\ q.path = <<>> /\ q.at = Nothing /\ q.done = r.done
      /\ q.files = {} /\ q.dirs = {} /\ q.sync = <<>> /\ q.bad = {}
      /\ q.pin = FALSE /\ q.why = "none" /\ q.need = <<>>
  <2>1. q \in RunState
    BY <1>1, <1>2, IdleTyped, FieldUpdates, FieldsTyped DEF Steps
  <2> QED BY <2>1, IdleTyped DEF Idle, RunState
<1> HIDE DEF q
<1>5. Local(s, c, q)
  <2>1. Chain(q.path)
    BY <1>1, <1>4 DEF Good, Local, Chain
  <2>2. InPlace(s, c, q)
    BY <1>1, <1>4 DEF Good, Local, InPlace
  <2>3. Kinds(s, c, q)
    BY <1>1, <1>4 DEF Good, Local, Kinds, Made
  <2>4. Walked(s, c, q)
    BY <1>1, <1>3, <1>4 DEF Good, Local, Walked, Made, Ended, After, Sealing
  <2>5. Deepest(s, c, q)
    BY <1>1, <1>4 DEF Good, Local, Deepest, Made, Fetched, Walking, Sealing
  <2>6. Batched(s, c, q)
    BY <1>1, <1>4 DEF Good, Local, Batched, Ended, Sealing
  <2> QED BY <2>1, <2>2, <2>3, <2>4, <2>5, <2>6 DEF Local
<1>6. Shared(s, c, q, md, cl, da, na, bs)
  <2>1. Present(q, md, cl)
    BY <1>1, <1>3, <1>4 DEF Good, Shared, Present, Made, Ended
  <2>2. Finalized(s, q, md)
    BY <1>1, <1>2, <1>4 DEF Good, Shared, Finalized, Made, Ended
  <2>3. Pending(s, c, q, cl, da)
    BY <1>1, <1>2, <1>4 DEF Good, Shared, Pending, Ended, Local, Batched
  <2>4. NamesKept(s, c, q, cl, na)
    BY <1>1, <1>2, <1>4 DEF Good, Shared, NamesKept, Ended, Synced, Made
  <2>5. Foreign(s, c, q, md, bs)
    BY <1>1, <1>4 DEF Good, Shared, Foreign, Sealed, Sealing, Made, Ended
  <2>6. Excused(s, c, q, bs)
    BY <1>1, <1>4 DEF Good, Shared, Excused
  <2> QED BY <2>1, <2>2, <2>3, <2>4, <2>5, <2>6 DEF Shared
<1> QED BY <1>4, <1>5, <1>6 DEF Good, q

\* It rejects.
LEMMA MoveRejected ==
  ASSUME NEW s, NEW c, NEW r, NEW md, NEW cl, NEW da, NEW na, NEW bs,
         Good(s, c, r, md, cl, da, na, bs),
         r.pc = "unwind"
  PROVE  Good(s, c, [Idle EXCEPT !.pc = "rejected", !.why = r.why, !.need = r.need],
              md, cl, da, na, bs)
<1> DEFINE q == [Idle EXCEPT !.pc = "rejected", !.why = r.why, !.need = r.need]
<1>1. r \in RunState
  BY DEF Good
<1>2. /\ q \in RunState
      /\ q.pc = "rejected" /\ q.path = <<>> /\ q.at = Nothing /\ q.done = {}
      /\ q.files = {} /\ q.dirs = {} /\ q.sync = <<>> /\ q.bad = {}
      /\ q.pin = FALSE /\ q.why = r.why /\ q.need = r.need
  <2>1. q \in RunState
    BY <1>1, IdleTyped, FieldUpdates, FieldsTyped DEF Steps
  <2> QED BY <2>1, IdleTyped DEF Idle, RunState
<1> HIDE DEF q
<1>3. Local(s, c, q)
  <2>1. Chain(q.path)
    BY <1>1, <1>2 DEF Good, Local, Chain
  <2>2. InPlace(s, c, q)
    BY <1>1, <1>2 DEF Good, Local, InPlace
  <2>3. Kinds(s, c, q)
    BY <1>1, <1>2 DEF Good, Local, Kinds, Made
  <2>4. Walked(s, c, q)
    BY <1>1, <1>2 DEF Good, Local, Walked, Made, Ended, After, Sealing
  <2>5. Deepest(s, c, q)
    BY <1>1, <1>2 DEF Good, Local, Deepest, Made, Fetched, Walking, Sealing
  <2>6. Batched(s, c, q)
    BY <1>1, <1>2 DEF Good, Local, Batched, Ended, Sealing
  <2> QED BY <2>1, <2>2, <2>3, <2>4, <2>5, <2>6 DEF Local
<1>4. Shared(s, c, q, md, cl, da, na, bs)
  <2>1. Present(q, md, cl)
    BY <1>1, <1>2 DEF Good, Shared, Present, Made, Ended
  <2>2. Finalized(s, q, md)
    BY <1>1, <1>2 DEF Good, Shared, Finalized, Made, Ended
  <2>3. Pending(s, c, q, cl, da)
    BY <1>1, <1>2 DEF Good, Shared, Pending, Ended
  <2>4. NamesKept(s, c, q, cl, na)
    BY <1>1, <1>2 DEF Good, Shared, NamesKept, Ended, Synced, Made
  <2>5. Foreign(s, c, q, md, bs)
    BY <1>1, <1>2 DEF Good, Shared, Foreign, Sealed, Sealing, Made, Ended
  <2>6. Excused(s, c, q, bs)
    BY <1>1, <1>2 DEF Good, Shared, Excused
  <2> QED BY <2>1, <2>2, <2>3, <2>4, <2>5, <2>6 DEF Shared
<1> QED BY <1>2, <1>3, <1>4 DEF Good, q

-----------------------------------------------------------------------------
(* What a step does to the destination, and what it leaves true of every   *)
(* call, those that step and those that do not.                            *)

Begun == {o \in Calls : run[o].pc # "idle"}

Sound == \A c \in Calls : Good(setup, c, run[c], mode, cell, data, names, Begun)

\* The destination has changed, and no call yet.
Ready == \A c \in Calls : Good(setup, c, run[c], mode', cell', data', names', Begun)

DestTyped ==
  /\ mode \in [Dirs -> {Absent} \cup Modes] /\ cell \in [Files -> Calls \cup {Nobody}]
  /\ data \in SUBSET Files /\ names \in SUBSET (Dirs \cup Files)

LEMMA SetupTyped ==
  ASSUME setup \in Setups
  PROVE  /\ setup \in Setup /\ setup.merge \cap (setup.timed \cup setup.durable) = {}
         /\ setup.calls \in SUBSET Calls
         /\ setup.old \in [Dirs -> {Absent} \cup Modes]
         /\ \A o \in Calls, d \in Dirs : Final(o, d) = setup.mode[o][d] /\ Final(o, d) \in Modes
<1>1. setup \in Setup /\ setup.merge \cap (setup.timed \cup setup.durable) = {}
  BY ArchiveAssumption
<1> QED BY <1>1 DEF Setup, Final

LEMMA AllOpen == {"r", "w", "x"} \in Modes /\ \A m \in Modes : m # Absent
  BY ArchiveAssumption DEF Modes

LEMMA Quiet ==
  ASSUME Sound, DestTyped, UNCHANGED dest
  PROVE  Ready /\ DestTyped'
<1>1. mode' = mode /\ cell' = cell /\ data' = data /\ names' = names
  BY DEF dest
<1> QED BY <1>1 DEF Sound, Ready, DestTyped

\* A file sync, or a directory sync: data or names reach stable storage.
LEMMA Flushed ==
  ASSUME Sound, DestTyped, mode' = mode, cell' = cell, data' \subseteq data, names' \subseteq names
  PROVE  Ready /\ DestTyped'
<1>1. DestTyped'
  BY DEF DestTyped
<1>2. ASSUME NEW c \in Calls
      PROVE  Good(setup, c, run[c], mode', cell', data', names', Begun)
  <2>1. Good(setup, c, run[c], mode, cell, data, names, Begun)
    BY DEF Sound
  <2>2. Pending(setup, c, run[c], cell', data')
    BY <2>1 DEF Good, Shared, Pending
  <2>3. NamesKept(setup, c, run[c], cell', names')
    BY <2>1 DEF Good, Shared, NamesKept
  <2> QED BY <2>1, <2>2, <2>3 DEF Good, Shared
<1> QED BY <1>1, <1>2 DEF Ready

LEMMA DirectoryMade ==
  ASSUME Sound, DestTyped, NEW d \in Dirs, mode[d] = Absent,
         mode' = [mode EXCEPT ![d] = {"r", "w", "x"}], names' = names \cup {d},
         cell' = cell, data' = data
  PROVE  Ready /\ DestTyped'
<1>1. DestTyped'
  BY AllOpen DEF DestTyped
<1>2. \A x \in Dirs : mode'[x] = IF x = d THEN {"r", "w", "x"} ELSE mode[x]
  BY DEF DestTyped
<1>3. ASSUME NEW c \in Calls
      PROVE  Good(setup, c, run[c], mode', cell', data', names', Begun)
  <2> DEFINE r == run[c]
  <2>1. Good(setup, c, r, mode, cell, data, names, Begun) /\ r \in RunState
    BY DEF Sound, Good
  <2>2. r.path \in Seq(Dirs) /\ Made(r) \subseteq Dirs /\ Above[Stand(r.path)] \subseteq Dirs
    BY <2>1, FieldsTyped, StandTyped, AboveInDirs DEF Made
  <2> HIDE DEF r
  <2>3. r.pc \notin Ended => d \notin Made(r)
    BY <2>1 DEF Good, Shared, Present
  <2>4. Present(r, mode', cell')
    <3>1. r.pc = "enter" => r.at \in Dirs
      BY <2>1 DEF Good, Local, InPlace
    <3> QED BY <1>2, <2>1, <2>2, <3>1, AllOpen DEF Good, Shared, Present
  <2>5. Finalized(setup, r, mode')
    <3>1. r.pc = "syncDir" => r.at \in Made(r)
      BY <2>1 DEF Good, Local, Deepest, Kinds, Sealing
    <3>2. r.pc \notin Ended =>
            \A x \in (Made(r) \ r.dirs) \cup (IF r.pc = "syncDir" THEN {r.at} ELSE {}) :
              mode'[x] = mode[x]
      BY <1>2, <2>2, <2>3, <3>1
    <3> QED BY <2>1, <3>2 DEF Good, Shared, Finalized
  <2>6. NamesKept(setup, c, r, cell', names')
    <3>1. ASSUME r.pc \notin Ended, c \in setup.durable, NEW p \in Synced(r), d \in Children(p)
          PROVE  FALSE
      <4>1. CASE p \in Made(r)
        <5>1. d \in r.done
          BY <2>1, <3>1, <4>1 DEF Good, Local, Walked
        <5> QED BY <2>3, <3>1, <5>1 DEF Made
      <4>2. CASE r.pc \in {"end", "resolved"}
        <5>1. d \in r.done
          BY <2>1, <4>2 DEF Good, Local, Walked, After
        <5> QED BY <2>3, <3>1, <5>1 DEF Made
      <4> QED BY <3>1, <4>1, <4>2 DEF Synced
    <3> QED BY <2>1, <3>1 DEF Good, Shared, NamesKept
  <2>7. Foreign(setup, c, r, mode', Begun)
    BY <1>2, <2>1 DEF Good, Shared, Foreign
  <2>8. Good(setup, c, r, mode', cell', data', names', Begun)
    BY <2>1, <2>4, <2>5, <2>6, <2>7 DEF Good, Shared
  <2> QED BY <2>8 DEF r
<1> QED BY <1>1, <1>3 DEF Ready

LEMMA FilePublished ==
  ASSUME Sound, DestTyped, setup \in Setups, NEW o \in Calls, NEW f \in Files,
         run[o].pc = "rename", run[o].at = f,
         cell' = [cell EXCEPT ![f] = o], data' \subseteq data \cup {f},
         names' \subseteq names \cup {f}, mode' = mode
  PROVE  Ready /\ DestTyped'
<1>1. DestTyped'
  BY DEF DestTyped
<1>2. \A x \in Files : cell'[x] = IF x = f THEN o ELSE cell[x]
  BY DEF DestTyped
<1>3. ASSUME NEW c \in Calls
      PROVE  Good(setup, c, run[c], mode', cell', data', names', Begun)
  <2> DEFINE r == run[c]
  <2>1. Good(setup, c, r, mode, cell, data, names, Begun) /\ r \in RunState
    BY DEF Sound, Good
  <2>2. c = o => r.pc = "rename" /\ r.at = f
    OBVIOUS
  <2> HIDE DEF r
  <2>3. o # Nobody
    BY ArchiveAssumption
  <2>4. Present(r, mode', cell')
    BY <1>2, <2>1, <2>3 DEF Good, Shared, Present
  <2>5. Pending(setup, c, r, cell', data')
    <3>1. data \subseteq Files
      BY DEF DestTyped
    <3> QED BY <1>2, <2>1, <2>2, <3>1 DEF Good, Shared, Pending
  <2>6. NamesKept(setup, c, r, cell', names')
    <3>1. CASE c = o
      <4>1. c \in setup.durable => Synced(r) = {}
        <5>1. c \in setup.durable => c \notin setup.merge
          BY SetupTyped
        <5> QED BY <2>1, <2>2, <3>1, <5>1 DEF Good, Local, Deepest, Synced, Fetched, Walking
      <4> QED BY <4>1 DEF NamesKept
    <3>2. CASE c # o
      BY <1>2, <2>1, <3>2 DEF Good, Shared, NamesKept
    <3> QED BY <3>1, <3>2
  <2>7. Good(setup, c, r, mode', cell', data', names', Begun)
    BY <2>1, <2>4, <2>5, <2>6 DEF Good, Shared
  <2> QED BY <2>7 DEF r
<1> QED BY <1>1, <1>3 DEF Ready

LEMMA ModeApplied ==
  ASSUME Sound, DestTyped, setup \in Setups, NEW o \in Calls, NEW d \in Dirs,
         run[o].pc = "chmod", run[o].at = d, mode' = [mode EXCEPT ![d] = Final(o, d)],
         cell' = cell, data' = data, names' = names
  PROVE  Ready /\ DestTyped'
<1>1. Final(o, d) = setup.mode[o][d] /\ Final(o, d) \in Modes
  BY SetupTyped
<1>2. DestTyped'
  BY <1>1 DEF DestTyped
<1>3. \A x \in Dirs : mode'[x] = IF x = d THEN setup.mode[o][d] ELSE mode[x]
  BY <1>1 DEF DestTyped
<1>4. o \in setup.calls /\ o \in Begun
  BY DEF Sound, Good, Local, Kinds, Begun
<1>5. ASSUME NEW c \in Calls
      PROVE  Good(setup, c, run[c], mode', cell', data', names', Begun)
  <2> DEFINE r == run[c]
  <2>1. Good(setup, c, r, mode, cell, data, names, Begun) /\ r \in RunState
    BY DEF Sound, Good
  <2>2. r.path \in Seq(Dirs) /\ Made(r) \subseteq Dirs /\ Above[Stand(r.path)] \subseteq Dirs
    BY <2>1, FieldsTyped, StandTyped, AboveInDirs DEF Made
  <2>3. c = o => d \in Sealed(r)
    BY DEF Sealed, Sealing
  <2> HIDE DEF r
  <2>4. Present(r, mode', cell')
    <3>1. r.pc = "enter" => r.at \in Dirs
      BY <2>1 DEF Good, Local, InPlace
    <3> QED BY <1>1, <1>3, <2>1, <2>2, <3>1, AllOpen DEF Good, Shared, Present
  <2>5. Finalized(setup, r, mode')
    <3>1. r.pc = "syncDir" => r.at \in Dirs
      BY <2>1, <2>2 DEF Good, Local, Deepest, Kinds, Sealing
    <3>2. \A x \in Dirs : (\E k \in setup.calls : mode[x] = setup.mode[k][x])
                           => \E k \in setup.calls : mode'[x] = setup.mode[k][x]
      BY <1>3, <1>4
    <3> QED BY <2>1, <2>2, <3>1, <3>2 DEF Good, Shared, Finalized
  <2>6. Foreign(setup, c, r, mode', Begun)
    BY <1>3, <1>4, <2>1, <2>3 DEF Good, Shared, Foreign
  <2>7. Good(setup, c, r, mode', cell', data', names', Begun)
    BY <2>1, <2>4, <2>5, <2>6 DEF Good, Shared
  <2> QED BY <2>7 DEF r
<1> QED BY <1>2, <1>5 DEF Ready

\* More calls begin.
LEMMA BegunGrows ==
  ASSUME NEW s, NEW c, NEW r, NEW md, NEW cl, NEW da, NEW na, NEW bs, NEW more,
         Good(s, c, r, md, cl, da, na, bs), bs \subseteq more
  PROVE  Good(s, c, r, md, cl, da, na, more)
<1>1. Foreign(s, c, r, md, more)
  BY DEF Good, Shared, Foreign
<1>2. Excused(s, c, r, more)
  <2>1. \A d, need : Excuse(s, c, d, need, bs) => Excuse(s, c, d, need, more)
    BY DEF Excuse
  <2> QED BY <2>1 DEF Good, Shared, Excused
<1> QED BY <1>1, <1>2 DEF Good, Shared

\* Then a call moves.
LEMMA Moved ==
  ASSUME Ready, run \in RunStates, setup' = setup, NEW c \in Calls, NEW q, Set(c, q),
         Good(setup, c, q, mode', cell', data', names', Begun), q.pc # "idle"
  PROVE  Sound' /\ run' \in RunStates
<1>1. q \in RunState
  BY DEF Good
<1>2. run' \in RunStates /\ run'[c] = q /\ \A o \in Calls \ {c} : run'[o] = run[o]
  BY <1>1, SetTyped
<1>3. Begun \subseteq Begun'
  BY <1>2 DEF Begun
<1>4. ASSUME NEW o \in Calls
      PROVE  Good(setup', o, run'[o], mode', cell', data', names', Begun')
  <2>1. Good(setup, o, run'[o], mode', cell', data', names', Begun)
    BY <1>2 DEF Ready
  <2>2. Good(setup, o, run'[o], mode', cell', data', names', Begun')
    BY <1>3, <2>1, BegunGrows
  <2> QED BY <2>2
<1> QED BY <1>2, <1>4 DEF Sound

-----------------------------------------------------------------------------
(* The invariant, and the steps that end an extraction.                    *)

Inv == setup \in Setups /\ DestTyped /\ run \in RunStates /\ Sound

LEMMA Known ==
  ASSUME Inv, NEW c \in Calls
  PROVE  /\ run[c] \in RunState /\ Good(setup, c, run[c], mode, cell, data, names, Begun)
         /\ Cur(c) = Stand(run[c].path) /\ Cur(c) \in Dirs \cup {Root}
         /\ Children(Cur(c)) \ run[c].done = Left(c)
  BY CurStand, StandTyped, FieldsTyped DEF Inv, Sound, Good, Left

LEMMA Advance ==
  ASSUME Inv, Ready, DestTyped', setup' = setup, NEW c \in Calls, NEW q, Set(c, q),
         Good(setup, c, q, mode', cell', data', names', Begun), q.pc # "idle"
  PROVE  Inv'
  BY Moved DEF Inv

\* What a call misses is not its own doing, if it did not apply its mode there.
LEMMA NotItsOwn ==
  ASSUME NEW s, NEW c, NEW r, NEW md, NEW cl, NEW da, NEW na, NEW bs,
         Good(s, c, r, md, cl, da, na, bs), r.pc \notin Ended,
         NEW a \in Dirs \ Sealed(r), md[a] # Absent,
         NEW need \in SUBSET {"r", "w", "x"}, ~(need \subseteq md[a])
  PROVE  Excuse(s, c, a, need, bs)
<1>1. \/ md[a] = s.old[a] \/ md[a] = {"r", "w", "x"}
      \/ \E o \in s.calls \ {c} : o \in bs /\ md[a] = s.mode[o][a]
  BY DEF Good, Shared, Foreign
<1> QED BY <1>1 DEF Excuse, Lacks

LEMMA UnwindStep ==
  ASSUME Inv, NEW c \in Calls, run[c].pc \notin {"idle", "batch"},
         NEW w \in Reasons \ {"denied"}, Unwind(c, w), setup' = setup, UNCHANGED dest
  PROVE  Inv'
<1>1. run[c] \in RunState /\ Ready /\ DestTyped'
  BY Known, Quiet DEF Inv
<1>2. run[c].need \in Needs
  BY <1>1, FieldsTyped
<1> DEFINE q == [run[c] EXCEPT !.pc = "unwind", !.why = w, !.need = run[c].need]
<1>3. Good(setup, c, q, mode', cell', data', names', Begun)
  <2>1. Good(setup, c, run[c], mode', cell', data', names', Begun)
    BY <1>1 DEF Ready
  <2> QED BY <1>2, <2>1, MoveUnwind
<1>4. [run[c] EXCEPT !.pc = "unwind", !.why = w] = q /\ q.pc = "unwind"
  BY <1>1 DEF RunState
<1>5. Set(c, q)
  BY <1>4 DEF Unwind
<1> HIDE DEF q
<1> QED BY <1>1, <1>3, <1>4, <1>5, Advance

LEMMA ExpiredStep ==
  ASSUME Inv, NEW c \in Calls, run[c].pc \notin {"idle", "batch"}, Expired(c)
  PROVE  Inv'
  BY UnwindStep DEF Expired, Reasons

LEMMA BreaksStep ==
  ASSUME Inv, NEW c \in Calls, run[c].pc \notin {"idle", "batch"}, Breaks(c, "error")
  PROVE  Inv'
  BY UnwindStep DEF Breaks, Reasons

LEMMA DeniedStep ==
  ASSUME Inv, NEW c \in Calls, run[c].pc \notin {"idle", "batch"}, NEW n \in Needs,
         Excuse(setup, c, n[1], n[2], Begun), Denied(c, n)
  PROVE  Inv'
<1>1. run[c] \in RunState /\ Ready /\ DestTyped' /\ setup' = setup
  BY Known, Quiet DEF Inv, Denied
<1> DEFINE q == [run[c] EXCEPT !.pc = "unwind", !.why = "denied", !.need = n]
<1>2. Good(setup, c, q, mode', cell', data', names', Begun)
  <2>1. Good(setup, c, run[c], mode', cell', data', names', Begun)
    BY <1>1 DEF Ready
  <2> QED BY <2>1, MoveUnwind DEF Reasons
<1>3. q.pc = "unwind"
  BY <1>1 DEF RunState
<1>4. Set(c, q)
  BY DEF Denied
<1> HIDE DEF q
<1> QED BY <1>1, <1>2, <1>3, <1>4, Advance

\* The directories above d are there, and none has its mode from this call.
Clear(c, d) ==
  run[c].pc \notin Ended /\ \A a \in Above[d] : a \in Dirs \ Sealed(run[c]) /\ mode[a] # Absent

LEMMA NeedTyped ==
  ASSUME NEW a \in Dirs \cup {Root}, NEW need \in SUBSET {"r", "w", "x"}
  PROVE  <<a, need>> \in Needs /\ <<a, need>>[1] = a /\ <<a, need>>[2] = need
  BY DEF Needs

LEMMA ClosedExcuse ==
  ASSUME Inv, NEW c \in Calls, NEW d, Clear(c, d), NEW a \in Shut(d)
  PROVE  Excuse(setup, c, a, {"x"}, Begun) /\ a \in Dirs
<1>1. a \in Dirs \ Sealed(run[c]) /\ mode[a] # Absent /\ ~({"x"} \subseteq mode[a])
  BY DEF Clear, Shut
<1> QED BY <1>1, Known, NotItsOwn DEF Clear

LEMMA UnreachableStep ==
  ASSUME Inv, NEW c \in Calls, run[c].pc \notin {"idle", "batch"}, NEW d, Clear(c, d),
         Unreachable(c, d)
  PROVE  Inv'
<1>1. PICK a \in Shut(d) : Denied(c, <<a, {"x"}>>)
  BY DEF Unreachable
<1>2. Excuse(setup, c, a, {"x"}, Begun) /\ a \in Dirs
  BY ClosedExcuse
<1>3. <<a, {"x"}>> \in Needs /\ <<a, {"x"}>>[1] = a /\ <<a, {"x"}>>[2] = {"x"}
  BY <1>2, NeedTyped
<1> DEFINE n == <<a, {"x"}>>
<1>4. n \in Needs /\ Excuse(setup, c, n[1], n[2], Begun) /\ Denied(c, n)
  BY <1>1, <1>2, <1>3
<1> HIDE DEF n
<1> QED BY <1>4, DeniedStep

LEMMA UnwritableStep ==
  ASSUME Inv, NEW c \in Calls, run[c].pc \notin {"idle", "batch"}, Clear(c, Cur(c)),
         Unwritable(c, Cur(c))
  PROVE  Inv'
<1>1. CASE Unreachable(c, Cur(c))
  BY <1>1, UnreachableStep
<1>2. CASE "w" \notin Mode(Cur(c)) /\ Denied(c, <<Cur(c), {"w"}>>)
  <2> DEFINE d == Cur(c)
  <2>1. d \in Dirs /\ d \in Above[d] /\ "w" \notin mode[d]
    BY <1>2, Known, AboveDir DEF Mode
  <2>2. d \in Dirs \ Sealed(run[c]) /\ mode[d] # Absent /\ ~({"w"} \subseteq mode[d])
    BY <2>1 DEF Clear
  <2> HIDE DEF d
  <2>3. Excuse(setup, c, d, {"w"}, Begun)
    BY <2>2, Known, NotItsOwn DEF Clear
  <2>4. <<d, {"w"}>> \in Needs /\ <<d, {"w"}>>[1] = d /\ <<d, {"w"}>>[2] = {"w"}
    BY <2>1, NeedTyped
  <2> DEFINE n == <<d, {"w"}>>
  <2>5. n \in Needs /\ Excuse(setup, c, n[1], n[2], Begun) /\ Denied(c, n)
    BY <1>2, <2>3, <2>4 DEF d
  <2> HIDE DEF n
  <2> QED BY <2>5, DeniedStep
<1> QED BY <1>1, <1>2 DEF Unwritable

\* A call walks below directories whose mode is still to come.
LEMMA ClearPath ==
  ASSUME Inv, NEW c \in Calls, run[c].pc \notin Ended \cup Sealing
  PROVE  Clear(c, Cur(c))
<1>1. /\ run[c] \in RunState /\ Good(setup, c, run[c], mode, cell, data, names, Begun)
      /\ Cur(c) = Stand(run[c].path) /\ Cur(c) \in Dirs \cup {Root}
  BY Known
<1>2. Above[Cur(c)] \subseteq Dirs
  BY <1>1, AboveInDirs
<1>3. Above[Cur(c)] \cap run[c].done = {} /\ \A d \in Above[Cur(c)] : mode[d] # Absent
  BY <1>1 DEF Good, Local, Shared, Walked, Present
<1> QED BY <1>2, <1>3 DEF Clear, Sealed, Made

\* It finalizes a directory before those above it.
LEMMA ClearAbove ==
  ASSUME Inv, NEW c \in Calls, NEW d \in Dirs,
         \/ run[c].pc = "dirs" /\ d \in run[c].dirs
         \/ run[c].pc = "verifyMode" /\ d = run[c].at
  PROVE  Clear(c, Parent[d])
<1>1. /\ run[c] \in RunState /\ Good(setup, c, run[c], mode, cell, data, names, Begun)
      /\ Cur(c) = Stand(run[c].path) /\ run[c].pc \notin Ended
  BY Known DEF Ended
<1>2. Above[d] = {d} \cup Above[Parent[d]] /\ d \notin Above[Parent[d]] /\ Above[d] \subseteq Dirs
  BY AboveEnter, AboveInDirs
<1>3. CASE c \in setup.merge
  <2>1. run[c].pc = "verifyMode" /\ d = run[c].at /\ d = Stand(run[c].path)
    BY <1>1, <1>3 DEF Good, Local, Kinds, InPlace
  <2>2. Above[d] \cap run[c].done = {} /\ \A a \in Above[d] : mode[a] # Absent
    BY <1>1, <2>1 DEF Good, Local, Shared, Walked, Present
  <2> QED BY <1>1, <1>2, <2>1, <2>2 DEF Clear, Sealed, Made
<1>4. CASE c \notin setup.merge
  <2>1. d \in run[c].dirs /\ Above[d] \subseteq run[c].dirs /\ run[c].dirs \subseteq Made(run[c])
    BY <1>1, <1>4 DEF Good, Local, Deepest, Kinds, Sealing
  <2>2. \A a \in Above[d] : mode[a] # Absent
    BY <1>1, <2>1 DEF Good, Shared, Present
  <2> QED BY <1>1, <1>2, <2>1, <2>2 DEF Clear, Sealed, Sealing
<1> QED BY <1>3, <1>4

\* While files are synced no directory has its final mode.
LEMMA ClearBatch ==
  ASSUME Inv, NEW c \in Calls, run[c].pc = "batch", NEW f \in Files
  PROVE  Clear(c, Parent[f])
<1>1. /\ run[c] \in RunState /\ Good(setup, c, run[c], mode, cell, data, names, Begun)
      /\ run[c].pc \notin Ended
  BY Known DEF Ended
<1>2. Above[Parent[f]] \subseteq Dirs
  BY ParentOf, AboveInDirs
<1>3. c \notin setup.merge /\ Made(run[c]) = Dirs /\ Made(run[c]) \subseteq run[c].dirs
  BY <1>1 DEF Good, Local, Kinds, Walked, After, Deepest, Fetched, Made
<1>4. \A a \in Dirs : mode[a] # Absent
  BY <1>1, <1>3 DEF Good, Shared, Present
<1> QED BY <1>1, <1>2, <1>3, <1>4 DEF Clear, Sealed, Sealing

-----------------------------------------------------------------------------
(* The steps of the walk.                                                  *)

\* A step that changes nothing but where the call is.
LEMMA QuietMove ==
  ASSUME Inv, NEW c \in Calls, UNCHANGED dest, Rest(c), NEW q, Set(c, q), q.pc # "idle",
         Ready /\ DestTyped' => Good(setup, c, q, mode', cell', data', names', Begun)
  PROVE  Inv'
<1>1. Ready /\ DestTyped' /\ setup' = setup
  BY Quiet DEF Inv, Rest
<1> QED BY <1>1, Advance

LEMMA ReadyCall ==
  ASSUME Ready, NEW c \in Calls
  PROVE  Good(setup, c, run[c], mode', cell', data', names', Begun)
  BY DEF Ready

LEMMA NextPc == \A r \in RunState, v \in Steps : [r EXCEPT !.pc = v].pc = v
  BY DEF RunState

LEMMA CallStep ==
  ASSUME Inv, NEW c \in Calls, Call(c)
  PROVE  Inv'
<1> DEFINE v == IF c \in setup.merge THEN "walk" ELSE "stage"
           q == [run[c] EXCEPT !.pc = v]
<1>1. v \in {"walk", "stage"} /\ Set(c, q) /\ UNCHANGED dest /\ Rest(c)
      /\ run[c].pc = "idle" /\ c \in setup.calls
  BY DEF Call, Go, At
<1>2. q.pc = v
  BY <1>1, Known, NextPc DEF Steps
<1> HIDE DEF v
<1>3. Ready => Good(setup, c, q, mode', cell', data', names', Begun)
  BY <1>1, ReadyCall, MoveOn
<1> HIDE DEF q
<1> QED BY <1>1, <1>2, <1>3, QuietMove

LEMMA StageStep ==
  ASSUME Inv, NEW c \in Calls, Stage(c)
  PROVE  Inv'
<1>1. run[c].pc = "stage" /\ c \in setup.calls
  BY Known DEF Stage, At, Good, Local, Kinds
<1>2. CASE Expired(c)
  BY <1>1, <1>2, ExpiredStep
<1>3. CASE Breaks(c, "error")
  BY <1>1, <1>3, BreaksStep
<1>4. CASE Go(c, "walk") /\ UNCHANGED dest /\ Rest(c)
  <2> DEFINE q == [run[c] EXCEPT !.pc = "walk"]
  <2>1. q.pc = "walk" /\ Set(c, q)
    BY <1>4, Known, NextPc DEF Steps, Go
  <2>2. Ready => Good(setup, c, q, mode', cell', data', names', Begun)
    BY <1>1, ReadyCall, MoveOn
  <2> HIDE DEF q
  <2> QED BY <1>4, <2>1, <2>2, QuietMove
<1> QED BY <1>2, <1>3, <1>4 DEF Stage

LEMMA NextEntryStep ==
  ASSUME Inv, NEW c \in Calls, NextEntry(c)
  PROVE  Inv'
<1>1. run[c].pc = "walk"
  BY DEF NextEntry, At
<1>2. CASE Expired(c)
  BY <1>1, <1>2, ExpiredStep
<1>3. CASE Unreachable(c, Cur(c))
  BY <1>1, <1>3, UnreachableStep, ClearPath DEF Ended, Sealing
<1>4. ASSUME NEW n \in Left(c), UNCHANGED dest, Rest(c),
             Set(c, [run[c] EXCEPT !.pc = IF n \in Dirs THEN "mkdir" ELSE "copy", !.at = n])
      PROVE  Inv'
  <2> DEFINE v == IF n \in Dirs THEN "mkdir" ELSE "copy"
             q == [run[c] EXCEPT !.pc = v, !.at = n]
  <2>1. q.pc = v /\ v # "idle"
    BY Known DEF RunState
  <2>2. n \in Children(Stand(run[c].path)) \ run[c].done
    BY Known
  <2>3. Ready => Good(setup, c, q, mode', cell', data', names', Begun)
    BY <1>1, <2>2, ReadyCall, MoveEntry
  <2>4. Set(c, q)
    BY <1>4
  <2> HIDE DEF q, v
  <2> QED BY <1>4, <2>1, <2>3, <2>4, QuietMove
<1> QED BY <1>2, <1>3, <1>4 DEF NextEntry

LEMMA MakeDirectoryStep ==
  ASSUME Inv, NEW c \in Calls, MakeDirectory(c)
  PROVE  Inv'
<1> DEFINE d == run[c].at
           q == [run[c] EXCEPT !.pc = "enter"]
<1>1. run[c].pc = "mkdir" /\ d \in Dirs /\ c \in setup.calls /\ Clear(c, Cur(c))
  BY Known, ClearPath DEF MakeDirectory, At, Good, Local, InPlace, Kinds, Ended, Sealing
<1>2. q.pc = "enter"
  BY Known, NextPc DEF Steps
<1>3. Ready /\ mode'[d] # Absent => Good(setup, c, q, mode', cell', data', names', Begun)
  BY <1>1, ReadyCall, MoveOn
<1>4. CASE mode[d] # Absent /\ Go(c, "enter") /\ UNCHANGED dest /\ Rest(c)
  <2>1. Set(c, q) /\ mode' = mode
    BY <1>4 DEF Go, dest
  <2> HIDE DEF q
  <2> QED BY <1>2, <1>3, <1>4, <2>1, QuietMove
<1>5. CASE Unwritable(c, Cur(c))
  BY <1>1, <1>5, UnwritableStep
<1>6. CASE /\ ~(mode[d] # Absent /\ Shut(Cur(c)) = {})
           /\ Writable(Cur(c)) /\ mode' = [mode EXCEPT ![d] = {"r", "w", "x"}]
           /\ names' = names \cup {d} /\ Go(c, "enter") /\ UNCHANGED <<cell, data>> /\ Rest(c)
  <2>1. mode[d] = Absent
    BY <1>6 DEF Writable
  <2>2. Ready /\ DestTyped' /\ setup' = setup
    BY <1>1, <1>6, <2>1, DirectoryMade DEF Inv, Rest
  <2>3. mode'[d] # Absent
    BY <1>1, <1>6, AllOpen DEF Inv, DestTyped
  <2>4. Set(c, q)
    BY <1>6 DEF Go
  <2> HIDE DEF q
  <2> QED BY <1>2, <1>3, <2>2, <2>3, <2>4, Advance
<1>7. CASE Breaks(c, "error")
  BY <1>1, <1>7, BreaksStep DEF Ended, Sealing
<1> QED BY <1>4, <1>5, <1>6, <1>7 DEF MakeDirectory

LEMMA EnterDirectoryStep ==
  ASSUME Inv, NEW c \in Calls, EnterDirectory(c)
  PROVE  Inv'
<1>1. run[c].pc = "enter" /\ run[c].pc \notin Ended \cup Sealing
  BY DEF EnterDirectory, At, Ended, Sealing
<1>2. CASE Expired(c)
  BY <1>1, <1>2, ExpiredStep
<1>3. CASE Unreachable(c, Cur(c))
  BY <1>1, <1>3, UnreachableStep, ClearPath
<1>4. CASE /\ Set(c, [run[c] EXCEPT !.pc = "walk", !.path = Append(@, run[c].at)])
           /\ UNCHANGED dest /\ Rest(c)
  <2> DEFINE q == [run[c] EXCEPT !.pc = "walk", !.path = Append(@, run[c].at)]
  <2>1. q.pc = "walk" /\ Set(c, q)
    BY <1>4, Known DEF RunState
  <2>2. Ready => Good(setup, c, q, mode', cell', data', names', Begun)
    BY <1>1, ReadyCall, MoveEnter
  <2> HIDE DEF q
  <2> QED BY <1>4, <2>1, <2>2, QuietMove
<1> QED BY <1>2, <1>3, <1>4 DEF EnterDirectory

LEMMA StageCopyStep ==
  ASSUME Inv, NEW c \in Calls, StageCopy(c)
  PROVE  Inv'
<1>1. run[c].pc = "copy" /\ c \in setup.calls /\ Clear(c, Cur(c))
  BY Known, ClearPath DEF StageCopy, At, Good, Local, Kinds, Ended, Sealing
<1>2. CASE Unwritable(c, Cur(c))
  BY <1>1, <1>2, UnwritableStep
<1>3. CASE Breaks(c, "error")
  BY <1>1, <1>3, BreaksStep
<1>4. CASE Go(c, "rename") /\ UNCHANGED dest /\ Rest(c)
  <2> DEFINE q == [run[c] EXCEPT !.pc = "rename"]
  <2>1. q.pc = "rename" /\ Set(c, q)
    BY <1>4, Known, NextPc DEF Steps, Go
  <2>2. Ready => Good(setup, c, q, mode', cell', data', names', Begun)
    BY <1>1, ReadyCall, MoveOn
  <2> HIDE DEF q
  <2> QED BY <1>4, <2>1, <2>2, QuietMove
<1> QED BY <1>2, <1>3, <1>4 DEF StageCopy

LEMMA PublishFileStep ==
  ASSUME Inv, NEW c \in Calls, PublishFile(c)
  PROVE  Inv'
<1> DEFINE f == run[c].at
           q == [run[c] EXCEPT !.pc = "keep"]
<1>1. run[c].pc = "rename" /\ f \in Files /\ c \in setup.calls /\ Clear(c, Cur(c))
  BY Known, ClearPath DEF PublishFile, At, Good, Local, InPlace, Kinds, Ended, Sealing
<1>2. CASE Unwritable(c, Cur(c))
  BY <1>1, <1>2, UnwritableStep
<1>3. CASE ~Unwritable(c, Cur(c))
  <2>1. /\ cell' = [cell EXCEPT ![f] = c] /\ mode' = mode /\ Set(c, q) /\ setup' = setup
        /\ data' \subseteq data \cup {f} /\ names' \subseteq names \cup {f}
    BY <1>3 DEF PublishFile, Go, Rest
  <2>2. Ready /\ DestTyped'
    BY <1>1, <2>1, FilePublished DEF Inv
  <2>3. q.pc = "keep" /\ Good(setup, c, q, mode', cell', data', names', Begun)
    BY <1>1, <2>2, Known, NextPc, ReadyCall, MoveOn DEF Steps
  <2> HIDE DEF q
  <2> QED BY <2>1, <2>2, <2>3, Advance
<1> QED BY <1>2, <1>3

LEMMA KeepPublishedStep ==
  ASSUME Inv, NEW c \in Calls, KeepPublished(c)
  PROVE  Inv'
<1> DEFINE f == run[c].at
           keep == c \in setup.durable /\ f \notin setup.dark[c]
           X == IF keep THEN run[c].files \cup {f} ELSE run[c].files
           q == [run[c] EXCEPT !.pc = "verify", !.files = X]
<1>1. run[c].pc = "keep" /\ f \in Files /\ run[c].pc \notin Ended \cup Sealing
  BY Known DEF KeepPublished, At, Good, Local, InPlace, Ended, Sealing
<1>2. CASE Expired(c)
  BY <1>1, <1>2, ExpiredStep
<1>3. CASE Breaks(c, "error")
  BY <1>1, <1>3, BreaksStep
<1>4. CASE Unwind(c, "changed") /\ UNCHANGED dest /\ Rest(c)
  BY <1>1, <1>4, UnwindStep DEF Reasons, Rest
<1>5. CASE /\ cell[f] = c /\ UNCHANGED <<mode, cell, names>> /\ Rest(c)
           /\ data' = IF c \in setup.durable /\ f \in setup.dark[c] THEN data \ {f} ELSE data
           /\ Set(c, [run[c] EXCEPT !.pc = "verify", !.files = IF keep THEN @ \cup {f} ELSE @])
  <2>1. Ready /\ DestTyped' /\ setup' = setup
    BY <1>5, Flushed DEF Inv, Rest
  <2>2. Set(c, q) /\ q.pc = "verify"
    BY <1>5, Known DEF RunState
  <2>3. X \in SUBSET Files /\ run[c].files \subseteq X
    BY <1>1, Known, FieldsTyped
  <2>4. f \in data' /\ c \in setup.durable => f \in X
    BY <1>5
  <2>5. cell'[f] = c /\ c # Nobody
    BY <1>5, ArchiveAssumption
  <2> HIDE DEF X
  <2>6. Good(setup, c, q, mode', cell', data', names', Begun)
    BY <1>1, <2>1, <2>3, <2>4, <2>5, ReadyCall, MoveKept
  <2> HIDE DEF q
  <2> QED BY <2>1, <2>2, <2>6, Advance
<1> QED BY <1>2, <1>3, <1>4, <1>5 DEF KeepPublished

LEMMA VerifyPublishedStep ==
  ASSUME Inv, NEW c \in Calls, VerifyPublished(c)
  PROVE  Inv'
<1> DEFINE q == [run[c] EXCEPT !.pc = "walk", !.done = @ \cup {run[c].at}]
<1>1. run[c].pc = "verify" /\ run[c].pc \notin Ended \cup Sealing
  BY DEF VerifyPublished, At, Ended, Sealing
<1>2. CASE Expired(c)
  BY <1>1, <1>2, ExpiredStep
<1>3. CASE Unreachable(c, Cur(c))
  BY <1>1, <1>3, UnreachableStep, ClearPath
<1>4. CASE Set(c, q) /\ UNCHANGED dest /\ Rest(c)
  <2>1. q.pc = "walk"
    BY Known DEF RunState
  <2>2. Ready => Good(setup, c, q, mode', cell', data', names', Begun)
    BY <1>1, ReadyCall, MoveVerified
  <2> HIDE DEF q
  <2> QED BY <1>4, <2>1, <2>2, QuietMove
<1> QED BY <1>2, <1>3, <1>4 DEF VerifyPublished

LEMMA LeaveDirectoryStep ==
  ASSUME Inv, NEW c \in Calls, LeaveDirectory(c)
  PROVE  Inv'
<1> DEFINE d == Cur(c)
<1>1. /\ run[c].pc = "walk" /\ d \in Dirs /\ d = Stand(run[c].path)
      /\ Children(d) \subseteq run[c].done
  BY Known DEF LeaveDirectory, At, Left
<1>2. CASE Expired(c)
  BY <1>1, <1>2, ExpiredStep
<1>3. CASE Unreachable(c, Parent[d])
  <2>1. Clear(c, d)
    BY <1>1, ClearPath DEF Ended, Sealing
  <2>2. Clear(c, Parent[d])
    BY <1>1, <2>1, AboveDir DEF Clear
  <2> QED BY <1>1, <1>3, <2>2, UnreachableStep
<1>4. CASE /\ c \in setup.merge /\ Set(c, [run[c] EXCEPT !.pc = "chmod", !.at = d])
           /\ UNCHANGED dest /\ Rest(c)
  <2> DEFINE q == [run[c] EXCEPT !.pc = "chmod", !.at = d]
  <2>1. c \notin setup.durable
    BY <1>4, SetupTyped DEF Inv
  <2>2. q.pc = "chmod" /\ Set(c, q)
    BY <1>4, Known DEF RunState
  <2> HIDE DEF d
  <2>3. Ready => Good(setup, c, q, mode', cell', data', names', Begun)
    BY <1>1, <1>4, <2>1, ReadyCall, MoveMode
  <2> HIDE DEF q
  <2> QED BY <1>4, <2>2, <2>3, QuietMove
<1>5. CASE /\ c \notin setup.merge /\ UNCHANGED dest /\ Rest(c)
           /\ Set(c, [run[c] EXCEPT !.path = Front(run[c].path), !.done = @ \cup {d},
                                    !.dirs = @ \cup {d}])
  <2> DEFINE q == [run[c] EXCEPT !.path = Front(@), !.done = @ \cup {d}, !.dirs = @ \cup {d}]
  <2>1. q.pc = "walk" /\ Set(c, q)
    BY <1>1, <1>5, Known DEF RunState
  <2> HIDE DEF d
  <2>2. Ready => Good(setup, c, q, mode', cell', data', names', Begun)
    BY <1>1, <1>5, ReadyCall, MoveUp
  <2> HIDE DEF q
  <2> QED BY <1>5, <2>1, <2>2, QuietMove
<1> QED BY <1>2, <1>3, <1>4, <1>5 DEF LeaveDirectory

LEMMA EndWalkStep ==
  ASSUME Inv, NEW c \in Calls, EndWalk(c)
  PROVE  Inv'
<1>1. /\ run[c].pc = "walk" /\ Stand(run[c].path) = Root /\ Children(Root) \subseteq run[c].done
      /\ (c \in setup.merge => c \notin setup.durable)
  BY Known, SetupTyped DEF EndWalk, At, Left, Inv
<1>2. CASE Expired(c)
  BY <1>1, <1>2, ExpiredStep
<1>3. CASE ~Expired(c)
  <2> DEFINE v == IF c \in setup.merge THEN "end" ELSE "files"
             q == [run[c] EXCEPT !.pc = v]
  <2>1. Set(c, q) /\ UNCHANGED dest /\ Rest(c)
    BY <1>3 DEF EndWalk, Go
  <2>2. q.pc = v /\ v # "idle"
    BY Known, NextPc DEF Steps
  <2>3. Ready => Good(setup, c, q, mode', cell', data', names', Begun)
    BY <1>1, ReadyCall, MoveWalked
  <2> HIDE DEF q, v
  <2> QED BY <2>1, <2>2, <2>3, QuietMove
<1> QED BY <1>2, <1>3

-----------------------------------------------------------------------------
(* The steps that finalize the publication.                                *)

LEMMA StartBatchStep ==
  ASSUME Inv, NEW c \in Calls, StartBatch(c)
  PROVE  Inv'
<1>1. run[c].pc = "files"
  BY DEF StartBatch, At
<1>2. CASE Expired(c)
  BY <1>1, <1>2, ExpiredStep
<1>3. CASE run[c].files = {} /\ Go(c, "dirs") /\ UNCHANGED dest /\ Rest(c)
  <2> DEFINE q == [run[c] EXCEPT !.pc = "dirs"]
  <2>1. q.pc = "dirs" /\ Set(c, q)
    BY <1>3, Known, NextPc DEF Steps, Go
  <2>2. Ready => Good(setup, c, q, mode', cell', data', names', Begun)
    BY <1>1, <1>3, ReadyCall, MoveLate
  <2> HIDE DEF q
  <2> QED BY <1>3, <2>1, <2>2, QuietMove
<1>4. ASSUME NEW b \in SUBSET run[c].files, UNCHANGED dest, Rest(c),
             Set(c, [run[c] EXCEPT !.pc = "batch", !.files = @ \ b,
                                   !.sync = [f \in b |-> "open"]])
      PROVE  Inv'
  <2> DEFINE q == [run[c] EXCEPT !.pc = "batch", !.files = @ \ b, !.sync = [f \in b |-> "open"]]
  <2>1. q.pc = "batch" /\ Set(c, q)
    BY <1>4, Known DEF RunState
  <2>2. Ready => Good(setup, c, q, mode', cell', data', names', Begun)
    BY <1>1, ReadyCall, MoveBatch
  <2> HIDE DEF q
  <2> QED BY <1>4, <2>1, <2>2, QuietMove
<1> QED BY <1>2, <1>3, <1>4 DEF StartBatch, kSubset

\* One file sync goes on or fails.
LEMMA SyncMove ==
  ASSUME Inv, NEW c \in Calls, run[c].pc = "batch", NEW f \in DOMAIN run[c].sync,
         Ready, DestTyped', setup' = setup,
         NEW v \in {"sync", "look", "done"}, NEW B \in SUBSET Faults, run[c].bad \subseteq B,
         \/ v = "sync" /\ run[c].sync[f] = "open"
         \/ run[c].sync[f] \notin {"open", "sync"} \/ B # {} \/ f \notin data' \/ cell'[f] # c,
         \A x \in B \ run[c].bad :
           x.why = "denied" => Excuse(setup, c, x.need[1], x.need[2], Begun),
         Set(c, [run[c] EXCEPT !.sync = [@ EXCEPT ![f] = v], !.bad = B])
  PROVE  Inv'
<1> DEFINE q == [run[c] EXCEPT !.sync = [@ EXCEPT ![f] = v], !.bad = B]
<1>1. q.pc = "batch"
  BY Known DEF RunState
<1>2. Good(setup, c, q, mode', cell', data', names', Begun)
  BY ReadyCall, MoveSync
<1> HIDE DEF q
<1>3. Set(c, q)
  BY DEF q
<1> QED BY <1>1, <1>2, <1>3, Advance

LEMMA GoesStep ==
  ASSUME Inv, NEW c \in Calls, run[c].pc = "batch", NEW f \in DOMAIN run[c].sync,
         Ready, DestTyped', setup' = setup,
         NEW v \in {"sync", "look", "done"}, Goes(c, f, v),
         \/ v = "sync" /\ run[c].sync[f] = "open"
         \/ run[c].sync[f] \notin {"open", "sync"} \/ f \notin data' \/ cell'[f] # c
  PROVE  Inv'
<1> DEFINE B == run[c].bad
<1>1. B \in SUBSET Faults /\ run[c] \in RunState
  BY Known, FieldsTyped
<1>2. [run[c] EXCEPT !.sync[f] = v] = [run[c] EXCEPT !.sync = [@ EXCEPT ![f] = v], !.bad = B]
  BY <1>1 DEF RunState
<1>3. Set(c, [run[c] EXCEPT !.sync = [@ EXCEPT ![f] = v], !.bad = B])
  BY <1>2 DEF Goes
<1> QED BY <1>1, <1>3, SyncMove

LEMMA FailsStep ==
  ASSUME Inv, NEW c \in Calls, run[c].pc = "batch", NEW f \in DOMAIN run[c].sync,
         UNCHANGED dest, setup' = setup, NEW x \in Faults, Fails(c, f, x),
         x.why = "denied" => Excuse(setup, c, x.need[1], x.need[2], Begun)
  PROVE  Inv'
<1> DEFINE B == run[c].bad \cup {x}
<1>1. B \in SUBSET Faults /\ run[c] \in RunState /\ B # {} /\ run[c].bad \subseteq B
  BY Known, FieldsTyped
<1>2. Set(c, [run[c] EXCEPT !.sync = [@ EXCEPT ![f] = "done"], !.bad = B])
  BY DEF Fails
<1>3. Ready /\ DestTyped'
  BY Quiet DEF Inv
<1>4. \A y \in B \ run[c].bad : y.why = "denied" => Excuse(setup, c, y.need[1], y.need[2], Begun)
  OBVIOUS
<1> HIDE DEF B
<1> QED BY <1>1, <1>2, <1>3, <1>4, SyncMove

LEMMA SyncNames ==
  ASSUME Inv, NEW c \in Calls, NEW f \in DOMAIN run[c].sync
  PROVE  f \in Files
<1>1. run[c].sync \in Syncs /\ run[c].sync # <<>>
  BY Known, FieldsTyped
<1>2. PICK b \in SUBSET Files : run[c].sync \in [b -> {"open", "sync", "look", "done"}]
  BY <1>1 DEF Syncs
<1> QED BY <1>2

LEMMA CheckedStep ==
  ASSUME Inv, NEW c \in Calls, run[c].pc = "batch", NEW f \in DOMAIN run[c].sync,
         NEW v \in {"sync", "done"}, Checked(c, f, v),
         \/ v = "sync" /\ run[c].sync[f] = "open"
         \/ v = "done" /\ run[c].sync[f] = "look"
  PROVE  Inv'
<1>1. f \in Files /\ setup' = setup
  BY SyncNames DEF Checked, Rest
<1>2. Ready /\ DestTyped' /\ UNCHANGED dest
  BY Quiet DEF Inv, Checked, Rest
<1>3. CASE Fails(c, f, Bad("timeout")) \/ Fails(c, f, Bad("changed"))
  <2>1. \A w \in {"timeout", "changed"} : Bad(w) \in Faults /\ Bad(w).why # "denied"
    BY DEF Bad, Faults, Reasons, Needs
  <2>2. PICK w \in {"timeout", "changed"} : Fails(c, f, Bad(w))
    BY <1>3
  <2> DEFINE x == Bad(w)
  <2>3. x \in Faults /\ x.why # "denied" /\ Fails(c, f, x)
    BY <2>1, <2>2
  <2> HIDE DEF x
  <2> QED BY <1>1, <1>2, <2>3, FailsStep
<1>4. ASSUME NEW a \in Shut(Parent[f]), Fails(c, f, Missing(a, {"x"}))
      PROVE  Inv'
  <2>1. Excuse(setup, c, a, {"x"}, Begun) /\ a \in Dirs
    BY <1>1, ClearBatch, ClosedExcuse
  <2>2. <<a, {"x"}>> \in Needs /\ <<a, {"x"}>>[1] = a /\ <<a, {"x"}>>[2] = {"x"}
    BY <2>1, NeedTyped
  <2> DEFINE x == Missing(a, {"x"})
  <2>3. x \in Faults /\ x.need = <<a, {"x"}>>
    BY <2>2 DEF Missing, Faults, Reasons
  <2>4. Fails(c, f, x)
    BY <1>4
  <2> HIDE DEF x
  <2>5. Excuse(setup, c, x.need[1], x.need[2], Begun)
    BY <2>1, <2>2, <2>3
  <2> QED BY <1>1, <1>2, <2>3, <2>4, <2>5, FailsStep
<1>5. CASE Goes(c, f, v)
  BY <1>1, <1>2, <1>5, GoesStep
<1> QED BY <1>3, <1>4, <1>5 DEF Checked

LEMMA SyncFileStep ==
  ASSUME Inv, NEW c \in Calls, run[c].pc = "batch", NEW f \in DOMAIN run[c].sync, SyncFile(c, f)
  PROVE  Inv'
<1>1. CASE /\ data' = (IF cell[f] = c THEN data \ {f} ELSE data)
           /\ Goes(c, f, "look") /\ UNCHANGED <<mode, cell, names>> /\ Rest(c)
  <2>1. Ready /\ DestTyped' /\ setup' = setup
    BY <1>1, Flushed DEF Inv, Rest
  <2>2. f \notin data' \/ cell'[f] # c
    BY <1>1
  <2> QED BY <1>1, <2>1, <2>2, GoesStep
<1>2. CASE Fails(c, f, Bad("error")) /\ UNCHANGED <<setup, dest, clock, answer>>
  <2> DEFINE x == Bad("error")
  <2>1. x \in Faults /\ x.why # "denied" /\ Fails(c, f, x)
    BY <1>2 DEF Bad, Faults, Reasons, Needs
  <2> HIDE DEF x
  <2> QED BY <1>2, <2>1, FailsStep
<1> QED BY <1>1, <1>2 DEF SyncFile

LEMMA EndBatchStep ==
  ASSUME Inv, NEW c \in Calls, EndBatch(c)
  PROVE  Inv'
<1>1. run[c].pc = "batch" /\ UNCHANGED dest /\ Rest(c) /\ run[c] \in RunState
  BY Known DEF EndBatch, At
<1>2. CASE run[c].bad = {}
  <2> DEFINE q == [run[c] EXCEPT !.pc = "files", !.sync = <<>>]
  <2>1. q.pc = "files" /\ Set(c, q)
    BY <1>1, <1>2 DEF RunState, EndBatch
  <2>2. Ready => Good(setup, c, q, mode', cell', data', names', Begun)
    BY <1>1, <1>2, ReadyCall, MoveBatched DEF EndBatch, Settled
  <2> HIDE DEF q
  <2> QED BY <1>1, <2>1, <2>2, QuietMove
<1>3. CASE run[c].bad # {}
  <2>1. PICK x \in run[c].bad :
          Set(c, [run[c] EXCEPT !.pc = "unwind", !.sync = <<>>, !.why = x.why, !.need = x.need])
    BY <1>3 DEF EndBatch
  <2> DEFINE q == [run[c] EXCEPT !.pc = "unwind", !.sync = <<>>, !.why = x.why, !.need = x.need]
  <2>2. q.pc = "unwind" /\ Set(c, q)
    BY <1>1, <2>1 DEF RunState
  <2>3. x.why \in Reasons /\ x.need \in Needs
    BY <1>1, FieldsTyped DEF Faults
  <2>4. x.why = "denied" => Excuse(setup, c, x.need[1], x.need[2], Begun)
    BY Known DEF Good, Shared, Excused
  <2>5. Ready => Good(setup, c, q, mode', cell', data', names', Begun)
    BY <1>1, <2>3, <2>4, ReadyCall, MoveBatchUnwind
  <2> HIDE DEF q
  <2> QED BY <1>1, <2>2, <2>5, QuietMove
<1> QED BY <1>2, <1>3

LEMMA BatchesStep ==
  ASSUME Inv, NEW c \in Calls, Batches(c)
  PROVE  Inv'
<1>1. ASSUME run[c].pc = "batch", NEW f \in DOMAIN run[c].sync,
             OpenFile(c, f) \/ SyncFile(c, f) \/ LookAgain(c, f)
      PROVE  Inv'
  BY <1>1, CheckedStep, SyncFileStep DEF OpenFile, LookAgain
<1> QED BY <1>1, StartBatchStep, EndBatchStep DEF Batches, At

LEMMA PinDirectoryStep ==
  ASSUME Inv, NEW c \in Calls, PinDirectory(c)
  PROVE  Inv'
<1>1. run[c].pc = "dirs" /\ run[c] \in RunState
  BY Known DEF PinDirectory, At
<1>2. CASE Expired(c)
  BY <1>1, <1>2, ExpiredStep
<1>3. ASSUME NEW d \in NextDirectory(c), Unreachable(c, Parent[d])
      PROVE  Inv'
  <2>1. d \in run[c].dirs /\ d \in Dirs
    BY <1>1, FieldsTyped DEF NextDirectory
  <2> QED BY <1>1, <1>3, <2>1, ClearAbove, UnreachableStep
<1>4. ASSUME NEW d \in NextDirectory(c), UNCHANGED dest, Rest(c),
             Set(c, [run[c] EXCEPT !.pc = "chmod", !.at = d,
                                   !.pin = c \in setup.durable /\ "r" \in mode[d]])
      PROVE  Inv'
  <2> DEFINE x == c \in setup.durable /\ "r" \in mode[d]
             q == [run[c] EXCEPT !.pc = "chmod", !.at = d, !.pin = x]
  <2>1. q.pc = "chmod" /\ Set(c, q)
    BY <1>1, <1>4 DEF RunState
  <2>2. d \in run[c].dirs /\ \A e \in run[c].dirs : Depth(e) <= Depth(d)
    BY DEF NextDirectory
  <2>3. mode' = mode
    BY <1>4 DEF dest
  <2>4. x \in BOOLEAN /\ (c \in setup.durable /\ ~x => "r" \notin mode'[d])
    BY <2>3
  <2> HIDE DEF x
  <2>5. Ready => Good(setup, c, q, mode', cell', data', names', Begun)
    BY <1>1, <2>2, <2>4, ReadyCall, MovePin
  <2> HIDE DEF q
  <2> QED BY <1>4, <2>1, <2>5, QuietMove
<1> QED BY <1>2, <1>3, <1>4 DEF PinDirectory

\* The directory in hand is one.
LEMMA InHand ==
  ASSUME Inv, NEW c \in Calls, run[c].pc \in Sealing
  PROVE  run[c].at \in Dirs
<1>1. run[c] \in RunState /\ Good(setup, c, run[c], mode, cell, data, names, Begun)
      /\ Cur(c) = Stand(run[c].path) /\ Cur(c) \in Dirs \cup {Root}
  BY Known
<1>2. CASE c \in setup.merge
  <2>1. run[c].path # <<>> /\ run[c].at = Stand(run[c].path) /\ run[c].path \in Seq(Dirs)
    BY <1>1, <1>2, FieldsTyped DEF Good, Local, InPlace, Kinds, Sealing
  <2>2. Len(run[c].path) \in 1..Len(run[c].path)
    BY <2>1, EmptySeq
  <2> QED BY <2>1, <2>2 DEF Stand, Last
<1>3. CASE c \notin setup.merge
  BY <1>1, <1>3, FieldsTyped DEF Good, Local, Deepest
<1> QED BY <1>2, <1>3

LEMMA ApplyModeStep ==
  ASSUME Inv, NEW c \in Calls, ApplyMode(c)
  PROVE  Inv'
<1> DEFINE d == run[c].at
           q == [run[c] EXCEPT !.pc = "verifyMode"]
<1>1. run[c].pc = "chmod" /\ d \in Dirs
  BY InHand DEF ApplyMode, At, Sealing
<1>2. CASE Breaks(c, "error")
  BY <1>1, <1>2, BreaksStep
<1>3. CASE /\ mode' = [mode EXCEPT ![d] = Final(c, d)] /\ Go(c, "verifyMode")
           /\ UNCHANGED <<cell, data, names>> /\ Rest(c)
  <2>1. Ready /\ DestTyped' /\ setup' = setup
    BY <1>1, <1>3, ModeApplied DEF Inv, Rest
  <2>2. q.pc = "verifyMode" /\ Set(c, q)
    BY <1>3, Known, NextPc DEF Steps, Go
  <2>3. Good(setup, c, q, mode', cell', data', names', Begun)
    BY <1>1, <2>1, ReadyCall, MoveLate
  <2> HIDE DEF q
  <2> QED BY <2>1, <2>2, <2>3, Advance
<1> QED BY <1>2, <1>3 DEF ApplyMode

LEMMA VerifyModeStep ==
  ASSUME Inv, NEW c \in Calls, VerifyMode(c)
  PROVE  Inv'
<1> DEFINE d == run[c].at
           readable == run[c].pin \/ "r" \in mode[d]
<1>1. run[c].pc = "verifyMode" /\ d \in Dirs /\ run[c] \in RunState
  BY Known, InHand DEF VerifyMode, At, Sealing
<1>2. CASE Expired(c)
  BY <1>1, <1>2, ExpiredStep
<1>3. CASE Unreachable(c, Parent[d])
  BY <1>1, <1>3, ClearAbove, UnreachableStep
<1>4. CASE Unwind(c, "changed") /\ UNCHANGED dest /\ Rest(c)
  BY <1>1, <1>4, UnwindStep DEF Reasons, Rest
<1>5. ASSUME mode[d] = Final(c, d), UNCHANGED dest, Rest(c)
      PROVE  /\ mode' = mode /\ c \in setup.calls /\ mode'[d] = setup.mode[c][d]
             /\ (c \in setup.merge => c \notin setup.durable)
  <2>1. c \in setup.calls /\ mode' = mode
    BY <1>1, <1>5, Known DEF Good, Local, Kinds, dest
  <2>2. (c \in setup.merge => c \notin setup.durable) /\ Final(c, d) = setup.mode[c][d]
    BY <1>1, SetupTyped DEF Inv
  <2> QED BY <1>5, <2>1, <2>2
<1>6. CASE /\ mode[d] = Final(c, d) /\ c \in setup.merge /\ UNCHANGED dest /\ Rest(c)
           /\ Set(c, [run[c] EXCEPT !.pc = "walk", !.path = Front(@), !.done = @ \cup {d}])
  <2> DEFINE q == [run[c] EXCEPT !.pc = "walk", !.path = Front(@), !.done = @ \cup {d}]
  <2>1. q.pc = "walk" /\ Set(c, q)
    BY <1>1, <1>6 DEF RunState
  <2>2. Ready => Good(setup, c, q, mode', cell', data', names', Begun)
    BY <1>1, <1>5, <1>6, ReadyCall, MoveMerged
  <2> HIDE DEF q
  <2> QED BY <1>6, <2>1, <2>2, QuietMove
<1>7. CASE /\ mode[d] = Final(c, d) /\ c \notin setup.merge /\ c \notin setup.durable
           /\ Set(c, [run[c] EXCEPT !.pc = "dirs", !.dirs = @ \ {d}])
           /\ UNCHANGED dest /\ Rest(c)
  <2> DEFINE q == [run[c] EXCEPT !.pc = "dirs", !.dirs = @ \ {d}]
  <2>1. q.pc = "dirs" /\ Set(c, q)
    BY <1>1, <1>7 DEF RunState
  <2>2. Ready => Good(setup, c, q, mode', cell', data', names', Begun)
    BY <1>1, <1>5, <1>7, ReadyCall, MoveFinal
  <2> HIDE DEF q
  <2> QED BY <1>7, <2>1, <2>2, QuietMove
<1>8. CASE /\ mode[d] = Final(c, d) /\ c \in setup.durable
           /\ Go(c, "syncDir") /\ UNCHANGED dest /\ Rest(c)
  <2> DEFINE q == [run[c] EXCEPT !.pc = "syncDir"]
  <2>1. q.pc = "syncDir" /\ Set(c, q)
    BY <1>8, Known, NextPc DEF Steps, Go
  <2>2. Ready => Good(setup, c, q, mode', cell', data', names', Begun)
    BY <1>1, <1>5, <1>8, ReadyCall, MoveLate
  <2> HIDE DEF q
  <2> QED BY <1>8, <2>1, <2>2, QuietMove
<1>9. CASE c \in setup.durable /\ ~readable /\ Denied(c, <<d, {"r"}>>)
  <2>1. Excuse(setup, c, d, {"r"}, Begun)
    BY <1>1, <1>9, Known DEF Good, Shared, Excused
  <2>2. <<d, {"r"}>> \in Needs /\ <<d, {"r"}>>[1] = d /\ <<d, {"r"}>>[2] = {"r"}
    BY <1>1, NeedTyped
  <2> DEFINE n == <<d, {"r"}>>
  <2>3. n \in Needs /\ Excuse(setup, c, n[1], n[2], Begun) /\ Denied(c, n)
    BY <1>9, <2>1, <2>2
  <2> HIDE DEF n
  <2> QED BY <1>1, <2>3, DeniedStep
<1> QED BY <1>2, <1>3, <1>4, <1>6, <1>7, <1>8, <1>9 DEF VerifyMode

LEMMA SyncDirectoryStep ==
  ASSUME Inv, NEW c \in Calls, SyncDirectory(c)
  PROVE  Inv'
<1> DEFINE d == run[c].at
           q == [run[c] EXCEPT !.pc = "dirs", !.dirs = @ \ {d}]
<1>1. run[c].pc = "syncDir" /\ run[c] \in RunState
  BY Known DEF SyncDirectory, At
<1>2. CASE Breaks(c, "error")
  BY <1>1, <1>2, BreaksStep
<1>3. CASE /\ names' = names \ Children(d) /\ Set(c, q)
           /\ UNCHANGED <<mode, cell, data>> /\ Rest(c)
  <2>1. Ready /\ DestTyped' /\ setup' = setup
    BY <1>3, Flushed DEF Inv, Rest
  <2>2. c \notin setup.merge /\ \E o \in setup.calls : mode'[d] = setup.mode[o][d]
    BY <1>1, <1>3, Known DEF Good, Local, Shared, Kinds, Finalized, Ended
  <2>3. Good(setup, c, q, mode', cell', data', names', Begun)
    BY <1>1, <1>3, <2>1, <2>2, ReadyCall, MoveFinal
  <2>4. q.pc = "dirs"
    BY <1>1 DEF RunState
  <2> HIDE DEF q
  <2> QED BY <1>3, <2>1, <2>3, <2>4, Advance
<1> QED BY <1>2, <1>3 DEF SyncDirectory

LEMMA EndDirectoriesStep ==
  ASSUME Inv, NEW c \in Calls, EndDirectories(c)
  PROVE  Inv'
<1>1. run[c].pc = "dirs" /\ run[c].dirs = {}
  BY DEF EndDirectories, At
<1>2. CASE Expired(c)
  BY <1>1, <1>2, ExpiredStep
<1>3. CASE ~Expired(c)
  <2> DEFINE v == IF c \in setup.durable THEN "syncRoot" ELSE "end"
             q == [run[c] EXCEPT !.pc = v]
  <2>1. Set(c, q) /\ UNCHANGED dest /\ Rest(c)
    BY <1>3 DEF EndDirectories, Go
  <2>2. q.pc = v /\ v # "idle"
    BY Known, NextPc DEF Steps
  <2>3. Ready => Good(setup, c, q, mode', cell', data', names', Begun)
    BY <1>1, ReadyCall, MoveLate
  <2> HIDE DEF q, v
  <2> QED BY <2>1, <2>2, <2>3, QuietMove
<1> QED BY <1>2, <1>3

LEMMA SyncRootStep ==
  ASSUME Inv, NEW c \in Calls, SyncRoot(c)
  PROVE  Inv'
<1> DEFINE q == [run[c] EXCEPT !.pc = "end"]
<1>1. run[c].pc = "syncRoot"
  BY DEF SyncRoot, At
<1>2. CASE Breaks(c, "error")
  BY <1>1, <1>2, BreaksStep
<1>3. CASE /\ names' = names \ Children(Root) /\ Go(c, "end")
           /\ UNCHANGED <<mode, cell, data>> /\ Rest(c)
  <2>1. Ready /\ DestTyped' /\ setup' = setup
    BY <1>3, Flushed DEF Inv, Rest
  <2>2. q.pc = "end" /\ Set(c, q)
    BY <1>3, Known, NextPc DEF Steps, Go
  <2>3. Good(setup, c, q, mode', cell', data', names', Begun)
    BY <1>1, <1>3, <2>1, ReadyCall, MoveLate
  <2> HIDE DEF q
  <2> QED BY <2>1, <2>2, <2>3, Advance
<1> QED BY <1>2, <1>3 DEF SyncRoot

LEMMA EndExtractionStep ==
  ASSUME Inv, NEW c \in Calls, EndExtraction(c)
  PROVE  Inv'
<1>1. run[c].pc = "end" /\ (c \in setup.merge => c \notin setup.durable)
  BY SetupTyped DEF EndExtraction, At, Inv
<1>2. CASE Expired(c)
  BY <1>1, <1>2, ExpiredStep
<1>3. CASE /\ Set(c, [Idle EXCEPT !.pc = "resolved", !.done = run[c].done])
           /\ UNCHANGED dest /\ Rest(c)
  <2> DEFINE q == [Idle EXCEPT !.pc = "resolved", !.done = run[c].done]
  <2>1. q.pc = "resolved" /\ Set(c, q)
    BY <1>3 DEF Idle
  <2>2. Ready => Good(setup, c, q, mode', cell', data', names', Begun)
    BY <1>1, ReadyCall, MoveResolved
  <2> HIDE DEF q
  <2> QED BY <1>3, <2>1, <2>2, QuietMove
<1> QED BY <1>2, <1>3 DEF EndExtraction

LEMMA EndUnwindStep ==
  ASSUME Inv, NEW c \in Calls, EndUnwind(c)
  PROVE  Inv'
<1> DEFINE q == [Idle EXCEPT !.pc = "rejected", !.why = run[c].why, !.need = run[c].need]
<1>1. run[c].pc = "unwind" /\ Set(c, q) /\ UNCHANGED dest /\ Rest(c)
  BY DEF EndUnwind, At
<1>2. q.pc = "rejected"
  BY DEF Idle
<1>3. Ready => Good(setup, c, q, mode', cell', data', names', Begun)
  BY <1>1, ReadyCall, MoveRejected
<1> HIDE DEF q
<1> QED BY <1>1, <1>2, <1>3, QuietMove

-----------------------------------------------------------------------------
(* The invariant holds.                                                    *)

Own(c) == Call(c) \/ Stage(c) \/ Extract(c)

LEMMA InitInv == Init => Inv
<1> SUFFICES ASSUME Init
             PROVE  Inv
  OBVIOUS
<1>1. setup \in Setups /\ DestTyped
  BY SetupTyped DEF Init, DestTyped
<1>2. run \in RunStates
  BY IdleTyped DEF Init, RunStates
<1>3. ASSUME NEW c \in Calls
      PROVE  Good(setup, c, Idle, mode, cell, data, names, Begun)
  <2>1. Made(Idle) = {} /\ Above[Stand(<<>>)] = {}
    BY AboveRoot DEF Made, Idle, Stand
  <2>2. /\ Idle.pc = "idle" /\ Idle.path = <<>> /\ Idle.done = {} /\ Idle.dirs = {} /\ Idle.bad = {}
        /\ Idle.sync = <<>> /\ Idle.why = "none"
    BY DEF Idle
  <2>3. Local(setup, c, Idle)
    BY <2>1, <2>2 DEF Local, Chain, InPlace, Kinds, Walked, Deepest, Batched, Ended, After,
                      Sealing
  <2>4. Shared(setup, c, Idle, mode, cell, data, names, Begun)
    BY <2>1, <2>2 DEF Init, Shared, Present, Finalized, Pending, NamesKept, Foreign, Excused,
                      Synced, Ended
  <2> QED BY <2>3, <2>4, IdleTyped DEF Good
<1> QED BY <1>1, <1>2, <1>3 DEF Inv, Sound, Init

LEMMA OwnStep ==
  ASSUME Inv, NEW c \in Calls, Own(c)
  PROVE  Inv'
<1>1. CASE Call(c) \/ Stage(c)
  BY <1>1, CallStep, StageStep
<1>2. CASE NextEntry(c) \/ MakeDirectory(c) \/ EnterDirectory(c) \/ StageCopy(c)
           \/ PublishFile(c) \/ KeepPublished(c) \/ VerifyPublished(c) \/ LeaveDirectory(c)
           \/ EndWalk(c)
  BY <1>2, NextEntryStep, MakeDirectoryStep, EnterDirectoryStep, StageCopyStep,
     PublishFileStep, KeepPublishedStep, VerifyPublishedStep, LeaveDirectoryStep, EndWalkStep
<1>3. CASE Batches(c) \/ PinDirectory(c) \/ ApplyMode(c) \/ VerifyMode(c) \/ SyncDirectory(c)
           \/ EndDirectories(c) \/ SyncRoot(c) \/ EndExtraction(c) \/ EndUnwind(c)
  BY <1>3, BatchesStep, PinDirectoryStep, ApplyModeStep, VerifyModeStep, SyncDirectoryStep,
     EndDirectoriesStep, SyncRootStep, EndExtractionStep, EndUnwindStep
<1> QED BY <1>1, <1>2, <1>3 DEF Own, Extract

LEMMA OuterRests ==
  ASSUME NEW c \in Calls, Outer(c)
  PROVE  UNCHANGED <<setup, dest, run>>
  BY DEF Outer, Elapse, Timer, Resolve, Reject, Join, Answer

LEMMA RestKeepsInv ==
  ASSUME Inv, UNCHANGED <<setup, dest, run>>
  PROVE  Inv'
<1>1. setup' = setup /\ mode' = mode /\ cell' = cell /\ data' = data /\ names' = names /\ run' = run
  BY DEF dest
<1>2. Begun' = Begun
  BY <1>1 DEF Begun
<1> QED BY <1>1, <1>2 DEF Inv, DestTyped, Sound

LEMMA NextInv == Inv /\ [Next]_vars => Inv'
<1> SUFFICES ASSUME Inv, [Next]_vars
             PROVE  Inv'
  OBVIOUS
<1>1. ASSUME NEW c \in Calls, Own(c)
      PROVE  Inv'
  BY <1>1, OwnStep
<1>2. ASSUME NEW c \in Calls, Outer(c)
      PROVE  Inv'
  BY <1>2, OuterRests, RestKeepsInv
<1>3. CASE UNCHANGED vars
  BY <1>3, RestKeepsInv DEF vars
<1> QED BY <1>1, <1>2, <1>3 DEF Next, Own

\* Where every call stands in its tree, what it has published, synced and finalized
\* so far, and why it failed, at every step of every call.
THEOREM PublicationSound == Spec => []Inv
<1> QED BY InitInv, NextInv, PTL DEF Spec

-----------------------------------------------------------------------------
(* The answers.                                                            *)

Answered(c) ==
  /\ answer[c] # "none" =>
       \/ run[c].pc \in {"resolved", "rejected"}
       \/ clock[c] = "aborted" /\ ~Owned(c)
  /\ answer[c] = "ok" => run[c].pc = "resolved"

AnswerInv ==
  /\ clock \in [Calls -> {"running", "elapsed", "aborted"}]
  /\ answer \in [Calls -> Reasons \cup {"ok"}]
  /\ \A c \in Calls : Answered(c)

\* What every step of a call does outside of the destination.
CallOnly(c) ==
  /\ setup' = setup /\ answer' = answer
  /\ clock' = clock \/ clock' = [clock EXCEPT ![c] = "aborted"]
  /\ run[c].pc \notin {"resolved", "rejected"}
  /\ \E q : Set(c, q)

LEMMA Endings ==
  ASSUME NEW c \in Calls, run[c].pc \notin {"resolved", "rejected"}
  PROVE  /\ Expired(c) => CallOnly(c)
         /\ \A w : Breaks(c, w) => CallOnly(c)
         /\ \A n : Denied(c, n) => CallOnly(c)
         /\ \A d : Unreachable(c, d) => CallOnly(c)
         /\ \A d : Unwritable(c, d) => CallOnly(c)
         /\ \A w : Unwind(c, w) /\ Rest(c) => CallOnly(c)
         /\ \A v : Go(c, v) /\ Rest(c) => CallOnly(c)
         /\ \A q : Set(c, q) /\ Rest(c) => CallOnly(c)
  BY DEF Expired, Breaks, Denied, Unreachable, Unwritable, Unwind, Go, Rest, CallOnly

LEMMA WalkOnly ==
  ASSUME NEW c \in Calls,
         \/ Call(c) \/ Stage(c) \/ NextEntry(c) \/ MakeDirectory(c) \/ EnterDirectory(c)
         \/ StageCopy(c) \/ PublishFile(c) \/ KeepPublished(c) \/ VerifyPublished(c)
         \/ LeaveDirectory(c) \/ EndWalk(c)
  PROVE  CallOnly(c)
<1>1. CASE Call(c) \/ Stage(c)
  BY <1>1, Endings DEF Call, Stage, At
<1>2. CASE NextEntry(c) \/ EnterDirectory(c) \/ EndWalk(c)
  BY <1>2, Endings DEF NextEntry, EnterDirectory, EndWalk, At
<1>3. CASE MakeDirectory(c)
  BY <1>3, Endings DEF MakeDirectory, At
<1>4. CASE StageCopy(c) \/ PublishFile(c)
  BY <1>4, Endings DEF StageCopy, PublishFile, At
<1>5. CASE KeepPublished(c) \/ VerifyPublished(c)
  BY <1>5, Endings DEF KeepPublished, VerifyPublished, At
<1>6. CASE LeaveDirectory(c)
  BY <1>6, Endings DEF LeaveDirectory, At
<1> QED BY <1>1, <1>2, <1>3, <1>4, <1>5, <1>6

LEMMA BatchOnly ==
  ASSUME NEW c \in Calls, Batches(c)
  PROVE  CallOnly(c)
<1>1. CASE StartBatch(c)
  BY <1>1, Endings DEF StartBatch, At
<1>2. CASE EndBatch(c)
  BY <1>2, Endings DEF EndBatch, At
<1>3. ASSUME run[c].pc = "batch", NEW f,
             OpenFile(c, f) \/ SyncFile(c, f) \/ LookAgain(c, f)
      PROVE  CallOnly(c)
  <2>1. \A v : Checked(c, f, v) => CallOnly(c)
    BY <1>3 DEF Checked, Fails, Goes, Rest, CallOnly
  <2>2. SyncFile(c, f) => CallOnly(c)
    BY <1>3 DEF SyncFile, Fails, Goes, Rest, CallOnly
  <2> QED BY <1>3, <2>1, <2>2 DEF OpenFile, LookAgain
<1> QED BY <1>1, <1>2, <1>3 DEF Batches, At

LEMMA FinalOnly ==
  ASSUME NEW c \in Calls,
         \/ PinDirectory(c) \/ ApplyMode(c) \/ VerifyMode(c) \/ SyncDirectory(c)
         \/ EndDirectories(c) \/ SyncRoot(c) \/ EndExtraction(c) \/ EndUnwind(c)
  PROVE  CallOnly(c)
<1>1. CASE PinDirectory(c)
  BY <1>1, Endings DEF PinDirectory, At
<1>2. CASE ApplyMode(c) \/ SyncDirectory(c) \/ SyncRoot(c)
  BY <1>2, Endings DEF ApplyMode, SyncDirectory, SyncRoot, At
<1>3. CASE VerifyMode(c)
  BY <1>3, Endings DEF VerifyMode, At
<1>4. CASE EndDirectories(c) \/ EndExtraction(c) \/ EndUnwind(c)
  BY <1>4, Endings DEF EndDirectories, EndExtraction, EndUnwind, At
<1> QED BY <1>1, <1>2, <1>3, <1>4

LEMMA OwnOnly ==
  ASSUME NEW c \in Calls, Own(c)
  PROVE  CallOnly(c)
  BY WalkOnly, BatchOnly, FinalOnly DEF Own, Extract

\* A call whose deadline was answered, and that owns no mutation, only closes down.
LEMMA AnsweredStep ==
  ASSUME Inv, NEW c \in Calls, Own(c), clock[c] = "aborted", ~Owned(c)
  PROVE  UNCHANGED dest /\ run[c].sync = <<>> /\ ~Owned(c)'
<1>1. /\ run[c] \in RunState /\ Over(c) /\ run[c].path = <<>> /\ Cur(c) = Root
      /\ run[c].pc \notin {"mkdir", "enter", "copy", "rename", "keep", "verify", "files", "batch",
                           "dirs", "chmod", "verifyMode", "syncDir", "syncRoot"}
  BY Known DEF Over, Owned, Cur
<1>2. run[c].sync = <<>>
  BY <1>1, Known DEF Good, Local, Batched
<1>3. ASSUME NEW q \in RunState, Set(c, q), UNCHANGED dest, q.path = <<>>,
             q.pc \in {"stage", "walk", "unwind", "rejected"}
      PROVE  UNCHANGED dest /\ ~Owned(c)'
  BY <1>3, SetTyped DEF Owned, Inv
<1>4. ASSUME NEW w, Unwind(c, w), UNCHANGED dest, w \in Reasons
      PROVE  UNCHANGED dest /\ ~Owned(c)'
  <2> DEFINE q == [run[c] EXCEPT !.pc = "unwind", !.why = w]
  <2>1. q \in RunState
    BY <1>1, <1>4 DEF RunState, Steps
  <2>2. Set(c, q) /\ q.path = <<>> /\ q.pc = "unwind"
    BY <1>1, <1>4 DEF Unwind, RunState
  <2> HIDE DEF q
  <2> QED BY <1>3, <1>4, <2>1, <2>2
<1>5. Expired(c) \/ Breaks(c, "error") => UNCHANGED dest /\ ~Owned(c)'
  BY <1>4 DEF Expired, Breaks, Reasons
<1>6. CASE Call(c)
  <2> DEFINE v == IF c \in setup.merge THEN "walk" ELSE "stage"
             q == [run[c] EXCEPT !.pc = v]
  <2>1. q \in RunState /\ q.pc \in {"stage", "walk"} /\ q.path = <<>>
    BY <1>1 DEF RunState, Steps
  <2>2. Set(c, q) /\ UNCHANGED dest
    BY <1>6 DEF Call, Go
  <2> HIDE DEF q
  <2> QED BY <1>2, <1>3, <2>1, <2>2
<1>7. CASE Stage(c)
  BY <1>1, <1>2, <1>5, <1>7 DEF Stage
<1>8. CASE NextEntry(c) \/ EndWalk(c) \/ EndExtraction(c)
  BY <1>1, <1>2, <1>5, <1>8 DEF NextEntry, EndWalk, EndExtraction
<1>9. CASE EndUnwind(c)
  <2> DEFINE q == [Idle EXCEPT !.pc = "rejected", !.why = run[c].why, !.need = run[c].need]
  <2>1. q \in RunState
    BY <1>1, IdleTyped, FieldUpdates, FieldsTyped DEF Steps
  <2>2. Set(c, q) /\ UNCHANGED dest /\ q.path = <<>> /\ q.pc = "rejected"
    BY <1>9 DEF EndUnwind, Idle
  <2> HIDE DEF q
  <2> QED BY <1>2, <1>3, <2>1, <2>2
<1>10. ~LeaveDirectory(c)
  BY <1>1 DEF LeaveDirectory
<1>11. /\ ~MakeDirectory(c) /\ ~EnterDirectory(c) /\ ~StageCopy(c) /\ ~PublishFile(c)
       /\ ~KeepPublished(c) /\ ~VerifyPublished(c) /\ ~Batches(c)
  BY <1>1 DEF MakeDirectory, EnterDirectory, StageCopy, PublishFile, KeepPublished,
              VerifyPublished, Batches, StartBatch, EndBatch, At
<1>12. /\ ~PinDirectory(c) /\ ~ApplyMode(c) /\ ~VerifyMode(c) /\ ~SyncDirectory(c)
       /\ ~EndDirectories(c) /\ ~SyncRoot(c)
  BY <1>1 DEF PinDirectory, ApplyMode, VerifyMode, SyncDirectory, EndDirectories, SyncRoot, At
<1> QED BY <1>6, <1>7, <1>8, <1>9, <1>10, <1>11, <1>12 DEF Own, Extract

LEMMA InitAnswer == Init => AnswerInv
  BY DEF Init, AnswerInv, Answered, Reasons

LEMMA NextAnswer == Inv /\ AnswerInv /\ [Next]_vars => AnswerInv'
<1> SUFFICES ASSUME Inv, AnswerInv, [Next]_vars
             PROVE  AnswerInv'
  OBVIOUS
<1>1. ASSUME NEW c \in Calls, Own(c)
      PROVE  AnswerInv'
  <2>1. CallOnly(c)
    BY <1>1, OwnOnly
  <2>2. \A o \in Calls \ {c} : run'[o] = run[o] /\ clock'[o] = clock[o] /\ answer'[o] = answer[o]
    BY <2>1 DEF CallOnly, Set, Inv, RunStates, AnswerInv
  <2>3. \A o \in Calls \ {c} : Answered(o)'
    BY <2>2 DEF AnswerInv, Answered, Owned
  <2>4. Answered(c)'
    <3>1. CASE answer[c] = "none"
      BY <2>1, <3>1 DEF CallOnly, Answered
    <3>2. CASE answer[c] # "none"
      <4>1. answer[c] # "ok" /\ clock[c] = "aborted" /\ ~Owned(c)
        BY <2>1, <3>2 DEF CallOnly, AnswerInv, Answered
      <4>2. ~Owned(c)'
        BY <1>1, <4>1, AnsweredStep
      <4>3. clock'[c] = "aborted" /\ answer'[c] # "ok"
        BY <2>1, <4>1 DEF CallOnly, AnswerInv
      <4> QED BY <4>2, <4>3 DEF Answered
    <3> QED BY <3>1, <3>2
  <2>5. /\ clock' \in [Calls -> {"running", "elapsed", "aborted"}]
        /\ answer' \in [Calls -> Reasons \cup {"ok"}]
    BY <2>1 DEF CallOnly, AnswerInv
  <2> QED BY <2>3, <2>4, <2>5 DEF AnswerInv
<1>2. ASSUME NEW c \in Calls, Elapse(c) \/ Timer(c)
      PROVE  AnswerInv'
  <2>1. run' = run /\ answer' = answer
    BY <1>2 DEF Elapse, Timer
  <2>2. \/ clock[c] # "aborted" /\ clock' = [clock EXCEPT ![c] = "elapsed"]
        \/ clock' = [clock EXCEPT ![c] = "aborted"]
    BY <1>2 DEF Elapse, Timer
  <2>3. \A o \in Calls : clock[o] = "aborted" => clock'[o] = "aborted"
    BY <2>2 DEF AnswerInv
  <2> QED BY <2>1, <2>2, <2>3 DEF AnswerInv, Answered, Owned
<1>3. ASSUME NEW c \in Calls, NEW a \in Reasons \cup {"ok"}, Answer(c, a),
             a = "ok" => run[c].pc = "resolved",
             run[c].pc \in {"resolved", "rejected"} \/ (clock[c] = "aborted" /\ ~Owned(c))
      PROVE  AnswerInv'
  <2>1. run' = run /\ clock' = clock /\ answer' = [answer EXCEPT ![c] = a]
    BY <1>3 DEF Answer
  <2> QED BY <1>3, <2>1 DEF AnswerInv, Answered, Owned
<1>4. ASSUME NEW c \in Calls, Resolve(c)
      PROVE  AnswerInv'
  BY <1>3, <1>4 DEF Resolve, At, Reasons
<1>5. ASSUME NEW c \in Calls, Reject(c)
      PROVE  AnswerInv'
  <2>1. run[c].why \in Reasons
    BY Known, FieldsTyped
  <2>2. "ok" \notin Reasons
    BY DEF Reasons
  <2> QED BY <1>3, <1>5, <2>1, <2>2 DEF Reject, At
<1>6. ASSUME NEW c \in Calls, Join(c)
      PROVE  AnswerInv'
  BY <1>3, <1>6 DEF Join, Reasons
<1>7. CASE UNCHANGED vars
  BY <1>7 DEF vars, AnswerInv, Answered, Owned
<1> QED BY <1>1, <1>2, <1>4, <1>5, <1>6, <1>7 DEF Next, Own, Outer

LEMMA AnswersSound == Spec => [](Inv /\ AnswerInv)
<1>1. Init => Inv /\ AnswerInv
  BY InitInv, InitAnswer
<1>2. Inv /\ AnswerInv /\ [Next]_vars => Inv' /\ AnswerInv'
  BY NextInv, NextAnswer
<1> QED BY <1>1, <1>2, PTL DEF Spec

\* Once the caller has its answer no step of the call changes the destination, and none
\* of its syncs is under way (createArchiveDeadline joins the mutations it owns).
THEOREM AnswersAreFinal == Spec => AnswerIsFinal
<1> DEFINE Settles == \A c \in Calls : answer[c] # "none" /\ run'[c] # run[c]
                       => UNCHANGED dest /\ run[c].sync = <<>>
<1>1. Inv /\ AnswerInv /\ [Next]_vars => [Settles]_vars
  <2> SUFFICES ASSUME Inv, AnswerInv, Next,
                      NEW c \in Calls, answer[c] # "none", run'[c] # run[c]
               PROVE  UNCHANGED dest /\ run[c].sync = <<>>
    OBVIOUS
  <2>1. PICK o \in Calls : Own(o) \/ Outer(o)
    BY DEF Next, Own
  <2>2. Own(o)
    BY <2>1, OuterRests
  <2>3. o = c
    BY <2>2, OwnOnly DEF CallOnly, Set, Inv, RunStates
  <2>4. clock[c] = "aborted" /\ ~Owned(c)
    BY <2>2, <2>3, OwnOnly DEF CallOnly, AnswerInv, Answered
  <2> QED BY <2>2, <2>3, <2>4, AnsweredStep
<1> QED BY <1>1, AnswersSound, PTL DEF Spec, AnswerIsFinal

\* A call that resolved published its whole tree and left no working mode; if it was to
\* be durable, its files and the names on the way to them would survive a power loss.
THEOREM SuccessIsStored == Spec => []OkMeansStored
<1>1. Inv /\ AnswerInv => OkMeansStored
  <2> SUFFICES ASSUME Inv, AnswerInv, NEW c \in Calls, answer[c] = "ok"
               PROVE  /\ \A f \in Files : cell[f] # Nobody
                      /\ \A d \in Dirs : \E o \in setup.calls : mode[d] = Final(o, d)
                      /\ c \in setup.durable => \A f \in Files : cell[f] = c => Stored(f)
    BY DEF OkMeansStored
  <2> DEFINE r == run[c]
  <2>1. /\ r.pc = "resolved" /\ r.pc \notin Ended
        /\ r \in RunState /\ Good(setup, c, r, mode, cell, data, names, Begun)
    BY Known DEF AnswerInv, Answered, Ended
  <2> HIDE DEF r
  <2>2. Dirs \cup Files \subseteq r.done /\ r.dirs = {} /\ r.sync = <<>> /\ r.bad = {}
    BY <2>1 DEF Good, Local, Walked, Kinds, Batched, After
  <2>3. Made(r) \ r.dirs = Dirs
    BY <2>2 DEF Made
  <2>4. \A f \in Files : cell[f] # Nobody
    BY <2>1, <2>2 DEF Good, Shared, Present
  <2>5. \A d \in Dirs : \E o \in setup.calls : mode[d] = Final(o, d)
    BY <2>1, <2>3 DEF Good, Shared, Finalized, Final
  <2>6. ASSUME c \in setup.durable, NEW f \in Files, cell[f] = c
        PROVE  Stored(f)
    <3>1. c \notin setup.merge
      BY <2>6, SetupTyped DEF Inv
    <3>2. f \notin data
      <4>1. r.files = {}
        BY <2>1, <3>1 DEF Good, Local, Batched
      <4> QED BY <2>1, <2>2, <2>6, <4>1 DEF Good, Shared, Pending
    <3>3. \A d \in Dirs \cup {Root} : \A n \in Children(d) \cap names : n \in Files /\ cell[n] # c
      BY <2>1, <2>3, <2>6 DEF Good, Shared, NamesKept, Synced
    <3>4. \A n \in Dirs \cup Files : n \in Children(Parent[n]) /\ Parent[n] \in Dirs \cup {Root}
      BY ParentOf DEF Children
    <3>5. f \notin names
      BY <2>6, <3>3, <3>4
    <3>6. \A d \in Dirs : d \notin names
      BY <3>3, <3>4, ArchiveAssumption
    <3>7. Above[Parent[f]] \subseteq Dirs
      BY <3>4, AboveInDirs
    <3> QED BY <3>2, <3>5, <3>6, <3>7 DEF Stored
  <2> QED BY <2>4, <2>5, <2>6
<1> QED BY <1>1, AnswersSound, PTL

\* Whatever modes an archive sets, deepest first, they do not lock out the extraction
\* that sets them: what it lacks it found missing, or another call took away.
THEOREM NotLockedOut == Spec => []OwnModesHarmless
<1>1. Inv => OwnModesHarmless
  <2> SUFFICES ASSUME Inv, NEW c \in Calls, run[c].why = "denied"
               PROVE  LET d == run[c].need[1]
                          lacks(m) == m # Absent /\ ~(run[c].need[2] \subseteq m)
                      IN  \/ lacks(setup.old[d])
                          \/ \E o \in setup.calls \ {c} : ~At(o, "idle") /\ lacks(Final(o, d))
    BY DEF OwnModesHarmless
  <2>1. Excuse(setup, c, run[c].need[1], run[c].need[2], Begun)
    BY Known DEF Good, Shared, Excused
  <2> QED BY <2>1 DEF Excuse, Lacks, Begun, At, Final
<1> QED BY <1>1, PublicationSound, PTL
=============================================================================
