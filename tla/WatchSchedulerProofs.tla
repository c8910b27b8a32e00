------------------------ MODULE WatchSchedulerProofs ------------------------
(***************************************************************************)
(* Theorems about WatchScheduler, for every set of names, generations and  *)
(* calls: a call of reconcile() resolves after a complete pass, a hint is  *)
(* not forgotten, and nothing is reported outside the current scopes.      *)
(***************************************************************************)
EXTENDS WatchScheduler, FiniteSetTheorems, TLAPS

Points == Checked \cup {"idle", "retire", "unwind", "clear", "settle", "retiring", "restart",
                       "fallback"}

Pendings == (SUBSET Names) \cup {Lost, Folded}

Passes ==
  [pc: Points, gen: Generations, had: BOOLEAN, hints: Pendings, full: BOOLEAN,
   periodic: BOOLEAN, slice: SUBSET Names, reuse: SUBSET Names, todo: SUBSET Names,
   next: [Names -> Nat], covers: SUBSET Calls, attempt: Nat]

FlagSet == [reset: BOOLEAN, refresh: BOOLEAN, pending: BOOLEAN, full: BOOLEAN,
            periodic: BOOLEAN, uncertain: BOOLEAN, hint: BOOLEAN]

WorldOK ==
  /\ world \in [Names -> Nat] /\ cache \in [Names -> Nat]
  /\ snapshot \in [Names -> Nat] \cup {None}
  /\ noted \subseteq Names /\ served \subseteq Calls

ControlOK ==
  /\ gen \in Generations
  /\ health \in [failed: BOOLEAN, broken: BOOLEAN, terminal: BOOLEAN, joined: BOOLEAN]
  /\ waiter \in [Generations -> {"none", "open", "resolved", "rejected"}]
  /\ call \in [Calls -> {"none", "pending", "running", "resolved", "rejected"}]
  /\ flags \in FlagSet /\ hints \in Pendings /\ hintTimer \in BOOLEAN

TypeOK == WorldOK /\ ControlOK /\ pass \in Passes

-----------------------------------------------------------------------------
(* Types.                                                                  *)

LEMMA AtType ==
  ASSUME NEW pc \in Points, NEW g \in Generations
  PROVE  At(pc, g) \in Passes
  BY DEF At, Passes, Pendings

LEMMA NextGeneration ==
  ASSUME TypeOK, gen < Last
  PROVE  gen + 1 \in Generations /\ gen + 1 # gen
  BY WatchAssumption, FS_CardinalityType DEF TypeOK, ControlOK, Last, Generations

LEMMA NotedType ==
  ASSUME TypeOK, NEW n \in Names
  PROVE  /\ Noted(n) \in Pendings
         /\ hints \in {Lost, Folded} => Noted(n) = hints
         /\ hints \notin {Lost, Folded} => Noted(n) = Folded \/ Noted(n) = hints \cup {n}
<1>1. CASE hints \in {Lost, Folded}
  <2>1. Noted(n) = hints
    BY <1>1 DEF Noted
  <2> QED BY <1>1, <2>1 DEF TypeOK, ControlOK
<1>2. CASE hints \notin {Lost, Folded}
  <2>1. Noted(n) = Folded \/ Noted(n) = hints \cup {n}
    BY <1>2 DEF Noted
  <2> QED BY <1>2, <2>1 DEF TypeOK, ControlOK, Pendings
<1> QED BY <1>1, <1>2

LEMMA LoseType ==
  ASSUME TypeOK, Lose
  PROVE  ControlOK'
<1> USE DEF TypeOK, ControlOK
<1>1. health' \in [failed: BOOLEAN, broken: BOOLEAN, terminal: BOOLEAN, joined: BOOLEAN]
  BY DEF Lose
<1>2. waiter' \in [Generations -> {"none", "open", "resolved", "rejected"}]
  BY DEF Lose, Reject
<1>3. call' \in [Calls -> {"none", "pending", "running", "resolved", "rejected"}]
  BY DEF Lose, RejectCalls
<1>4. flags' \in FlagSet
  BY DEF Lose, Cleared, FlagSet
<1>5. gen' \in Generations /\ hints' \in Pendings /\ hintTimer' \in BOOLEAN
  BY DEF Lose, ClearTimers, Pendings
<1> QED BY <1>1, <1>2, <1>3, <1>4, <1>5

LEMMA ThrowType ==
  ASSUME TypeOK, Throw
  PROVE  ControlOK' /\ pass' \in Passes
<1>1. Now \in Generations /\ "unwind" \in Points
  BY DEF TypeOK, ControlOK, Now, Passes, Points
<1>2. pass' \in Passes
  BY <1>1, AtType DEF Throw
<1>3. ControlOK'
  <2>1. CASE Live /\ Now = gen
    BY <2>1, LoseType DEF Throw
  <2>2. CASE ~(Live /\ Now = gen)
    BY <2>2 DEF Throw, Reject, TypeOK, ControlOK, requests
  <2> QED BY <2>1, <2>2
<1> QED BY <1>2, <1>3

LEMMA PumpType ==
  ASSUME TypeOK, Pump
  PROVE  pass' \in Passes
<1>1. "turn" \in Points /\ gen \in Generations
  BY DEF Points, Checked, TypeOK, ControlOK
<1> QED BY <1>1, AtType DEF Pump, TypeOK

LEMMA LoopType ==
  ASSUME TypeOK, NEW f
  PROVE  Loop(f) \in Passes
<1>1. {"turn", "settle"} \subseteq Points /\ gen \in Generations
  BY DEF Points, Checked, TypeOK, ControlOK
<1> QED BY <1>1, AtType DEF Loop

LEMMA ConsumeType ==
  ASSUME TypeOK, NEW f \in FlagSet, Consume(f)
  PROVE  /\ pass' \in Passes /\ flags' \in FlagSet
         /\ hints' \in Pendings /\ hintTimer' \in BOOLEAN
<1>1. PICK due \in BOOLEAN :
        pass' = [At(IF snapshot' # None /\ f.hint /\ hints # Lost /\ ~(f.full \/ f.uncertain \/ due)
                         /\ ~f.periodic
                    THEN "admit" ELSE "notify", gen)
                 EXCEPT !.had = f.hint, !.hints = hints, !.full = f.full \/ f.uncertain \/ due,
                        !.periodic = f.periodic, !.slice = Scope[gen]]
  BY DEF Consume
<1>2. PICK pc \in {"admit", "notify"} : pass' =
        [At(pc, gen) EXCEPT !.had = f.hint, !.hints = hints,
                            !.full = f.full \/ f.uncertain \/ due,
                            !.periodic = f.periodic, !.slice = Scope[gen]]
  BY <1>1
<1>3. At(pc, gen) \in Passes /\ Scope[gen] \in SUBSET Names /\ hints \in Pendings
  BY AtType, WatchAssumption DEF Points, Checked, TypeOK, ControlOK
<1>4. f.hint \in BOOLEAN /\ (f.full \/ f.uncertain \/ due) \in BOOLEAN /\ f.periodic \in BOOLEAN
  BY DEF FlagSet
<1>5. pass' \in Passes
  BY <1>2, <1>3, <1>4 DEF Passes
<1>6. flags' \in FlagSet
  BY DEF Consume, FlagSet
<1> QED BY <1>5, <1>6 DEF Consume, Pendings

LEMMA RequestTypes ==
  ASSUME TypeOK,
         \/ \E c \in Calls : Reconcile(c)
         \/ TimerFires \/ HintTimerFires
         \/ \E n \in Names : Hint(n) \/ Change(n)
         \/ HintLost \/ HintError \/ SetScopes \/ Close \/ Join
  PROVE  TypeOK'
<1> USE DEF TypeOK, WorldOK, ControlOK, outside, settled, transport, requests, promises
<1>1. ASSUME NEW c \in Calls, Reconcile(c)
      PROVE  TypeOK'
  <2>1. call' \in [Calls -> {"none", "pending", "running", "resolved", "rejected"}]
    BY <1>1 DEF Reconcile
  <2>2. flags' \in FlagSet /\ pass' \in Passes
    BY <1>1, PumpType DEF Reconcile, FlagSet
  <2> QED BY <1>1, <2>1, <2>2 DEF Reconcile
<1>2. CASE TimerFires \/ HintTimerFires
  BY <1>2, PumpType DEF TimerFires, HintTimerFires, FlagSet
<1>3. ASSUME NEW n \in Names, Hint(n)
      PROVE  TypeOK'
  <2>1. flags' \in FlagSet
    BY <1>3 DEF Hint, FlagSet
  <2>2. hints' \in Pendings
    BY <1>3, NotedType DEF Hint
  <2> QED BY <1>3, <2>1, <2>2 DEF Hint
<1>4. ASSUME NEW n \in Names, Change(n)
      PROVE  TypeOK'
  BY <1>4 DEF Change
<1>5. CASE HintLost
  BY <1>5 DEF HintLost, FlagSet, Pendings
<1>6. CASE HintError
  BY <1>6, LoseType DEF HintError
<1>7. CASE SetScopes
  <2>1. gen' \in Generations
    BY <1>7, NextGeneration DEF SetScopes
  <2>2. waiter' \in [Generations -> {"none", "open", "resolved", "rejected"}]
    BY <1>7 DEF SetScopes, Reject
  <2>3. flags' \in FlagSet /\ hints' \in Pendings /\ hintTimer' \in BOOLEAN
    BY <1>7 DEF SetScopes, Cleared, ClearTimers, FlagSet, Pendings
  <2>4. pass' \in Passes
    BY <1>7, <2>1, AtType DEF SetScopes, Points
  <2> QED BY <1>7, <2>1, <2>2, <2>3, <2>4 DEF SetScopes
<1>8. CASE Close
  <2>1. waiter' \in [Generations -> {"none", "open", "resolved", "rejected"}]
    BY <1>8 DEF Close, Reject
  <2>2. call' \in [Calls -> {"none", "pending", "running", "resolved", "rejected"}]
    BY <1>8 DEF Close, RejectCalls
  <2>3. flags' \in FlagSet /\ hints' \in Pendings /\ hintTimer' \in BOOLEAN
    BY <1>8 DEF Close, Cleared, ClearTimers, FlagSet, Pendings
  <2> QED BY <1>8, <2>1, <2>2, <2>3 DEF Close
<1>9. CASE Join
  BY <1>9 DEF Join
<1> QED BY <1>1, <1>2, <1>3, <1>4, <1>5, <1>6, <1>7, <1>8, <1>9

LEMMA ScanType ==
  ASSUME TypeOK, NEW p \in Passes, StartScan(p)
  PROVE  pass' \in Passes
<1> DEFINE next == IF snapshot = None THEN Zero ELSE snapshot
           all == p.slice = Selected /\ p.reuse = {}
           covers == IF all THEN {c \in Calls : call[c] \in {"pending", "running"}} ELSE {}
<1>1. next \in [Names -> Nat]
  BY DEF TypeOK, WorldOK, Zero
<1>2. covers \in SUBSET Calls /\ p.slice \ p.reuse \in SUBSET Names /\ "scan" \in Points
  BY DEF Passes, Points, Checked
<1>3. pass' = [p EXCEPT !.pc = "scan", !.todo = p.slice \ p.reuse, !.next = next, !.covers = covers]
  BY DEF StartScan
<1> HIDE DEF next, covers
<1> QED BY <1>1, <1>2, <1>3 DEF Passes

LEMMA SelectedType ==
  ASSUME TypeOK
  PROVE  Selected \in SUBSET Names
  BY WatchAssumption DEF TypeOK, Passes, Selected

LEMMA PassTypes ==
  ASSUME TypeOK,
         \/ PassStep
         \/ \E pc \in {"notify", "scan", "publish", "ready"} : Fails(pc)
  PROVE  TypeOK'
<1> USE DEF TypeOK, WorldOK, ControlOK, outside, settled, transport, requests, promises, Quiet,
            Unchanged
<1>0. gen \in Generations /\ Checked \subseteq Points
      /\ {"retire", "settle", "idle", "unwind", "clear", "restart"} \subseteq Points
  BY DEF Points
<1>00. {"done", "notify", "create", "scan", "publish", "ready", "turn"} \subseteq Points
  BY DEF Points, Checked
<1>1. ASSUME NEW pc, Stale(pc) \/ Fails(pc)
      PROVE  TypeOK'
  BY <1>1, ThrowType DEF Stale, Fails, Throw
<1>2. CASE Turn
  <2>1. call' \in [Calls -> {"none", "pending", "running", "resolved", "rejected"}]
    BY <1>2 DEF Turn
  <2>2. [flags EXCEPT !.pending = FALSE] \in FlagSet
    BY DEF FlagSet
  <2>3. flags' \in FlagSet /\ pass' \in Passes /\ hints' \in Pendings /\ hintTimer' \in BOOLEAN
    <3>1. CASE flags.refresh \/ flags.reset
      <4>1. /\ pass' = At("retire", gen) /\ flags' = [flags EXCEPT !.pending = FALSE]
            /\ UNCHANGED <<hints, hintTimer>>
        BY <1>2, <3>1 DEF Turn
      <4>2. At("retire", gen) \in Passes
        BY <1>0, AtType
      <4> QED BY <2>2, <4>1, <4>2
    <3>2. CASE ~(flags.refresh \/ flags.reset)
      <4>1. Consume([flags EXCEPT !.pending = FALSE])
        BY <1>2, <3>2 DEF Turn
      <4> QED BY <2>2, <4>1, ConsumeType
    <3> QED BY <3>1, <3>2
  <2> QED BY <1>2, <2>1, <2>3 DEF Turn
<1>3. CASE Retire \/ RetireIdle
  <2>1. {"retired", "restart"} \subseteq Points
    BY DEF Points, Checked
  <2>2. pass' \in Passes
    BY <1>3, <2>1 DEF Retire, RetireIdle, Passes
  <2> QED BY <1>3, <2>2 DEF Retire, RetireIdle, Retired
<1>4. CASE AfterRetire
  <2>1. [flags EXCEPT !.refresh = FALSE, !.reset = FALSE, !.full = @ \/ flags.refresh] \in FlagSet
    BY DEF FlagSet
  <2>2. flags' \in FlagSet /\ pass' \in Passes /\ hints' \in Pendings /\ hintTimer' \in BOOLEAN
    BY <1>4, <2>1, ConsumeType DEF AfterRetire
  <2> QED BY <1>4, <2>2 DEF AfterRetire
<1>5. CASE Admit
  <2>1. pass.hints \cap Selected \in SUBSET Names
    BY SelectedType
  <2>2. pass' \in Passes
    <3>1. [pass EXCEPT !.pc = "notify"] \in Passes
      BY <1>00 DEF Passes
    <3>2. [pass EXCEPT !.pc = "notify", !.slice = pass.hints \cap Selected] \in Passes
      BY <1>00, <2>1 DEF Passes
    <3>3. pass.hints # Folded /\ pass' # At("done", gen) /\ pass' # [pass EXCEPT !.pc = "notify"]
          => pass' = [pass EXCEPT !.pc = "notify", !.slice = pass.hints \cap Selected]
      BY <1>5 DEF Admit
    <3> QED BY <1>00, <1>5, <3>1, <3>2, <3>3, AtType DEF Admit
  <2> QED BY <1>5, <2>2 DEF Admit
<1>6. CASE Notify
  <2>1. pass' \in Passes
    BY <1>0, <1>6, SelectedType DEF Notify, Checked, Passes
  <2> QED BY <1>6, <2>1 DEF Notify
<1>7. ASSUME NEW n \in Names, Probe(n)
      PROVE  TypeOK'
  <2>1. pass' \in Passes
    BY <1>7 DEF Probe, Passes
  <2> QED BY <1>7, <2>1 DEF Probe
<1>8. CASE ProbeDone
  <2>1. pass' \in Passes
    <3>1. [pass EXCEPT !.pc = "create"] \in Passes /\ [pass EXCEPT !.pc = "create", !.reuse = {}] \in Passes
      BY <1>00 DEF Passes
    <3> QED BY <1>00, <1>8, <3>1, AtType DEF ProbeDone
  <2> QED BY <1>8, <2>1 DEF ProbeDone
<1>9. CASE Create
  <2>1. pass' \in Passes
    BY <1>9, ScanType DEF Create
  <2> QED BY <1>9, <2>1 DEF Create
<1>10. ASSUME NEW n \in Names, Read(n)
       PROVE  TypeOK'
  <2>1. pass' \in Passes
    BY <1>10 DEF Read, Passes
  <2> QED BY <1>10, <2>1 DEF Read
<1>11. CASE ScanDone
  <2>1. /\ [pass EXCEPT !.slice = Selected, !.attempt = @ + 1] \in Passes
        /\ [[pass EXCEPT !.slice = Selected, !.attempt = @ + 1] EXCEPT !.reuse = {}] \in Passes
    <3>1. Selected \in SUBSET Names /\ pass.attempt + 1 \in Nat
      BY SelectedType DEF Passes
    <3> HIDE DEF Selected
    <3> QED BY <3>1 DEF Passes
  <2>2. [pass EXCEPT !.pc = "publish"] \in Passes
    BY <1>0 DEF Checked, Passes
  <2>3. pass' \in Passes
    BY <1>11, <2>1, <2>2, ScanType DEF ScanDone
  <2>4. flags' \in FlagSet
    BY <1>11 DEF ScanDone, FlagSet
  <2> QED BY <1>11, <2>3, <2>4 DEF ScanDone
<1>12. CASE Publish
  <2>1. pass.next \in [Names -> Nat] /\ pass.covers \subseteq Calls
    BY DEF Passes
  <2>2. pass' \in Passes
    BY <1>0, <1>12, AtType DEF Publish, Checked
  <2> QED BY <1>12, <2>1, <2>2 DEF Publish
<1>13. CASE Ready
  BY <1>0, <1>13, AtType DEF Ready, Checked
<1>14. CASE Done
  BY <1>14, LoopType DEF Done
<1>15. CASE Unwind
  <2>1. pass' \in Passes
    BY <1>0, <1>15, LoopType DEF Unwind, Passes
  <2> QED BY <1>15, <2>1 DEF Unwind, Retired
<1>16. CASE Clear
  <2>1. pass' \in Passes
    BY <1>0, <1>16, LoopType, AtType DEF Clear
  <2>2. ControlOK'
    BY <1>16, LoseType DEF Clear, FlagSet
  <2> QED BY <1>16, <2>1, <2>2 DEF Clear
<1>17. CASE Settle
  BY <1>0, <1>17, AtType DEF Settle, Checked
<1>18. CASE Restart
  <2>1. pass' \in Passes
    BY <1>0, <1>18, AtType DEF Restart, Checked
  <2>2. ControlOK'
    BY <1>18, LoseType DEF Restart
  <2> QED BY <1>18, <2>1, <2>2 DEF Restart
<1>19. CASE FallBack \/ FellBack
  <2>1. {"fallback", "scan"} \subseteq Points
    BY DEF Points, Checked
  <2>2. pass' \in Passes
    BY <1>19, <2>1 DEF FallBack, FellBack, Passes
  <2> QED BY <1>19, <2>2 DEF FallBack, FellBack, Retired
<1> QED BY <1>1, <1>2, <1>3, <1>4, <1>5, <1>6, <1>7, <1>8, <1>9, <1>10, <1>11, <1>12, <1>13,
           <1>14, <1>15, <1>16, <1>17, <1>18, <1>19 DEF PassStep

LEMMA TypeStep ==
  ASSUME TypeOK, [Next]_vars
  PROVE  TypeOK'
<1>1. CASE Next
  BY <1>1, RequestTypes, PassTypes DEF Next
<1>2. CASE UNCHANGED vars
  BY <1>2 DEF vars, TypeOK, WorldOK, ControlOK
<1> QED BY <1>1, <1>2

LEMMA InitType == Init => TypeOK
<1> SUFFICES ASSUME Init
             PROVE  TypeOK
  OBVIOUS
<1>1. 0 \in Generations /\ "turn" \in Points
  BY WatchAssumption, FS_CardinalityType, FS_EmptySet DEF Generations, Last, Points, Checked
<1>2. pass \in Passes
  BY <1>1, AtType DEF Init
<1> QED BY <1>1, <1>2 DEF Init, TypeOK, WorldOK, ControlOK, Zero, NoFlags, FlagSet, Pendings

-----------------------------------------------------------------------------
(* Calls of reconcile().                                                   *)

Working == {"admit", "notify", "probe", "create", "scan", "fallback", "publish", "ready", "done"}

\* No pass of the current generation is under way.
Between == pass.gen # gen \/ pass.pc \notin Working

\* The pass under way looks at every selected name, for the call c among others.
Carried(c) ==
  /\ pass.gen = gen /\ Whole /\ pass.reuse = {}
  /\ \/ pass.pc = "notify" /\ (pass.full \/ snapshot = None)
     \/ pass.pc = "create"
     \/ pass.pc \in {"scan", "fallback", "publish"} /\ c \in pass.covers

Asked == flags.full \/ flags.reset

Promised(c) ==
  call[c] \in {"pending", "running"} =>
    /\ Live
    /\ c \in served \/ Carried(c) \/ (Asked /\ (call[c] = "pending" \/ Between))

\* A pass that was overtaken by setScopes() leaves its reset to the next turn.
Overtaken == pass.gen <= gen /\ (pass.gen # gen => flags.reset)

CallOK(c) == Promised(c) /\ (call[c] = "resolved" => c \in served)

CallsOK == Overtaken /\ \A c \in Calls : CallOK(c)

LEMMA ConsumeFacts ==
  ASSUME TypeOK, NEW f \in FlagSet, Consume(f)
  PROVE  /\ pass'.gen = gen /\ pass'.slice = Scope[gen] /\ pass'.reuse = {}
         /\ pass'.pc \in {"admit", "notify"} /\ pass'.hints = hints /\ pass'.had = f.hint
         /\ f.full => pass'.full
         /\ f.full \/ snapshot' = None \/ ~f.hint \/ hints = Lost => pass'.pc = "notify"
<1>1. PICK due \in BOOLEAN :
        pass' = [At(IF snapshot' # None /\ f.hint /\ hints # Lost /\ ~(f.full \/ f.uncertain \/ due)
                         /\ ~f.periodic
                    THEN "admit" ELSE "notify", gen)
                 EXCEPT !.had = f.hint, !.hints = hints, !.full = f.full \/ f.uncertain \/ due,
                        !.periodic = f.periodic, !.slice = Scope[gen]]
  BY DEF Consume
<1>2. PICK pc \in {"admit", "notify"} :
        /\ pass' = [At(pc, gen) EXCEPT !.had = f.hint, !.hints = hints,
                            !.full = f.full \/ f.uncertain \/ due,
                            !.periodic = f.periodic, !.slice = Scope[gen]]
        /\ f.full \/ snapshot' = None \/ ~f.hint \/ hints = Lost => pc = "notify"
  BY <1>1
<1> QED BY <1>2 DEF At

\* A step that leaves the calls and the pass alone.
LEMMA CallKept ==
  ASSUME TypeOK, NEW c \in Calls, CallOK(c), call'[c] = call[c],
         UNCHANGED <<gen, health, served, snapshot, pass>>, Asked => Asked'
  PROVE  CallOK(c)'
  BY DEF CallOK, Promised, Carried, Between, Live, Whole, Selected

\* A step between two passes.
LEMMA CallWaits ==
  ASSUME TypeOK, NEW c \in Calls, CallOK(c), call'[c] = call[c], Between, Between',
         UNCHANGED <<gen, health.failed, health.terminal>>, served \subseteq served', Asked => Asked'
  PROVE  CallOK(c)'
  BY DEF CallOK, Promised, Carried, Between, Working, Live

\* A call that is rejected, or is not made, was promised nothing.
LEMMA CallEnds ==
  ASSUME NEW c \in Calls, CallOK(c), served \subseteq served',
         call'[c] \in {"none", "rejected"} \/ (call[c] = "resolved" /\ call'[c] = "resolved")
  PROVE  CallOK(c)'
  BY DEF CallOK, Promised

LEMMA CallLost ==
  ASSUME TypeOK, NEW c \in Calls, CallOK(c), call' = RejectCalls, served \subseteq served'
  PROVE  CallOK(c)'
<1>1. call'[c] \in {"none", "rejected"} \/ (call[c] = "resolved" /\ call'[c] = "resolved")
  BY DEF RejectCalls, TypeOK, ControlOK
<1> QED BY <1>1, CallEnds

LEMMA PumpFacts ==
  ASSUME Pump
  PROVE  /\ pass' = pass \/ (Idle /\ pass'.gen = gen /\ pass'.pc = "turn")
         /\ ~(pass'.pc = "idle")
  BY DEF Pump, At, Idle

LEMMA CallsRequests ==
  ASSUME TypeOK, CallsOK,
         \/ \E c \in Calls : Reconcile(c)
         \/ TimerFires \/ HintTimerFires
         \/ \E n \in Names : Hint(n) \/ Change(n)
         \/ HintLost \/ HintError \/ SetScopes \/ Close \/ Join
  PROVE  CallsOK'
<1> USE DEF TypeOK, WorldOK, ControlOK, outside, settled, transport, requests, promises
<1>0. gen \in Nat /\ pass.gen \in Nat /\ flags \in FlagSet
  BY DEF Generations, Passes
<1>1. ASSUME NEW c \in Calls, Reconcile(c)
      PROVE  CallsOK'
  <2>1. CASE Live
    <3>1. /\ call' = [call EXCEPT ![c] = "pending"] /\ call[c] = "none" /\ Pump
          /\ flags' = [flags EXCEPT !.full = TRUE, !.pending = TRUE]
          /\ UNCHANGED <<gen, health, served, snapshot>>
      BY <1>1, <2>1 DEF Reconcile
    <3>2. flags'.full /\ flags'.reset = flags.reset
      BY <1>0, <3>1 DEF FlagSet
    <3>3. Overtaken'
      BY <1>0, <3>1, <3>2, PumpFacts DEF CallsOK, Overtaken
    <3>4. CallOK(c)'
      BY <2>1, <3>1, <3>2 DEF CallOK, Promised, Asked, Live
    <3>5. ASSUME NEW d \in Calls, d # c
          PROVE  CallOK(d)'
      <4>1. call'[d] = call[d] /\ Asked' /\ CallOK(d)
        BY <3>1, <3>2, <3>5 DEF Asked, CallsOK
      <4>2. CASE pass' = pass
        BY <3>1, <4>1, <4>2, CallKept
      <4>3. CASE pass' # pass
        <5>1. Between /\ Between'
          BY <3>1, <4>3, PumpFacts DEF Between, Working, Idle
        <5> QED BY <3>1, <4>1, <5>1, CallWaits
      <4> QED BY <4>2, <4>3
    <3> QED BY <3>3, <3>4, <3>5 DEF CallsOK
  <2>2. CASE ~Live
    <3>1. /\ call' = [call EXCEPT ![c] = "rejected"]
          /\ UNCHANGED <<gen, health, served, snapshot, pass, flags>>
      BY <1>1, <2>2 DEF Reconcile
    <3>2. ASSUME NEW d \in Calls
          PROVE  CallOK(d)'
      BY <3>1, CallKept, CallEnds DEF CallsOK, Asked
    <3> QED BY <3>1, <3>2 DEF CallsOK, Overtaken
  <2> QED BY <2>1, <2>2
<1>2. CASE TimerFires \/ HintTimerFires
  <2>1. Pump /\ UNCHANGED <<gen, health, served, snapshot, call>>
    BY <1>2 DEF TimerFires, HintTimerFires
  <2>2. flags'.full = flags.full /\ flags'.reset = flags.reset
    BY <1>0, <1>2 DEF TimerFires, HintTimerFires, FlagSet
  <2>3. Overtaken'
    BY <1>0, <2>1, <2>2, PumpFacts DEF CallsOK, Overtaken
  <2>4. ASSUME NEW d \in Calls
        PROVE  CallOK(d)'
    <3>1. CASE pass' = pass
      BY <2>1, <2>2, <3>1, CallKept DEF CallsOK, Asked
    <3>2. CASE pass' # pass
      <4>1. Between /\ Between'
        BY <2>1, <3>2, PumpFacts DEF Between, Working, Idle
      <4> QED BY <2>1, <2>2, <4>1, CallWaits DEF CallsOK, Asked
    <3> QED BY <3>1, <3>2
  <2> QED BY <2>3, <2>4 DEF CallsOK
<1>3. ASSUME \/ \E n \in Names : Hint(n) \/ Change(n)
             \/ HintLost
      PROVE  CallsOK'
  <2>1. UNCHANGED <<gen, health, served, snapshot, call, pass>>
    BY <1>3 DEF Hint, Change, HintLost
  <2>2. flags'.full = flags.full /\ flags'.reset = flags.reset
    BY <1>0, <1>3 DEF Hint, Change, HintLost, FlagSet
  <2> QED BY <2>1, <2>2, CallKept DEF CallsOK, Overtaken, Asked
<1>4. CASE HintError \/ Close
  <2>1. call' = RejectCalls /\ UNCHANGED <<gen, served, pass>>
    BY <1>4 DEF HintError, Lose, Close
  <2>2. flags'.reset = flags.reset
    BY <1>0, <1>4 DEF HintError, Lose, Close, Cleared, FlagSet
  <2> QED BY <2>1, <2>2, CallLost DEF CallsOK, Overtaken
<1>5. CASE SetScopes
  <2>1. gen' = gen + 1 /\ flags'.reset
    BY <1>0, <1>5 DEF SetScopes, Cleared, FlagSet
  <2>2. pass'.gen = pass.gen \/ (pass'.gen = gen + 1 /\ pass'.pc = "retiring")
    BY <1>5 DEF SetScopes, At
  <2>3. Overtaken'
    BY <1>0, <2>1, <2>2 DEF CallsOK, Overtaken
  <2>4. Between'
    BY <1>0, <2>1, <2>2 DEF CallsOK, Overtaken, Between, Working
  <2>5. UNCHANGED <<health, served, call>>
    BY <1>5 DEF SetScopes
  <2> QED BY <2>1, <2>3, <2>4, <2>5 DEF CallsOK, CallOK, Promised, Live, Asked
<1>6. CASE Join
  <2>1. health' = [health EXCEPT !.joined = TRUE] /\ UNCHANGED <<gen, served, call, flags, pass, snapshot>>
    BY <1>6 DEF Join
  <2>2. health'.failed = health.failed /\ health'.terminal = health.terminal
    BY <2>1
  <2> QED BY <2>1, <2>2
          DEF CallsOK, CallOK, Promised, Live, Asked, Overtaken, Carried, Between, Whole, Selected
<1> QED BY <1>1, <1>2, <1>3, <1>4, <1>5, <1>6

LEMMA CallsThrow ==
  ASSUME TypeOK, CallsOK, Throw, UNCHANGED served
  PROVE  CallsOK'
<1> USE DEF TypeOK, ControlOK, settled, transport, requests
<1>0. gen \in Nat /\ pass.gen \in Nat /\ flags \in FlagSet
  BY DEF Generations, Passes
<1>1. pass'.gen = Now /\ pass'.pc = "unwind"
  BY DEF Throw, At
<1>2. CASE Live /\ Now = gen
  <2>1. Lose
    BY <1>2 DEF Throw
  <2>2. call' = RejectCalls /\ flags'.reset = flags.reset /\ gen' = gen
    BY <1>0, <2>1 DEF Lose, Cleared, FlagSet
  <2> QED BY <1>0, <1>1, <1>2, <2>2, CallLost DEF CallsOK, Overtaken
<1>3. CASE ~(Live /\ Now = gen)
  <2>1. UNCHANGED <<gen, health, call, flags, snapshot>>
    BY <1>3 DEF Throw
  <2>2. Now = gen \/ (Now = pass.gen /\ Now # gen)
    BY DEF Now
  <2>3. Overtaken'
    BY <1>0, <1>1, <2>1, <2>2 DEF CallsOK, Overtaken
  <2>4. ASSUME NEW c \in Calls
        PROVE  CallOK(c)'
    <3>1. CASE Live
      <4>1. Between /\ Between'
        BY <1>1, <1>3, <2>1, <2>2, <3>1 DEF Between, Working
      <4> QED BY <2>1, <4>1, CallWaits DEF CallsOK, Asked
    <3>2. CASE ~Live
      <4>1. call[c] \notin {"pending", "running"}
        BY <3>2 DEF CallsOK, CallOK, Promised
      <4> QED BY <2>1, <4>1, CallEnds DEF CallsOK
    <3> QED BY <3>1, <3>2
  <2> QED BY <2>3, <2>4 DEF CallsOK
<1> QED BY <1>2, <1>3

\* A turn takes over what is asked for, and carries every call that waits.
LEMMA CallsConsumed ==
  ASSUME TypeOK, TypeOK', CallsOK, Current, Between, pass.gen = gen \/ pass.pc = "turn",
         UNCHANGED <<gen, health, served>>,
         NEW f \in FlagSet, Consume(f),
         f.full \/ snapshot' = None \/ ~Asked,
         NEW c \in Calls, call'[c] = call[c] \/ (call[c] = "pending" /\ call'[c] = "running")
  PROVE  CallOK(c)'
<1>1. /\ pass'.gen = gen /\ pass'.slice = Scope[gen] /\ pass'.reuse = {}
      /\ Asked => pass'.pc = "notify" /\ (pass'.full \/ snapshot' = None)
  BY ConsumeFacts
<1>2. CallOK(c) /\ ~Carried(c)
  BY DEF CallsOK, Carried, Between, Working
<1>3. CASE Asked
  <2>1. Carried(c)'
    BY <1>1, <1>3 DEF Carried, Whole, Selected
  <2> QED BY <1>2, <2>1 DEF CallOK, Promised, Current, Live
<1>4. CASE ~Asked
  BY <1>2, <1>4 DEF CallOK, Promised, Current, Live
<1> QED BY <1>3, <1>4

\* A step of a pass that keeps what the pass carries.
LEMMA CallCarried ==
  ASSUME TypeOK, TypeOK', NEW c \in Calls, CallOK(c), call'[c] = call[c],
         Current, pass.pc # "turn", pass.pc \in Working, UNCHANGED <<gen, health>>,
         served \subseteq served', Asked => Asked',
         Carried(c) /\ call[c] \in {"pending", "running"} => Carried(c)' \/ c \in served'
  PROVE  CallOK(c)'
<1>1. ~Between
  BY DEF Between, Current, Now
<1> QED BY <1>1 DEF CallOK, Promised, Live

LEMMA CallsPass ==
  ASSUME TypeOK, TypeOK', CallsOK,
         \/ PassStep
         \/ \E pc \in {"notify", "scan", "publish", "ready"} : Fails(pc)
  PROVE  CallsOK'
<1> USE DEF TypeOK, WorldOK, ControlOK, outside, settled, transport, requests, promises, Quiet,
            Unchanged
<1>0. /\ gen \in Nat /\ pass.gen \in Nat /\ pass \in Passes /\ flags \in FlagSet
      /\ health \in [failed: BOOLEAN, broken: BOOLEAN, terminal: BOOLEAN, joined: BOOLEAN]
  BY DEF Generations, Passes
<1>00. ASSUME pass.pc # "turn", Current
       PROVE  pass.gen = gen
  BY <1>00 DEF Current, Now
<1>1. ASSUME NEW pc, Stale(pc) \/ Fails(pc)
      PROVE  CallsOK'
  BY <1>1, CallsThrow DEF Stale, Fails
<1>2. CASE Turn
  <2>1. /\ call' = [c \in Calls |-> IF call[c] = "pending" THEN "running" ELSE call[c]]
        /\ UNCHANGED <<gen, health, served, snapshot>> /\ Between /\ Current /\ Live /\ pass.pc = "turn"
    BY <1>2 DEF Turn, Between, Working, Current
  <2>2. CASE flags.refresh \/ flags.reset
    <3>1. pass'.gen = gen /\ pass'.pc = "retire" /\ flags'.full = flags.full /\ flags'.reset = flags.reset
      BY <1>0, <1>2, <2>2 DEF Turn, At, FlagSet
    <3>2. Overtaken'
      BY <1>0, <2>1, <3>1 DEF Overtaken
    <3>3. Between' /\ ~\E c \in Calls : Carried(c)
      BY <2>1, <3>1 DEF Between, Working, Carried
    <3>4. ASSUME NEW c \in Calls
          PROVE  CallOK(c)'
      <4>1. call[c] = "resolved" <=> call'[c] = "resolved"
        BY <2>1
      <4>2. call'[c] \in {"pending", "running"} => call[c] \in {"pending", "running"}
        BY <2>1
      <4> QED BY <2>1, <3>1, <3>3, <4>1, <4>2 DEF CallsOK, CallOK, Promised, Live, Asked
    <3> QED BY <3>2, <3>4 DEF CallsOK
  <2>3. CASE ~(flags.refresh \/ flags.reset)
    <3> DEFINE f == [flags EXCEPT !.pending = FALSE]
    <3>1. f \in FlagSet /\ f.full = flags.full
      BY <1>0 DEF FlagSet
    <3>2. Consume(f)
      BY <1>2, <2>3 DEF Turn
    <3> HIDE DEF f
    <3>3. pass'.gen = gen
      BY <3>1, <3>2, ConsumeFacts
    <3>4. Overtaken'
      BY <1>0, <2>1, <3>3 DEF Overtaken
    <3>5. f.full \/ ~Asked
      BY <2>3, <3>1 DEF Asked
    <3>6. ASSUME NEW c \in Calls
          PROVE  CallOK(c)'
      <4>1. call'[c] = call[c] \/ (call[c] = "pending" /\ call'[c] = "running")
        BY <2>1
      <4> QED BY <2>1, <3>1, <3>2, <3>5, <4>1, CallsConsumed
    <3> QED BY <3>4, <3>6 DEF CallsOK
  <2> QED BY <2>2, <2>3
<1>3. CASE Retire \/ RetireIdle
  <2>1. /\ UNCHANGED <<gen, health.failed, health.terminal, call, flags, served>>
        /\ Between /\ Between' /\ pass'.gen = pass.gen
    BY <1>0, <1>3 DEF Retire, RetireIdle, Retired, Between, Working, Passes
  <2> QED BY <2>1, CallWaits DEF CallsOK, Overtaken, Asked
<1>4. CASE AfterRetire
  <2> DEFINE f == [flags EXCEPT !.refresh = FALSE, !.reset = FALSE, !.full = @ \/ flags.refresh]
  <2>1. f \in FlagSet /\ f.full = (flags.full \/ flags.refresh)
    BY <1>0 DEF FlagSet
  <2>2. Consume(f) /\ Current /\ pass.pc = "retired" /\ UNCHANGED <<gen, health, served, call>>
        /\ (flags.reset => snapshot' = None)
    BY <1>4 DEF AfterRetire
  <2> HIDE DEF f
  <2>3. pass'.gen = gen /\ pass.gen = gen
    BY <1>00, <2>1, <2>2, ConsumeFacts
  <2>4. Overtaken'
    BY <1>0, <2>2, <2>3 DEF Overtaken
  <2>5. f.full \/ snapshot' = None \/ ~Asked
    BY <2>1, <2>2 DEF Asked
  <2>6. Between
    BY <2>2 DEF Between, Working
  <2>7. ASSUME NEW c \in Calls
        PROVE  CallOK(c)'
    BY <2>1, <2>2, <2>3, <2>5, <2>6, CallsConsumed
  <2> QED BY <2>4, <2>7 DEF CallsOK
<1>5. CASE Admit
  <2>1. /\ UNCHANGED <<gen, health, served, call, flags>> /\ Current /\ pass.pc = "admit" /\ pass'.gen = gen
        /\ pass.gen = gen
    <3>1. pass.gen = gen
      BY <1>00, <1>5 DEF Admit
    <3>2. [pass EXCEPT !.pc = "notify"].gen = gen
      BY <1>0, <3>1 DEF Passes
    <3>3. \A s : [pass EXCEPT !.pc = "notify", !.slice = s].gen = gen
      BY <1>0, <3>1 DEF Passes
    <3>4. At("done", gen).gen = gen
      BY DEF At
    <3>5. pass' = [pass EXCEPT !.pc = "notify"] \/ pass' = At("done", gen)
          \/ \E s : pass' = [pass EXCEPT !.pc = "notify", !.slice = s]
      BY <1>5, <3>1 DEF Admit
    <3>6. pass'.gen = gen
      <4>1. CASE pass' = [pass EXCEPT !.pc = "notify"]
        BY <3>2, <4>1
      <4>2. CASE pass' = At("done", gen)
        BY <3>4, <4>2
      <4>3. ASSUME NEW s, pass' = [pass EXCEPT !.pc = "notify", !.slice = s]
            PROVE  pass'.gen = gen
        BY <3>3, <4>3
      <4> QED BY <3>5, <4>1, <4>2, <4>3
    <3> QED BY <1>5, <3>1, <3>6 DEF Admit
  <2>2. ASSUME NEW c \in Calls
        PROVE  CallOK(c)'
    BY <2>1, CallCarried DEF CallsOK, Carried, Working, Asked
  <2> QED BY <1>0, <2>1, <2>2 DEF CallsOK, Overtaken
<1>6. CASE Notify
  <2>1. /\ UNCHANGED <<gen, health, served, call, flags>> /\ Current /\ pass.pc = "notify" /\ pass'.gen = gen
        /\ pass.gen = gen
    BY <1>0, <1>00, <1>6 DEF Notify, Passes
  <2>2. ASSUME NEW c \in Calls
        PROVE  CallOK(c)'
    <3>1. Carried(c) => Carried(c)'
      <4>1. SUFFICES ASSUME Carried(c)
                     PROVE  Carried(c)'
        OBVIOUS
      <4>2. pass' = [pass EXCEPT !.pc = "create", !.full = FALSE, !.periodic = FALSE]
        BY <1>6, <2>1, <4>1 DEF Notify, Carried
      <4>3. pass'.pc = "create" /\ pass'.slice = pass.slice /\ pass'.reuse = pass.reuse
        BY <1>0, <4>2 DEF Passes
      <4> QED BY <2>1, <4>1, <4>3 DEF Carried, Whole, Selected
    <3> QED BY <2>1, <3>1, CallCarried DEF CallsOK, Working, Asked
  <2> QED BY <1>0, <2>1, <2>2 DEF CallsOK, Overtaken
<1>7. CASE (\E n \in Names : Probe(n)) \/ ProbeDone
  <2>1. /\ UNCHANGED <<gen, health, served, call, flags>> /\ Current /\ pass.pc = "probe" /\ pass'.gen = gen
        /\ pass.gen = gen
    <3>1. pass.gen = gen
      BY <1>00, <1>7 DEF Probe, ProbeDone
    <3>2. pass'.gen = pass.gen \/ pass'.gen = gen
      <4>1. \A n \in Names : Probe(n) => pass'.gen = pass.gen
        BY <1>0 DEF Probe, Passes
      <4>2. [pass EXCEPT !.pc = "create"].gen = pass.gen
            /\ [pass EXCEPT !.pc = "create", !.reuse = {}].gen = pass.gen
        BY <1>0 DEF Passes
      <4>3. At("done", gen).gen = gen
        BY DEF At
      <4> QED BY <1>7, <4>1, <4>2, <4>3 DEF ProbeDone
    <3> QED BY <1>7, <3>1, <3>2 DEF Probe, ProbeDone
  <2>2. ASSUME NEW c \in Calls
        PROVE  CallOK(c)'
    BY <2>1, CallCarried DEF CallsOK, Carried, Working, Asked
  <2> QED BY <1>0, <2>1, <2>2 DEF CallsOK, Overtaken
<1>8. ASSUME Create \/ ScanDone \/ \E n \in Names : Read(n)
      PROVE  CallsOK'
  <2>1. /\ UNCHANGED <<gen, health, served, call, snapshot>> /\ Current /\ pass.pc \in {"create", "scan"}
        /\ pass.gen = gen
    BY <1>00, <1>8 DEF Create, ScanDone, Read
  <2>2. Asked => Asked' /\ flags'.reset = flags.reset
    BY <1>0, <1>8, ZenonT(40) DEF Create, ScanDone, Read, Asked, FlagSet
  <2>3. ASSUME NEW p \in Passes, p.gen = gen, StartScan(p)
        PROVE  /\ pass'.gen = gen /\ pass'.pc = "scan" /\ pass'.slice = p.slice /\ pass'.reuse = p.reuse
               /\ \A c \in Calls : call[c] \in {"pending", "running"} /\ p.slice = Selected /\ p.reuse = {}
                    => c \in pass'.covers
    BY <2>3 DEF StartScan, Passes
  <2>4. CASE Create
    <3>1. StartScan(pass)
      BY <2>4 DEF Create
    <3>2. pass'.gen = gen
      BY <1>0, <2>1, <2>3, <3>1
    <3>3. ASSUME NEW c \in Calls, Carried(c), call[c] \in {"pending", "running"}
          PROVE  Carried(c)'
      BY <1>0, <2>1, <2>3, <3>1, <3>3 DEF Carried, Whole, Selected
    <3> QED BY <1>0, <2>1, <2>2, <3>2, <3>3, CallCarried DEF CallsOK, Overtaken, Working
  <2>5. ASSUME NEW n \in Names, Read(n)
        PROVE  CallsOK'
    <3>1. pass' = [pass EXCEPT !.todo = @ \ {n}, !.next[n] = world[n]]
      BY <2>5 DEF Read
    <3>2. /\ pass'.gen = gen /\ pass'.pc = pass.pc /\ pass'.slice = pass.slice /\ pass'.reuse = pass.reuse
          /\ pass'.covers = pass.covers /\ pass'.full = pass.full
      BY <1>0, <2>1, <3>1 DEF Passes
    <3>3. ASSUME NEW c \in Calls, Carried(c)
          PROVE  Carried(c)'
      BY <2>1, <3>2, <3>3 DEF Carried, Whole, Selected
    <3> QED BY <1>0, <2>1, <2>2, <3>2, <3>3, CallCarried DEF CallsOK, Overtaken, Working
  <2>6. CASE ScanDone
    <3> DEFINE again == [pass EXCEPT !.slice = Selected, !.attempt = @ + 1]
               anew  == [again EXCEPT !.reuse = {}]
    <3>1. /\ again \in Passes /\ again.gen = gen /\ again.slice = Selected /\ again.reuse = pass.reuse
          /\ anew \in Passes /\ anew.gen = gen /\ anew.slice = Selected /\ anew.reuse = {}
      <4>1. Selected \in SUBSET Names /\ pass.attempt + 1 \in Nat
        BY SelectedType DEF Passes
      <4> HIDE DEF Selected
      <4> QED BY <1>0, <2>1, <4>1 DEF Passes
    <3>2. pass' = [pass EXCEPT !.pc = "publish"] \/ StartScan(again) \/ StartScan(anew)
      BY <2>6 DEF ScanDone
    <3> HIDE DEF again, anew
    <3>3. CASE pass' = [pass EXCEPT !.pc = "publish"]
      <4>1. /\ pass'.gen = gen /\ pass'.pc = "publish" /\ pass'.slice = pass.slice /\ pass'.reuse = pass.reuse
            /\ pass'.covers = pass.covers
        BY <1>0, <2>1, <3>3 DEF Passes
      <4>2. pass.pc = "scan"
        BY <2>6 DEF ScanDone
      <4>3. ASSUME NEW c \in Calls, Carried(c)
            PROVE  Carried(c)'
        BY <2>1, <4>1, <4>2, <4>3 DEF Carried, Whole, Selected
      <4> QED BY <1>0, <2>1, <2>2, <4>1, <4>3, CallCarried DEF CallsOK, Overtaken, Working
    <3>4. CASE StartScan(again) \/ StartScan(anew)
      <4>1. pass'.gen = gen
        BY <2>3, <3>1, <3>4
      <4>2. ASSUME NEW c \in Calls, Carried(c), call[c] \in {"pending", "running"}
            PROVE  Carried(c)'
        BY <2>1, <2>3, <3>1, <3>4, <4>2 DEF Carried, Whole, Selected
      <4> QED BY <1>0, <2>1, <2>2, <4>1, <4>2, CallCarried DEF CallsOK, Overtaken, Working
    <3> QED BY <3>2, <3>3, <3>4
  <2> QED BY <1>8, <2>4, <2>5, <2>6
<1>9. CASE Publish \/ Ready
  <2>1. /\ UNCHANGED <<gen, health, call, flags>> /\ Current /\ pass.pc \in {"publish", "ready"} /\ pass'.gen = gen
        /\ pass.gen = gen /\ served \subseteq served'
    BY <1>00, <1>9 DEF Publish, Ready, At
  <2>2. ASSUME NEW c \in Calls, Carried(c)
        PROVE  c \in served'
    BY <1>9, <2>2 DEF Carried, Publish, Ready
  <2> QED BY <1>0, <2>1, <2>2, CallCarried DEF CallsOK, Overtaken, Working, Asked
<1>10. CASE Done
  <2>1. /\ call' = [c \in Calls |-> IF call[c] = "running" THEN "resolved" ELSE call[c]]
        /\ UNCHANGED <<gen, health, flags, served>> /\ Current /\ pass.pc = "done"
        /\ pass'.gen = gen /\ pass'.pc \in {"turn", "settle"} /\ pass.gen = gen
    BY <1>00, <1>10 DEF Done, Loop, At
  <2>2. ASSUME NEW c \in Calls
        PROVE  CallOK(c)'
    <3>1. ~Between /\ ~Carried(c) /\ Between'
      BY <2>1 DEF Between, Working, Carried
    <3>2. call[c] = "running" => c \in served
      BY <3>1 DEF CallsOK, CallOK, Promised
    <3>3. call'[c] = call[c] \/ (call[c] = "running" /\ call'[c] = "resolved")
      BY <2>1
    <3> QED BY <2>1, <3>1, <3>2, <3>3 DEF CallsOK, CallOK, Promised, Live, Asked
  <2> QED BY <1>0, <2>1, <2>2 DEF CallsOK, Overtaken
<1>11. CASE Unwind
  <2>1. /\ UNCHANGED <<gen, health.failed, health.terminal, call, flags, served>>
        /\ Between /\ Between' /\ (pass'.gen = pass.gen \/ pass'.gen = gen)
    BY <1>0, <1>11 DEF Unwind, Retired, Between, Working, Loop, At, Passes
  <2> QED BY <1>0, <2>1, CallWaits DEF CallsOK, Overtaken, Asked
<1>12. CASE Clear \/ Restart \/ Settle
  <2>1. gen' = gen /\ served' = served /\ pass'.gen = gen /\ pass'.pc \in {"settle", "turn", "idle"}
    BY <1>12 DEF Clear, Restart, Settle, Lose, Loop, At
  <2>2. Between /\ Between' /\ Overtaken'
    BY <1>0, <1>12, <2>1 DEF Clear, Restart, Settle, Between, Working, Overtaken
  <2>3. call' = RejectCalls \/ (call' = call /\ health' = health /\ flags'.full = flags.full
                                 /\ flags'.reset = flags.reset)
    BY <1>0, <1>12 DEF Clear, Restart, Settle, Lose, FlagSet
  <2> QED BY <2>1, <2>2, <2>3, CallWaits, CallLost DEF CallsOK, Asked
<1>13. CASE FallBack \/ FellBack
  <2>1. /\ UNCHANGED <<gen, health.failed, health.terminal, call, flags, served>>
        /\ {pass.pc, pass'.pc} = {"scan", "fallback"}
        /\ UNCHANGED <<pass.gen, pass.slice, pass.reuse, pass.covers>>
    BY <1>0, <1>13 DEF FallBack, FellBack, Retired, Passes
  <2>2. (Between <=> Between') /\ \A c \in Calls : Carried(c) <=> Carried(c)'
    BY <2>1 DEF Between, Working, Carried, Whole, Selected
  <2> QED BY <1>0, <2>1, <2>2 DEF CallsOK, CallOK, Promised, Overtaken, Asked, Live
<1> QED BY <1>1, <1>2, <1>3, <1>4, <1>5, <1>6, <1>7, <1>8, <1>9, <1>10, <1>11, <1>12, <1>13
        DEF PassStep

\* A call of reconcile() resolves only after a complete pass that started after it
\* and whose snapshot was adopted, whatever is requested, replaced, closed or fails
\* in between (watch.ts:403-425, 447-461).
THEOREM ReconcileResolves == Spec => []ReconcileComplete
<1> DEFINE Inv == TypeOK /\ CallsOK
<1>1. Init => Inv
  <2> SUFFICES ASSUME Init
               PROVE  CallsOK
    BY InitType
  <2>1. pass.gen = gen /\ gen = 0
    BY DEF Init, At
  <2> QED BY <2>1 DEF Init, CallsOK, Overtaken, CallOK, Promised
<1>2. Inv /\ [Next]_vars => Inv'
  <2> SUFFICES ASSUME Inv, [Next]_vars
               PROVE  Inv'
    OBVIOUS
  <2>1. TypeOK'
    BY TypeStep
  <2>2. CASE Next
    BY <2>1, <2>2, CallsRequests, CallsPass DEF Next
  <2>3. CASE UNCHANGED vars
    <3>1. UNCHANGED <<call, gen, health, served, snapshot, pass, flags>>
      BY <2>3 DEF vars
    <3>2. Overtaken' /\ (Asked => Asked')
      BY <3>1 DEF CallsOK, Overtaken, Asked
    <3>3. ASSUME NEW c \in Calls
          PROVE  CallOK(c)'
      BY <3>1, <3>2, CallKept DEF CallsOK
    <3> QED BY <2>1, <3>2, <3>3 DEF CallsOK
  <2> QED BY <2>1, <2>2, <2>3
<1>3. Inv => ReconcileComplete
  BY DEF CallsOK, CallOK, ReconcileComplete
<1> QED BY <1>1, <1>2, <1>3, PTL DEF Spec

-----------------------------------------------------------------------------
(* Hints.                                                                  *)

\* What was observed is not newer than what the consumer has read, and that not
\* newer than the file system; a scan keeps to the scopes of its pass, and what it
\* reuses is as it was observed.
OrderOK ==
  /\ \A n \in Names : cache[n] <= world[n]
  /\ snapshot # None => \A n \in Names : snapshot[n] <= cache[n]
  /\ \A n \in noted : cache[n] < world[n]

ScanOK ==
  /\ pass.slice \subseteq Selected
  /\ pass.pc = "probe" => snapshot # None
  /\ pass.pc \in {"scan", "fallback"} =>
       /\ pass.todo \subseteq Selected /\ pass.todo \cap pass.reuse = {}
       /\ snapshot # None => \A n \in pass.reuse : pass.next[n] = snapshot[n]
  /\ pass.pc \in {"scan", "fallback", "publish"} =>
       \A n \in Names :
         /\ pass.next[n] <= world[n]
         /\ n \notin Selected => pass.next[n] = IF snapshot = None THEN 0 ELSE snapshot[n]

\* A hint that the next turn of the pump takes over, and that turn to come.
HintWaits(n) == flags.hint /\ (hints \in {Lost, Folded} \/ n \in hints)

Retiring == pass.gen = gen /\ pass.pc \in {"retire", "retired"}

TurnComes == hintTimer \/ (~Idle /\ flags.pending) \/ Retiring

Differs(n) == snapshot # None => pass.next[n] # snapshot[n]

\* The pass under way will tell the consumer of the name.
InPass(n) ==
  /\ pass.gen = gen
  /\ \/ /\ pass.pc = "admit" /\ pass.slice = Selected /\ pass.reuse = {}
        /\ pass.hints = Folded \/ n \in pass.hints
     \/ pass.pc = "notify" /\ n \in pass.slice /\ pass.reuse = {}
     \/ pass.pc \in {"probe", "create"} /\ n \in pass.slice /\ n \notin pass.reuse
     \/ pass.pc \in {"scan", "fallback"} /\ (n \in pass.todo \/ Differs(n))
     \/ pass.pc = "publish" /\ Differs(n)

Remembered(n) == (HintWaits(n) /\ TurnComes) \/ InPass(n)

HintsOK == Live => \A n \in noted \cap Scope[gen] : Remembered(n)

LEMMA OrderStep ==
  ASSUME TypeOK, TypeOK', OrderOK, ScanOK, Next
  PROVE  OrderOK'
<1> USE DEF TypeOK, WorldOK, OrderOK
<1>1. ASSUME NEW n \in Names, Hint(n)
      PROVE  OrderOK'
  BY <1>1 DEF Hint
<1>2. ASSUME NEW n \in Names, Change(n)
      PROVE  OrderOK'
  BY <1>2 DEF Change
<1>3. CASE Publish
  <2>1. PICK lost \in BOOLEAN :
          /\ cache' = [n \in Names |-> IF n \in Details(lost) THEN world[n] ELSE cache[n]]
          /\ noted' = noted \ Details(lost)
    BY <1>3 DEF Publish
  <2>2. snapshot' = pass.next /\ world' = world /\ pass.pc = "publish"
    BY <1>3 DEF Publish
  <2>3. /\ snapshot = None => Details(lost) = Selected
        /\ \A n \in Selected : n \in Details(lost) \/ pass.next[n] = snapshot[n]
    BY DEF Details
  <2>4. ASSUME NEW n \in Names
        PROVE  /\ cache'[n] <= world'[n]
               /\ snapshot'[n] <= cache'[n]
               /\ n \in noted' => cache'[n] < world'[n]
    <3>1. pass.next[n] <= world[n] /\ pass.next[n] \in Nat
          /\ (n \notin Selected => pass.next[n] = IF snapshot = None THEN 0 ELSE snapshot[n])
      BY <2>2 DEF ScanOK, Passes
    <3>2. CASE n \in Details(lost)
      BY <2>1, <2>2, <3>1, <3>2
    <3>3. CASE n \notin Details(lost)
      <4>1. cache'[n] = cache[n] /\ snapshot'[n] = pass.next[n]
        BY <2>1, <2>2, <3>3
      <4>2. pass.next[n] <= cache[n]
        BY <2>3, <3>1, <3>3
      <4> QED BY <2>1, <2>2, <4>1, <4>2
    <3> QED BY <3>2, <3>3
  <2> QED BY <2>1, <2>4
<1>4. CASE SetScopes
  BY <1>4 DEF SetScopes
<1>5. ASSUME UNCHANGED <<world, cache>>, noted' = noted, snapshot' = snapshot \/ snapshot' = None
      PROVE  OrderOK'
  BY <1>5
<1> USE DEF outside, settled, transport, requests, promises, Quiet, Unchanged
<1>6. CASE \/ \E c \in Calls : Reconcile(c)
           \/ TimerFires \/ HintTimerFires \/ HintLost \/ HintError \/ Close \/ Join
  BY <1>5, <1>6 DEF Reconcile, TimerFires, HintTimerFires, HintLost, HintError, Close, Join
<1>7. CASE \E pc : Stale(pc) \/ Fails(pc)
  BY <1>5, <1>7 DEF Stale, Fails, Throw
<1>8. CASE Turn \/ Retire \/ AfterRetire \/ Admit \/ Notify \/ ProbeDone
  BY <1>5, <1>8 DEF Turn, Retire, AfterRetire, Admit, Notify, ProbeDone
<1>9. CASE Create \/ FallBack \/ FellBack \/ ScanDone \/ \E n \in Names : Probe(n) \/ Read(n)
  BY <1>5, <1>9 DEF Create, FallBack, FellBack, ScanDone, Probe, Read
<1>10. CASE Ready \/ Done \/ Unwind \/ Clear \/ Settle \/ RetireIdle \/ Restart
  BY <1>5, <1>10 DEF Ready, Done, Unwind, Clear, Settle, RetireIdle, Restart
<1> QED BY <1>1, <1>2, <1>3, <1>4, <1>6, <1>7, <1>8, <1>9, <1>10 DEF Next, PassStep

\* A step that leaves the pass of its scan alone, or starts another one.
LEMMA ScanKept ==
  ASSUME TypeOK, ScanOK, UNCHANGED <<pass, snapshot>>, \A n \in Names : world[n] <= world'[n],
         world' \in [Names -> Nat]
  PROVE  ScanOK'
<1> USE DEF TypeOK, WorldOK
<1>1. Selected' = Selected
  BY DEF Selected
<1>2. ASSUME NEW n \in Names, pass.next[n] <= world[n]
      PROVE  pass'.next[n] <= world'[n]
  BY <1>2 DEF Passes
<1> QED BY <1>1, <1>2 DEF ScanOK

LEMMA ScanReset ==
  ASSUME NEW pc, NEW g, pc \notin {"probe", "scan", "fallback", "publish"}, pass' = At(pc, g)
  PROVE  ScanOK'
<1>1. pass'.pc = pc /\ pass'.slice = {}
  BY DEF At
<1> QED BY <1>1 DEF ScanOK

LEMMA ScanStarts ==
  ASSUME TypeOK, OrderOK, NEW p \in Passes, StartScan(p), p.slice \subseteq Scope[p.gen],
         UNCHANGED <<world, snapshot>>
  PROVE  ScanOK'
<1>1. /\ pass'.pc = "scan" /\ pass'.slice = p.slice /\ pass'.todo = p.slice \ p.reuse
      /\ pass'.next = IF snapshot = None THEN Zero ELSE snapshot
      /\ pass'.gen = p.gen /\ pass'.reuse = p.reuse
  BY DEF StartScan, Passes
<1>2. ASSUME NEW n \in Names
      PROVE  /\ pass'.next[n] <= world[n]
             /\ pass'.next[n] = IF snapshot = None THEN 0 ELSE snapshot[n]
  BY <1>1 DEF Zero, OrderOK, TypeOK, WorldOK
<1> QED BY <1>1, <1>2 DEF ScanOK, Selected

LEMMA ScanStep ==
  ASSUME TypeOK, TypeOK', OrderOK, ScanOK, Next
  PROVE  ScanOK'
<1> USE DEF TypeOK, WorldOK, outside, settled, transport, requests, promises, Quiet, Unchanged
<1>0. pass \in Passes /\ \A n \in Names : world[n] \in Nat /\ world[n] <= world[n]
  OBVIOUS
<1>1. CASE TimerFires \/ HintTimerFires \/ \E c \in Calls : Reconcile(c)
  <2>1. pass' = pass \/ pass' = At("turn", gen)
    BY <1>1 DEF TimerFires, HintTimerFires, Reconcile, Pump
  <2>2. UNCHANGED <<world, snapshot>>
    BY <1>1 DEF TimerFires, HintTimerFires, Reconcile
  <2> QED BY <1>0, <2>1, <2>2, ScanKept, ScanReset
<1>2. ASSUME NEW n \in Names, Change(n)
      PROVE  ScanOK'
  <2>1. \A m \in Names : world[m] <= world'[m]
    BY <1>2 DEF Change
  <2>2. UNCHANGED <<pass, snapshot>>
    BY <1>2 DEF Change
  <2> QED BY <2>1, <2>2, ScanKept
<1>3. CASE (\E n \in Names : Hint(n)) \/ HintLost \/ HintError \/ Close \/ Join
  BY <1>0, <1>3, ScanKept DEF Hint, HintLost, HintError, Close, Join
<1>4. CASE SetScopes
  BY <1>0, <1>4, ScanKept, ScanReset DEF SetScopes
<1>5. CASE \E pc : Stale(pc) \/ Fails(pc)
  BY <1>5, ScanReset DEF Stale, Fails, Throw
<1>6. ASSUME NEW f \in FlagSet, Consume(f)
      PROVE  ScanOK'
  <2>1. pass'.pc \in {"admit", "notify"} /\ pass'.slice = Scope[pass'.gen]
    BY <1>6, ConsumeFacts
  <2> QED BY <2>1 DEF ScanOK, Selected
<1>7. CASE Turn
  <2>1. flags \in FlagSet /\ [flags EXCEPT !.pending = FALSE] \in FlagSet
    BY DEF ControlOK, FlagSet
  <2>2. pass' = At("retire", gen) \/ Consume([flags EXCEPT !.pending = FALSE])
    BY <1>7 DEF Turn
  <2> QED BY <1>6, <2>1, <2>2, ScanReset
<1>8. CASE AfterRetire
  <2>1. [flags EXCEPT !.refresh = FALSE, !.reset = FALSE, !.full = @ \/ flags.refresh] \in FlagSet
    BY ZenonT(40) DEF ControlOK, FlagSet
  <2> QED BY <1>6, <1>8, <2>1 DEF AfterRetire
<1>9. CASE Retire \/ RetireIdle
  <2>1. pass'.pc \in {"retired", "restart"} /\ pass'.slice = pass.slice /\ pass'.gen = pass.gen
    BY <1>9 DEF Retire, RetireIdle, Passes
  <2> QED BY <2>1 DEF ScanOK, Selected
<1>10. CASE Admit
  <2>1. pass.gen \in Generations
    BY DEF Passes
  <2>2. \/ pass' = At("done", gen)
        \/ pass' = [pass EXCEPT !.pc = "notify"]
        \/ pass' = [pass EXCEPT !.pc = "notify", !.slice = pass.hints \cap Selected]
    BY <1>10 DEF Admit
  <2>3. \/ pass' = At("done", gen)
        \/ pass'.pc = "notify" /\ pass'.slice \subseteq Selected /\ pass'.gen = pass.gen
    BY <2>2 DEF Passes, ScanOK
  <2> QED BY <2>3, ScanReset DEF ScanOK, Selected
<1>11. CASE Notify
  <2>1. /\ pass'.slice = pass.slice /\ pass'.gen = pass.gen /\ snapshot' = snapshot
        /\ pass'.pc = "create" \/ (pass'.pc = "probe" /\ snapshot # None)
    BY <1>11 DEF Notify, Passes
  <2> QED BY <2>1 DEF ScanOK, Selected
<1>12. ASSUME NEW n \in Names, Probe(n)
       PROVE  ScanOK'
  <2>1. /\ pass'.slice = pass.slice /\ pass'.gen = pass.gen /\ snapshot' = snapshot
        /\ pass'.pc = "probe" /\ pass.pc = "probe"
    BY <1>12 DEF Probe, Passes
  <2> QED BY <2>1 DEF ScanOK, Selected
<1>13. CASE ProbeDone
  <2>1. \/ pass' = At("done", gen)
        \/ pass' = [pass EXCEPT !.pc = "create"] \/ pass' = [pass EXCEPT !.pc = "create", !.reuse = {}]
    BY <1>13 DEF ProbeDone
  <2>2. \/ pass' = At("done", gen)
        \/ pass'.pc = "create" /\ pass'.slice = pass.slice /\ pass'.gen = pass.gen
    BY <2>1 DEF Passes
  <2> QED BY <2>2, ScanReset DEF ScanOK, Selected
<1>14. CASE Create
  BY <1>0, <1>14, ScanStarts DEF Create, ScanOK, Selected
<1>15. ASSUME NEW n \in Names, Read(n)
       PROVE  ScanOK'
  <2>1. /\ pass'.slice = pass.slice /\ pass'.gen = pass.gen /\ UNCHANGED <<world, snapshot>>
        /\ pass'.pc = "scan" /\ pass.pc = "scan" /\ pass'.todo \subseteq pass.todo /\ n \in pass.todo
        /\ pass'.reuse = pass.reuse /\ pass.reuse \subseteq Names
    BY <1>15 DEF Read, Passes
  <2>2. ASSUME NEW m \in Names
        PROVE  pass'.next[m] = IF m = n THEN world[m] ELSE pass.next[m]
    BY <1>15 DEF Read, Passes
  <2>3. \A m \in pass.reuse : pass'.next[m] = pass.next[m]
    BY <2>1, <2>2 DEF ScanOK
  <2>4. \A m \in Names : pass'.next[m] <= world[m] /\ (m \notin Selected => m # n)
    BY <1>0, <2>1, <2>2 DEF ScanOK
  <2> QED BY <2>1, <2>2, <2>3, <2>4 DEF ScanOK, Selected
<1>16. CASE ScanDone
  <2> DEFINE again == [pass EXCEPT !.slice = Selected, !.attempt = @ + 1]
             anew  == [again EXCEPT !.reuse = {}]
  <2>1. /\ again \in Passes /\ again.gen = pass.gen /\ again.slice = Selected
        /\ anew \in Passes /\ anew.gen = pass.gen /\ anew.slice = Selected
    <3>1. Selected \in SUBSET Names /\ pass.attempt + 1 \in Nat
      BY SelectedType DEF Passes
    <3> HIDE DEF Selected
    <3> QED BY <3>1 DEF Passes
  <2>2. pass' = [pass EXCEPT !.pc = "publish"] \/ StartScan(again) \/ StartScan(anew)
    BY <1>16 DEF ScanDone
  <2>3. pass.pc = "scan" /\ UNCHANGED <<world, snapshot>>
    BY <1>16 DEF ScanDone
  <2> HIDE DEF again, anew
  <2>4. CASE pass' = [pass EXCEPT !.pc = "publish"]
    <3>1. pass'.slice = pass.slice /\ pass'.gen = pass.gen /\ pass'.pc = "publish" /\ pass'.next = pass.next
      BY <2>4 DEF Passes
    <3> QED BY <2>3, <3>1 DEF ScanOK, Selected
  <2>5. CASE StartScan(again) \/ StartScan(anew)
    BY <2>1, <2>3, <2>5, ScanStarts DEF Selected
  <2> QED BY <2>2, <2>4, <2>5
<1>17. CASE Publish \/ Ready \/ Done \/ Clear \/ Settle \/ Restart
  BY <1>17, ScanReset DEF Publish, Ready, Done, Clear, Settle, Restart, Loop
<1>18. CASE Unwind
  <2>1. \/ \E pc \in {"turn", "settle"} : pass' = At(pc, gen)
        \/ pass'.pc = "clear" /\ pass'.slice = pass.slice /\ pass'.gen = pass.gen
    BY <1>18 DEF Unwind, Loop, Passes
  <2> QED BY <2>1, ScanReset DEF ScanOK, Selected
<1>19. CASE FallBack \/ FellBack
  <2>1. /\ {pass.pc, pass'.pc} = {"scan", "fallback"} /\ UNCHANGED <<world, snapshot>>
        /\ UNCHANGED <<pass.gen, pass.slice, pass.reuse, pass.todo, pass.next>>
    BY <1>19 DEF FallBack, FellBack, Passes
  <2> QED BY <2>1 DEF ScanOK, Selected
<1> QED BY <1>1, <1>2, <1>3, <1>4, <1>5, <1>7, <1>8, <1>9, <1>10, <1>11, <1>12, <1>13, <1>14,
           <1>15, <1>16, <1>17, <1>18, <1>19 DEF Next, PassStep

\* A hint that waits goes on waiting, or the turn takes it over.
LEMMA HintWaitsOn ==
  ASSUME NEW n, HintWaits(n) /\ TurnComes,
         UNCHANGED <<flags.hint, hints>>, TurnComes'
  PROVE  Remembered(n)'
  BY DEF Remembered, HintWaits

LEMMA HintConsumed ==
  ASSUME TypeOK, TypeOK', NEW n \in Names, n \in Scope[gen], HintWaits(n), UNCHANGED gen,
         NEW f \in FlagSet, f.hint = flags.hint, Consume(f)
  PROVE  Remembered(n)'
<1>1. /\ pass'.gen = gen /\ pass'.slice = Scope[gen] /\ pass'.reuse = {} /\ pass'.hints = hints
      /\ pass'.pc \in {"admit", "notify"} /\ (hints = Lost => pass'.pc = "notify")
  BY ConsumeFacts
<1>2. hints = Lost \/ hints = Folded \/ n \in hints
  BY DEF HintWaits
<1> QED BY <1>1, <1>2 DEF Remembered, InPass, Selected

\* A step that leaves the pass and the hints alone.
LEMMA HintsKept ==
  ASSUME HintsOK, Live' => Live, UNCHANGED <<gen, pass, snapshot, noted, flags.hint, hints>>,
         TurnComes => TurnComes'
  PROVE  HintsOK'
  BY DEF HintsOK, Remembered, HintWaits, InPass, Differs, Selected

LEMMA HintsRequests ==
  ASSUME TypeOK, TypeOK', OrderOK, HintsOK,
         \/ \E c \in Calls : Reconcile(c)
         \/ TimerFires \/ HintTimerFires
         \/ \E n \in Names : Hint(n) \/ Change(n)
         \/ HintLost \/ HintError \/ SetScopes \/ Close \/ Join
  PROVE  HintsOK'
<1> USE DEF outside, settled, transport, requests, promises
<1>0. flags \in FlagSet
      /\ health \in [failed: BOOLEAN, broken: BOOLEAN, terminal: BOOLEAN, joined: BOOLEAN]
  BY DEF TypeOK, ControlOK
<1>1. CASE TimerFires \/ HintTimerFires \/ \E c \in Calls : Reconcile(c)
  <2>1. UNCHANGED <<gen, health, snapshot, noted, hints>> /\ flags'.hint = flags.hint
    BY <1>0, <1>1 DEF TimerFires, HintTimerFires, Reconcile, FlagSet
  <2>2. (Pump /\ flags'.pending) \/ UNCHANGED <<pass, flags, hintTimer>>
    BY <1>0, <1>1 DEF TimerFires, HintTimerFires, Reconcile, FlagSet
  <2>3. CASE Pump /\ flags'.pending
    <3>1. pass' = pass \/ (Idle /\ pass'.gen = gen /\ pass'.pc = "turn")
      BY <2>3, PumpFacts
    <3>2. TurnComes'
      BY <2>3, PumpFacts DEF TurnComes, Idle
    <3>3. CASE pass' = pass
      BY <2>1, <3>2, <3>3, HintsKept DEF Live
    <3>4. CASE Idle
      <4>1. \A n : ~InPass(n)
        BY <3>4 DEF InPass, Idle
      <4> QED BY <2>1, <3>2, <4>1, HintWaitsOn DEF HintsOK, Remembered, Live
    <3> QED BY <3>1, <3>3, <3>4
  <2>4. CASE UNCHANGED <<pass, flags, hintTimer>>
    BY <2>1, <2>4, HintsKept DEF Live, TurnComes, Retiring, Idle
  <2> QED BY <2>2, <2>3, <2>4
<1>2. ASSUME NEW n \in Names, Hint(n)
      PROVE  HintsOK'
  <2>1. flags'.hint
    <3>1. PICK renamed, stale \in BOOLEAN :
            flags' = [flags EXCEPT !.hint = TRUE, !.pending = TRUE, !.uncertain = @ \/ renamed,
                                   !.refresh = @ \/ stale]
      BY <1>2 DEF Hint
    <3> QED BY <1>0, <3>1 DEF FlagSet
  <2>2. hintTimer' /\ hints' = Noted(n) /\ noted' \subseteq noted \cup {n}
        /\ UNCHANGED <<gen, health, snapshot, pass>>
    BY <1>2 DEF Hint
  <2>3. ASSUME NEW m \in noted', m \in Scope[gen], Live
        PROVE  Remembered(m)'
    <3>1. CASE m = n \/ HintWaits(m)
      <4>1. HintWaits(m)'
        BY <2>1, <2>2, <3>1, NotedType DEF HintWaits
      <4> QED BY <2>2, <4>1 DEF Remembered, TurnComes
    <3>2. CASE m # n /\ ~HintWaits(m)
      <4>1. InPass(m)
        BY <2>2, <2>3, <3>2 DEF HintsOK, Remembered
      <4> QED BY <2>2, <4>1 DEF Remembered, InPass, Differs, Selected
    <3> QED BY <3>1, <3>2
  <2> QED BY <2>2, <2>3 DEF HintsOK, Live
<1>3. ASSUME NEW n \in Names, Change(n)
      PROVE  HintsOK'
  BY <1>3, HintsKept DEF Change, Live, TurnComes, Retiring, Idle
<1>4. CASE HintLost
  <2>1. flags'.hint /\ hintTimer' /\ (hints' = Lost \/ hints' = hints)
        /\ UNCHANGED <<gen, health, snapshot, pass, noted>>
    BY <1>0, <1>4 DEF HintLost, FlagSet
  <2>2. ASSUME NEW m \in noted, m \in Scope[gen], Live
        PROVE  Remembered(m)'
    <3>1. CASE HintWaits(m)
      BY <2>1, <3>1 DEF Remembered, HintWaits, TurnComes
    <3>2. CASE ~HintWaits(m)
      BY <2>1, <2>2, <3>2 DEF HintsOK, Remembered, InPass, Differs, Selected
    <3> QED BY <3>1, <3>2
  <2> QED BY <2>1, <2>2 DEF HintsOK, Live
<1>5. CASE HintError \/ Close
  <2>1. ~Live'
    BY <1>0, <1>5 DEF HintError, Lose, Close, Live
  <2> QED BY <2>1 DEF HintsOK
<1>6. CASE SetScopes
  BY <1>6 DEF SetScopes, HintsOK
<1>7. CASE Join
  <2>1. ~Live'
    BY <1>0, <1>7 DEF Join, Live
  <2> QED BY <2>1 DEF HintsOK
<1> QED BY <1>1, <1>2, <1>3, <1>4, <1>5, <1>6, <1>7

\* A step that leaves the hints that wait alone, and every name of the pass in it.
LEMMA HintsCarried ==
  ASSUME HintsOK, Live' => Live, UNCHANGED <<gen, flags.hint, hints>>, noted' \subseteq noted,
         TurnComes => TurnComes',
         \A n \in noted' \cap Scope[gen] : InPass(n) => InPass(n)'
  PROVE  HintsOK'
  BY DEF HintsOK, Remembered, HintWaits

\* A step of a pass under way keeps the turn to come.
LEMMA TurnKept ==
  ASSUME pass.pc \notin {"retire", "retired"}, pass'.pc # "idle", hintTimer' = hintTimer,
         flags.pending => flags'.pending
  PROVE  TurnComes => TurnComes'
  BY DEF TurnComes, Retiring, Idle

LEMMA HintsThrow ==
  ASSUME TypeOK, HintsOK, Throw, noted' = noted
  PROVE  HintsOK'
<1> USE DEF settled, transport, requests
<1>0. health \in [failed: BOOLEAN, broken: BOOLEAN, terminal: BOOLEAN, joined: BOOLEAN]
  BY DEF TypeOK, ControlOK
<1>1. CASE Live /\ Now = gen
  <2>1. ~Live'
    BY <1>0, <1>1 DEF Throw, Lose, Live
  <2> QED BY <2>1 DEF HintsOK
<1>2. CASE Live /\ Now # gen
  <2>1. /\ UNCHANGED <<gen, health, flags, hints, hintTimer>>
        /\ pass'.pc = "unwind" /\ pass.gen # gen
    BY <1>2 DEF Throw, At, Now
  <2>2. TurnComes => TurnComes'
    BY <2>1 DEF TurnComes, Retiring, Idle
  <2>3. \A n : ~InPass(n)
    BY <2>1 DEF InPass
  <2> QED BY <2>1, <2>2, <2>3, HintsCarried DEF Live
<1>3. CASE ~Live
  <2>1. ~Live'
    BY <1>0, <1>3 DEF Throw, Lose, Live
  <2> QED BY <2>1 DEF HintsOK
<1> QED BY <1>1, <1>2, <1>3

LEMMA HintsPass ==
  ASSUME TypeOK, TypeOK', OrderOK, ScanOK, HintsOK,
         \/ PassStep
         \/ \E pc \in {"notify", "scan", "publish", "ready"} : Fails(pc)
  PROVE  HintsOK'
<1> USE DEF outside, settled, transport, requests, promises, Quiet, Unchanged
<1>0. /\ gen \in Generations /\ pass \in Passes /\ flags \in FlagSet /\ noted \subseteq Names
      /\ health \in [failed: BOOLEAN, broken: BOOLEAN, terminal: BOOLEAN, joined: BOOLEAN]
  BY DEF TypeOK, ControlOK, WorldOK
<1>00. ASSUME pass.pc # "turn", Current
       PROVE  pass.gen = gen
  BY <1>00 DEF Current, Now
<1>1. ASSUME NEW pc, Stale(pc) \/ Fails(pc)
      PROVE  HintsOK'
  BY <1>1, HintsThrow DEF Stale, Fails
<1>2. CASE Turn
  <2>1. UNCHANGED <<gen, health, snapshot, noted>> /\ pass.pc = "turn"
    BY <1>2 DEF Turn
  <2>2. \A n : ~InPass(n)
    BY <2>1 DEF InPass
  <2>3. CASE flags.refresh \/ flags.reset
    <3>1. /\ pass' = At("retire", gen) /\ flags' = [flags EXCEPT !.pending = FALSE]
          /\ hints' = hints
      BY <1>2, <2>3 DEF Turn
    <3>2. flags'.hint = flags.hint /\ TurnComes'
      BY <1>0, <2>1, <3>1 DEF FlagSet, At, TurnComes, Retiring
    <3> QED BY <2>1, <2>2, <3>1, <3>2, HintsCarried DEF Live
  <2>4. CASE ~(flags.refresh \/ flags.reset)
    <3> DEFINE f == [flags EXCEPT !.pending = FALSE]
    <3>1. f \in FlagSet /\ f.hint = flags.hint
      BY <1>0 DEF FlagSet
    <3>2. Consume(f)
      BY <1>2, <2>4 DEF Turn
    <3> HIDE DEF f
    <3>3. ASSUME NEW n \in noted, n \in Scope[gen], HintWaits(n)
          PROVE  Remembered(n)'
      BY <1>0, <2>1, <3>1, <3>2, <3>3, HintConsumed
    <3> QED BY <2>1, <2>2, <3>3 DEF HintsOK, Remembered, Live
  <2> QED BY <2>3, <2>4
<1>3. CASE Retire \/ RetireIdle
  <2>1. /\ UNCHANGED <<gen, health.failed, health.terminal, noted, flags, hints, hintTimer>>
        /\ pass' = [pass EXCEPT !.pc = "retired"] \/ pass' = [pass EXCEPT !.pc = "restart"]
        /\ (pass.pc = "retire" /\ pass' = [pass EXCEPT !.pc = "retired"]) \/ pass.pc = "retiring"
    BY <1>0, <1>3 DEF Retire, RetireIdle, Retired
  <2>2. /\ pass'.gen = pass.gen /\ pass'.pc \in {"retired", "restart"}
        /\ (pass.pc = "retire" /\ pass'.pc = "retired") \/ pass.pc = "retiring"
    BY <1>0, <2>1 DEF Passes
  <2>3. TurnComes => TurnComes'
    BY <2>1, <2>2 DEF TurnComes, Retiring, Idle
  <2>4. \A n : ~InPass(n)
    BY <2>2 DEF InPass
  <2> QED BY <2>1, <2>3, <2>4, HintsCarried DEF Live
<1>4. CASE AfterRetire
  <2> DEFINE f == [flags EXCEPT !.refresh = FALSE, !.reset = FALSE, !.full = @ \/ flags.refresh]
  <2>1. f \in FlagSet /\ f.hint = flags.hint
    BY <1>0 DEF FlagSet
  <2>2. Consume(f) /\ pass.pc = "retired" /\ UNCHANGED <<gen, health, noted>>
    BY <1>4 DEF AfterRetire
  <2> HIDE DEF f
  <2>3. \A n : ~InPass(n)
    BY <2>2 DEF InPass
  <2>4. ASSUME NEW n \in noted, n \in Scope[gen], HintWaits(n)
        PROVE  Remembered(n)'
    BY <1>0, <2>1, <2>2, <2>4, HintConsumed
  <2> QED BY <2>2, <2>3, <2>4 DEF HintsOK, Remembered, Live
<1>5. CASE Admit
  <2>1. /\ UNCHANGED <<gen, health, noted, flags, hints, hintTimer>>
        /\ pass.pc = "admit" /\ pass.gen = gen
    BY <1>00, <1>5 DEF Admit
  <2>2. \/ pass.hints # Folded /\ pass.hints \cap Selected = {} /\ pass' = At("done", gen)
        \/ pass.hints # Folded /\ pass' = [pass EXCEPT !.pc = "notify", !.slice = pass.hints \cap Selected]
        \/ pass' = [pass EXCEPT !.pc = "notify"]
    BY <1>5 DEF Admit
  <2>3. \/ pass.hints # Folded /\ pass.hints \cap Selected = {} /\ pass'.pc = "done"
        \/ /\ pass.hints # Folded /\ pass'.pc = "notify" /\ pass'.slice = pass.hints \cap Selected
           /\ pass'.gen = pass.gen /\ pass'.reuse = pass.reuse
        \/ /\ pass'.pc = "notify" /\ pass'.slice = pass.slice
           /\ pass'.gen = pass.gen /\ pass'.reuse = pass.reuse
    <3>1. CASE pass' = At("done", gen) /\ pass.hints # Folded /\ pass.hints \cap Selected = {}
      BY <3>1 DEF At
    <3>2. CASE /\ pass' = [pass EXCEPT !.pc = "notify", !.slice = pass.hints \cap Selected]
               /\ pass.hints # Folded
      BY <1>0, <3>2 DEF Passes
    <3>3. CASE pass' = [pass EXCEPT !.pc = "notify"]
      BY <1>0, <3>3 DEF Passes
    <3> QED BY <2>2, <3>1, <3>2, <3>3
  <2>4. ASSUME NEW n \in noted, n \in Scope[gen], InPass(n)
        PROVE  InPass(n)'
    <3>1. /\ pass.slice = Selected /\ pass.reuse = {} /\ n \in Selected
          /\ pass.hints = Folded \/ n \in pass.hints
      BY <2>1, <2>4 DEF InPass, Selected
    <3> QED BY <2>1, <2>3, <3>1 DEF InPass
  <2>5. TurnComes => TurnComes'
    BY <2>1, <2>3, TurnKept
  <2> QED BY <2>1, <2>4, <2>5, HintsCarried DEF Live
<1>6. CASE Notify
  <2>1. /\ UNCHANGED <<gen, health, noted, flags, hints, hintTimer>>
        /\ pass.pc = "notify" /\ pass.gen = gen
    BY <1>00, <1>6 DEF Notify
  <2>2. /\ pass'.slice = pass.slice /\ pass'.gen = pass.gen /\ pass'.reuse = pass.reuse
        /\ pass'.pc \in {"probe", "create"}
    BY <1>0, <1>6 DEF Notify, Passes
  <2>3. ASSUME NEW n \in noted, InPass(n)
        PROVE  InPass(n)'
    BY <2>1, <2>2, <2>3 DEF InPass
  <2>4. TurnComes => TurnComes'
    BY <2>1, <2>2, TurnKept
  <2> QED BY <2>1, <2>3, <2>4, HintsCarried DEF Live
<1>7. ASSUME NEW m \in Names, Probe(m)
      PROVE  HintsOK'
  <2>1. /\ UNCHANGED <<gen, health, noted, flags, hints, hintTimer>>
        /\ pass.pc = "probe" /\ pass.gen = gen
    BY <1>00, <1>7 DEF Probe
  <2>2. /\ pass'.slice = pass.slice /\ pass'.gen = pass.gen /\ pass'.pc = pass.pc
        /\ pass'.reuse = IF world[m] = snapshot[m] THEN pass.reuse \cup {m} ELSE pass.reuse
    BY <1>0, <1>7 DEF Probe, Passes
  <2>3. ASSUME NEW n \in noted, InPass(n)
        PROVE  InPass(n)'
    <3>1. snapshot[n] <= cache[n] /\ cache[n] < world[n]
      BY <1>0, <2>1 DEF OrderOK, ScanOK
    <3>2. snapshot[n] # world[n]
      BY <1>0, <2>1, <3>1 DEF ScanOK, TypeOK, WorldOK
    <3> QED BY <2>1, <2>2, <2>3, <3>2 DEF InPass
  <2>4. TurnComes => TurnComes'
    BY <2>1, <2>2, TurnKept
  <2> QED BY <2>1, <2>3, <2>4, HintsCarried DEF Live
<1>8. CASE ProbeDone
  <2>1. /\ UNCHANGED <<gen, health, noted, flags, hints, hintTimer>>
        /\ pass.pc = "probe" /\ pass.gen = gen
    BY <1>00, <1>8 DEF ProbeDone
  <2>2. \/ pass' = At("done", gen) /\ pass.reuse = Selected
        \/ pass' = [pass EXCEPT !.pc = "create"] \/ pass' = [pass EXCEPT !.pc = "create", !.reuse = {}]
    BY <1>8 DEF ProbeDone
  <2>3. \/ pass'.pc = "done" /\ pass.reuse = Selected
        \/ /\ pass'.slice = pass.slice /\ pass'.gen = pass.gen /\ pass'.pc = "create"
           /\ pass'.reuse \subseteq pass.reuse
    <3>1. CASE pass' = At("done", gen) /\ pass.reuse = Selected
      BY <3>1 DEF At
    <3>2. CASE pass' = [pass EXCEPT !.pc = "create"]
      BY <1>0, <3>2 DEF Passes
    <3>3. CASE pass' = [pass EXCEPT !.pc = "create", !.reuse = {}]
      BY <1>0, <3>3 DEF Passes
    <3> QED BY <2>2, <3>1, <3>2, <3>3
  <2>4. ASSUME NEW n \in noted, n \in Scope[gen], InPass(n)
        PROVE  InPass(n)'
    BY <2>1, <2>3, <2>4 DEF InPass, Selected
  <2>5. TurnComes => TurnComes'
    BY <2>1, <2>3, TurnKept
  <2> QED BY <2>1, <2>4, <2>5, HintsCarried DEF Live
<1>9. ASSUME NEW p \in Passes, StartScan(p)
      PROVE  pass'.pc = "scan" /\ pass'.gen = p.gen /\ pass'.todo = p.slice \ p.reuse
  BY <1>9 DEF StartScan, Passes
<1>10. CASE Create
  <2>1. /\ UNCHANGED <<gen, health, noted, flags, hints, hintTimer>>
        /\ pass.pc = "create" /\ pass.gen = gen /\ StartScan(pass)
    BY <1>00, <1>10 DEF Create
  <2>2. pass'.pc = "scan" /\ pass'.gen = gen /\ pass'.todo = pass.slice \ pass.reuse
    BY <1>0, <1>9, <2>1
  <2>3. ASSUME NEW n \in noted, InPass(n)
        PROVE  InPass(n)'
    BY <2>1, <2>2, <2>3 DEF InPass
  <2>4. TurnComes => TurnComes'
    BY <2>1, <2>2, TurnKept
  <2> QED BY <2>1, <2>3, <2>4, HintsCarried DEF Live
<1>11. ASSUME NEW m \in Names, Read(m)
       PROVE  HintsOK'
  <2>1. /\ UNCHANGED <<gen, health, noted, flags, hints, hintTimer, snapshot>>
        /\ pass.pc = "scan" /\ pass.gen = gen
    BY <1>00, <1>11 DEF Read
  <2>2. /\ pass'.gen = pass.gen /\ pass'.pc = pass.pc /\ pass'.todo = pass.todo \ {m}
        /\ \A n \in Names : pass'.next[n] = IF n = m THEN world[m] ELSE pass.next[n]
    BY <1>0, <1>11 DEF Read, Passes
  <2>3. ASSUME NEW n \in noted, InPass(n)
        PROVE  InPass(n)'
    <3>1. snapshot # None => world[n] # snapshot[n]
      <4>1. snapshot # None => snapshot[n] <= cache[n] /\ cache[n] < world[n]
        BY <1>0 DEF OrderOK
      <4> QED BY <1>0, <4>1 DEF TypeOK, WorldOK
    <3> QED BY <1>0, <2>1, <2>2, <2>3, <3>1 DEF InPass, Differs
  <2>4. TurnComes => TurnComes'
    BY <2>1, <2>2, TurnKept
  <2> QED BY <2>1, <2>3, <2>4, HintsCarried DEF Live
<1>12. CASE ScanDone
  <2> DEFINE again == [pass EXCEPT !.slice = Selected, !.attempt = @ + 1]
             anew  == [again EXCEPT !.reuse = {}]
  <2>1. /\ again \in Passes /\ again.gen = pass.gen /\ again.slice = Selected /\ again.reuse = pass.reuse
        /\ anew \in Passes /\ anew.gen = pass.gen /\ anew.slice = Selected /\ anew.reuse = {}
    <3>1. Selected \in SUBSET Names /\ pass.attempt + 1 \in Nat
      BY <1>0, SelectedType DEF Passes
    <3> HIDE DEF Selected
    <3> QED BY <1>0, <3>1 DEF Passes
  <2>2. /\ UNCHANGED <<gen, health, noted, hints, hintTimer, snapshot>>
        /\ pass.pc = "scan" /\ pass.gen = gen /\ pass.todo = {}
        /\ flags'.hint = flags.hint /\ (flags.pending => flags'.pending)
    BY <1>0, <1>00, <1>12 DEF ScanDone, FlagSet
  <2>3. pass' = [pass EXCEPT !.pc = "publish"] \/ StartScan(again) \/ StartScan(anew)
    BY <1>12 DEF ScanDone
  <2> HIDE DEF again, anew
  <2>4. /\ pass'.gen = pass.gen
        /\ \/ pass'.pc = "publish" /\ pass'.next = pass.next
           \/ pass'.pc = "scan" /\ Selected \ pass.reuse \subseteq pass'.todo
    <3>1. CASE StartScan(again) \/ StartScan(anew)
      BY <1>9, <2>1, <3>1
    <3>2. CASE pass' = [pass EXCEPT !.pc = "publish"]
      BY <1>0, <3>2 DEF Passes
    <3> QED BY <2>3, <3>1, <3>2
  <2>5. ASSUME NEW n \in noted, n \in Scope[gen], InPass(n)
        PROVE  InPass(n)'
    <3>1. n \in pass.reuse => snapshot = None
      BY <2>2, <2>5 DEF InPass, Differs, ScanOK
    <3> QED BY <2>2, <2>4, <2>5, <3>1 DEF InPass, Differs, Selected
  <2>6. TurnComes => TurnComes'
    BY <2>2, <2>4, TurnKept
  <2> QED BY <2>2, <2>5, <2>6, HintsCarried DEF Live
<1>13. CASE Publish
  <2>1. /\ UNCHANGED <<gen, health, flags, hints, hintTimer>>
        /\ pass.pc = "publish" /\ pass.gen = gen /\ pass'.pc = "ready"
    BY <1>00, <1>13 DEF Publish, At
  <2>2. PICK lost \in BOOLEAN : noted' = noted \ Details(lost)
    BY <1>13 DEF Publish
  <2>3. ASSUME NEW n \in noted', n \in Scope[gen]
        PROVE  ~InPass(n)
    BY <2>1, <2>2, <2>3 DEF Details, InPass, Differs, Selected
  <2>4. TurnComes => TurnComes'
    BY <2>1, TurnKept
  <2> QED BY <2>1, <2>2, <2>3, <2>4, HintsCarried DEF Live
<1>14. CASE Ready \/ Done
  <2>1. /\ UNCHANGED <<gen, health, noted, flags, hints, hintTimer>>
        /\ pass.pc \in {"ready", "done"} /\ pass'.pc # "idle"
    BY <1>14 DEF Ready, Done, Loop, At
  <2> QED BY <2>1, TurnKept, HintsCarried DEF Live, InPass
<1>15. CASE Unwind
  <2>1. /\ UNCHANGED <<gen, health.failed, health.terminal, noted, flags, hints, hintTimer>>
        /\ pass.pc = "unwind" /\ pass'.pc # "idle"
    BY <1>0, <1>15 DEF Unwind, Retired, Loop, At, Passes
  <2> QED BY <2>1, TurnKept, HintsCarried DEF Live, InPass
<1>16. CASE Clear \/ Restart
  <2>1. CASE health.broken /\ Live
    <3>1. ~Live'
      BY <1>0, <1>16, <2>1 DEF Clear, Restart, Lose, Live
    <3> QED BY <3>1 DEF HintsOK
  <2>2. CASE ~Live
    <3>1. ~Live'
      BY <1>0, <1>16, <2>2 DEF Clear, Restart, Lose, Live
    <3> QED BY <3>1 DEF HintsOK
  <2>3. CASE ~health.broken /\ Live
    <3>1. /\ UNCHANGED <<gen, health, noted, hints, hintTimer>>
          /\ flags'.hint = flags.hint /\ (flags.pending => flags'.pending)
          /\ pass.pc \in {"clear", "restart"} /\ pass'.pc # "idle"
      BY <1>0, <1>16, <2>3 DEF Clear, Restart, Loop, At, FlagSet
    <3> QED BY <3>1, TurnKept, HintsCarried DEF Live, InPass
  <2> QED BY <2>1, <2>2, <2>3
<1>17. CASE Settle
  <2>1. UNCHANGED <<gen, health, noted, flags, hints, hintTimer>> /\ pass.pc = "settle"
    BY <1>17 DEF Settle
  <2>2. CASE ~Live
    BY <2>1, <2>2 DEF HintsOK, Live
  <2>3. CASE Live
    <3>1. flags.pending => pass'.pc = "turn"
      BY <1>17, <2>3 DEF Settle, At
    <3>2. TurnComes => TurnComes'
      BY <2>1, <3>1 DEF TurnComes, Retiring, Idle
    <3> QED BY <2>1, <3>2, HintsCarried DEF Live, InPass
  <2> QED BY <2>2, <2>3
<1>18. CASE FallBack \/ FellBack
  <2>1. /\ UNCHANGED <<gen, health.failed, health.terminal, noted, snapshot, flags, hints, hintTimer>>
        /\ {pass.pc, pass'.pc} = {"scan", "fallback"} /\ UNCHANGED <<pass.gen, pass.todo, pass.next>>
    BY <1>0, <1>18 DEF FallBack, FellBack, Retired, Passes
  <2>2. TurnComes => TurnComes'
    BY <2>1, TurnKept
  <2> QED BY <2>1, <2>2, HintsCarried DEF InPass, Differs, Live
<1> QED BY <1>1, <1>2, <1>3, <1>4, <1>5, <1>6, <1>7, <1>8, <1>10, <1>11, <1>12, <1>13, <1>14,
           <1>15, <1>16, <1>17, <1>18 DEF PassStep

\* A hint of the current generation is not forgotten, whatever coalesces, fails, is
\* refreshed or replaced: until the consumer has read the name a turn of the pump is to
\* come that knows of it, or the pass under way tells the consumer of it
\* (watch.ts:200-211, 230-240).
THEOREM HintsAreKept == Spec => []HintKept
<1> DEFINE Inv == TypeOK /\ OrderOK /\ ScanOK /\ HintsOK
<1>1. Init => Inv
  <2> SUFFICES ASSUME Init
               PROVE  Inv
    OBVIOUS
  <2>1. pass.pc = "turn" /\ pass.slice = {}
    BY DEF Init, At
  <2>2. OrderOK
    BY DEF Init, Zero, OrderOK
  <2>3. ScanOK
    BY <2>1 DEF ScanOK
  <2> QED BY <2>2, <2>3, InitType DEF Init, HintsOK
<1>2. Inv /\ [Next]_vars => Inv'
  <2> SUFFICES ASSUME Inv, [Next]_vars
               PROVE  Inv'
    OBVIOUS
  <2>1. TypeOK'
    BY TypeStep
  <2>2. CASE Next
    <3>1. OrderOK' /\ ScanOK'
      BY <2>1, <2>2, OrderStep, ScanStep
    <3>2. HintsOK'
      BY <2>1, <2>2, HintsRequests, HintsPass DEF Next
    <3> QED BY <2>1, <3>1, <3>2
  <2>3. CASE UNCHANGED vars
    <3>1. /\ UNCHANGED <<gen, health, snapshot, pass, flags, hints, hintTimer>>
          /\ UNCHANGED <<world, cache, noted>>
      BY <2>3 DEF vars
    <3>2. OrderOK' /\ ScanOK'
      BY <3>1 DEF OrderOK, ScanOK, Selected
    <3>3. HintsOK'
      BY <3>1, HintsKept DEF Live, TurnComes, Retiring, Idle
    <3> QED BY <2>1, <3>2, <3>3
  <2> QED BY <2>2, <2>3
<1>3. Inv => HintKept
  <2> SUFFICES ASSUME Inv, NEW n \in Scope[gen], Live, n \in noted
               PROVE  /\ hintTimer \/ ~Idle
                      /\ \/ flags.hint \/ flags.reset \/ flags.full
                         \/ pass.gen = gen /\ pass.pc \notin {"idle", "settle", "ready", "done"}
    BY DEF HintKept
  <2>1. Remembered(n)
    BY DEF HintsOK
  <2> QED BY <2>1 DEF Remembered, HintWaits, TurnComes, Retiring, InPass, Idle
<1> QED BY <1>1, <1>2, <1>3, PTL DEF Spec

-----------------------------------------------------------------------------
(* Reports.                                                                *)

\* The consumer is told of a change only while the subscription lives, and only of
\* names of the current scopes: the pass that would report for scopes that were
\* replaced, or after close() or a failure, ends at its next check
\* (watch.ts:113-118, 479-484).
THEOREM ReportsAreCurrent == Spec => NoLateReport
<1> DEFINE Reportable == Live /\ \A n \in Names : cache'[n] # cache[n] => n \in Scope[gen]
<1>1. [Next]_vars => [cache' # cache => Reportable]_vars
  <2> SUFFICES ASSUME [Next]_vars, cache' # cache
               PROVE  Reportable
    OBVIOUS
  <2> USE DEF outside, settled, transport, requests, promises, Quiet, Unchanged
  <2>1. CASE \/ \E c \in Calls : Reconcile(c)
             \/ TimerFires \/ HintTimerFires
             \/ \E n \in Names : Hint(n) \/ Change(n)
             \/ HintLost \/ HintError \/ SetScopes \/ Close \/ Join
    BY <2>1 DEF Reconcile, TimerFires, HintTimerFires, Hint, Change, HintLost, HintError, SetScopes,
                Close, Join
  <2>2. CASE \E pc : Stale(pc) \/ Fails(pc)
    BY <2>2 DEF Stale, Fails, Throw
  <2>3. CASE Turn \/ Retire \/ AfterRetire \/ Admit \/ Notify \/ ProbeDone
    BY <2>3 DEF Turn, Retire, AfterRetire, Admit, Notify, ProbeDone
  <2>4. CASE Create \/ FallBack \/ FellBack \/ ScanDone \/ \E n \in Names : Probe(n) \/ Read(n)
    BY <2>4 DEF Create, FallBack, FellBack, ScanDone, Probe, Read
  <2>5. CASE Ready \/ Done \/ Unwind \/ Clear \/ Settle \/ RetireIdle \/ Restart
    BY <2>5 DEF Ready, Done, Unwind, Clear, Settle, RetireIdle, Restart
  <2>6. CASE Publish
    <3>1. Live /\ Selected = Scope[gen]
      BY <2>6 DEF Publish, Current, Now, Selected
    <3>2. PICK lost \in BOOLEAN :
            cache' = [n \in Names |-> IF n \in Details(lost) THEN world[n] ELSE cache[n]]
      BY <2>6 DEF Publish
    <3>3. Details(lost) \subseteq Selected
      BY DEF Details
    <3> QED BY <3>1, <3>2, <3>3
  <2>7. CASE UNCHANGED vars
    BY <2>7 DEF vars
  <2> QED BY <2>1, <2>2, <2>3, <2>4, <2>5, <2>6, <2>7 DEF Next, PassStep
<1> QED BY <1>1, PTL DEF Spec, NoLateReport
=============================================================================
