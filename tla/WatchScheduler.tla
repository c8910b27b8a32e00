--------------------------- MODULE WatchScheduler ---------------------------
(* One subscription of watch.ts: the pump that turns hints, timers, calls of  *)
(* reconcile() and setScopes() into guarded passes, one at a time. A step is  *)
(* what runs between two awaits, or one file system observation of a scan.    *)
(* Callbacks are synchronous: what they call is a step taken between two      *)
(* steps of the pass.                                                         *)
EXTENDS Naturals, FiniteSets

CONSTANTS
  Names,       \* paths below the Root
  Scope,       \* Scope[g]: the names the scopes of generation g select
  Calls,       \* calls of reconcile()
  MaxPending,  \* maxPendingPaths
  MaxMoves,    \* changes, calls, failures and the end, together
  Lost,        \* pending hints: detail was lost (backend overflow)
  Folded,      \* pending hints: folded into the Root
  None         \* no snapshot, no backend

Last        == Cardinality(DOMAIN Scope) - 1
Generations == 0..Last

ASSUME WatchAssumption ==
  /\ IsFiniteSet(Names) /\ IsFiniteSet(DOMAIN Scope) /\ {MaxPending, MaxMoves} \subseteq Nat
  /\ DOMAIN Scope = Generations /\ 0 \in Generations /\ \A g \in Generations : Scope[g] \subseteq Names
  /\ None \notin Generations /\ \A h \in SUBSET Names : h # Lost /\ h # Folded

VARIABLES
  world,     \* version of each name
  cache,     \* version a consumer read when it was last invalidated
  gen,       \* current: the number of the generation
  health,    \* failed, broken (retirementFailure), terminal, joined
  waiter,    \* the waiter of each generation: ready, or of setScopes
  call,      \* where each call of reconcile() waits, and how it ended
  backend,   \* the generation whose callback the backend calls, None
  listening, \* whether the backend still delivers
  mode, wasReady, snapshot,
  flags,     \* resetRequested, refreshBackend, pending, ...Requested
  hints,     \* pendingChanges: names, Lost or Folded
  timer, hintTimer,
  pass,      \* local variables of the pump and of observe()
  noted,     \* names with a hint of the generation for what was not read yet
  served,    \* calls whose complete pass has been adopted
  moves      \* of the environment

outside   == <<world, noted, served, moves>>
settled   == <<gen, health, waiter>>
transport == <<backend, listening, mode, wasReady>>
requests  == <<flags, hints, timer, hintTimer>>
promises  == <<waiter, call>>
vars == <<world, cache, gen, health, waiter, call, backend, listening, mode, wasReady,
          snapshot, flags, hints, timer, hintTimer, pass, noted, served, moves>>

NoFlags == [reset |-> FALSE, refresh |-> FALSE, pending |-> FALSE, full |-> FALSE,
            periodic |-> FALSE, uncertain |-> FALSE, hint |-> FALSE]

\* The pump at rest, or between two awaits outside observe().
At(pc, g) ==
  [pc |-> pc, gen |-> g, had |-> FALSE, hints |-> {}, full |-> FALSE, periodic |-> FALSE,
   slice |-> {}, reuse |-> {}, todo |-> {}, next |-> [n \in Names |-> 0],
   covers |-> {}, attempt |-> 0]

Zero == [n \in Names |-> 0]
Live == ~health.terminal /\ ~health.failed
Idle == pass.pc = "idle"
Selected == Scope[pass.gen]
Whole == pass.slice = Selected

\* check(): an abort, a replaced generation and a failure end the pass.
Now     == IF pass.pc = "turn" THEN gen ELSE pass.gen
Current == Live /\ ~health.broken /\ Now = gen

Init ==
  /\ world = Zero /\ cache = Zero /\ noted = {}
  /\ gen = 0
  /\ health = [failed |-> FALSE, broken |-> FALSE, terminal |-> FALSE, joined |-> FALSE]
  /\ waiter = [g \in Generations |-> IF g = 0 THEN "open" ELSE "none"]
  /\ call = [c \in Calls |-> "none"]
  /\ backend = None /\ listening = FALSE
  /\ mode \in {"events", "poll"} /\ wasReady = FALSE
  /\ snapshot = None
  /\ flags = NoFlags /\ hints = {}
  /\ timer = FALSE /\ hintTimer = FALSE
  /\ pass = At("turn", 0)
  /\ served = {} /\ moves = 0

Move == moves < MaxMoves /\ moves' = moves + 1

\* Fault seeded in RejectCalls: calls that joined the pass under way are forgotten.
RejectPending == [c \in Calls |-> IF call[c] = "pending" THEN "rejected" ELSE call[c]]

Reject(w, g) == [w EXCEPT ![g] = IF @ = "open" THEN "rejected" ELSE @]
RejectCalls  == [c \in Calls |-> IF call[c] \in {"pending", "running"} THEN "rejected" ELSE call[c]]

\* clearTimers(): the requests for a full or a periodic pass stay.
ClearTimers ==
  /\ timer' = FALSE /\ hintTimer' = FALSE /\ hints' = {}

Cleared(f) == [f EXCEPT !.pending = FALSE, !.hint = FALSE, !.uncertain = FALSE]

\* lose(): the first failure ends the observation and rejects every waiter.
Lose ==
  /\ health' = [health EXCEPT !.failed = TRUE]
  /\ waiter' = Reject(waiter, gen)
  /\ call' = RejectCalls
  /\ flags' = Cleared(flags)
  /\ ClearTimers
  /\ listening' = FALSE
  /\ UNCHANGED <<gen, backend, mode, wasReady>>

\* The catch of the pump: an error of the current generation is a failure, the
\* error of one that was retired is not.
Throw ==
  /\ pass' = At("unwind", Now)
  /\ IF Live /\ Now = gen
     THEN Lose
     ELSE /\ waiter' = Reject(waiter, Now)
          /\ UNCHANGED <<gen, health, call, requests, transport>>
  /\ UNCHANGED <<snapshot, cache>>

\* A step of the pass continues if its generation is current.
Stale(pc) ==
  /\ pass.pc = pc /\ ~Current
  /\ Throw
  /\ UNCHANGED outside

Fails(pc) ==
  /\ pass.pc = pc /\ Current /\ Move
  /\ Throw
  /\ UNCHANGED <<world, noted, served>>

-----------------------------------------------------------------------------
(* Requests.                                                               *)

\* pump() starts a pass unless one is active.
Pump == pass' = IF Idle THEN At("turn", gen) ELSE pass

\* Fault seeded in ScheduleInterval: the timer waits until nothing is pending.
ScheduleQuiet(f) == timer' = (timer \/ (~f.full /\ ~f.pending /\ Live))

\* scheduleInterval().
ScheduleInterval(f) == timer' = (timer \/ (~f.full /\ Live))

\* Fault seeded in Reconcile: a call during a pass joins it.
ReconcileJoining(c) ==
  /\ call[c] = "none" /\ Move
  /\ IF Live
     THEN /\ call' = [call EXCEPT ![c] = IF Idle THEN "pending" ELSE "running"]
          /\ timer' = FALSE
          /\ flags' = [flags EXCEPT !.full = TRUE, !.pending = TRUE]
          /\ Pump
     ELSE /\ call' = [call EXCEPT ![c] = "rejected"]
          /\ UNCHANGED <<timer, flags, pass>>
  /\ UNCHANGED <<world, noted, served, gen, health, waiter, transport, snapshot, cache,
                 hints, hintTimer>>

\* reconcile(): the call waits for a pass that starts later; without a live
\* subscription it rejects at once.
Reconcile(c) ==
  /\ call[c] = "none" /\ Move
  /\ IF Live
     THEN /\ call' = [call EXCEPT ![c] = "pending"]
          /\ timer' = FALSE
          /\ flags' = [flags EXCEPT !.full = TRUE, !.pending = TRUE]
          /\ Pump
     ELSE /\ call' = [call EXCEPT ![c] = "rejected"]
          /\ UNCHANGED <<timer, flags, pass>>
  /\ UNCHANGED <<world, noted, served, gen, health, waiter, transport, snapshot, cache,
                 hints, hintTimer>>

\* The interval timer and the timer of coalesced hints request a pass.
TimerFires ==
  /\ timer /\ timer' = FALSE
  /\ flags' = [flags EXCEPT !.periodic = TRUE, !.pending = TRUE]
  /\ Pump
  /\ UNCHANGED <<outside, gen, health, promises, transport, snapshot, cache, hints, hintTimer>>

HintTimerFires ==
  /\ hintTimer /\ hintTimer' = FALSE
  /\ flags' = [flags EXCEPT !.pending = TRUE]
  /\ Pump
  /\ UNCHANGED <<outside, gen, health, promises, transport, snapshot, cache, hints, timer>>

\* The backend calls onHint for its own generation only.
Listens == listening /\ backend = gen /\ Live

\* pendingChanges: past its limit it folds into the Root, and stays folded.
Noted(n) ==
  CASE hints \in {Lost, Folded} -> hints
    [] OTHER -> IF n \notin hints /\ Cardinality(hints) >= MaxPending
                THEN Folded ELSE hints \cup {n}

\* onHint: a batch that names a path. A rename leaves its extent uncertain. Hints
\* for unselected names may go on for ever; a hint for what the consumer has
\* already read counts as a move, and so does the news that its directories are stale.
Hint(n) ==
  /\ Listens
  /\ hints' = Noted(n)
  /\ \E renamed, stale \in BOOLEAN :
       /\ IF ~stale /\ (cache[n] # world[n] \/ n \notin Scope[gen]) THEN UNCHANGED moves ELSE Move
       /\ flags' = [flags EXCEPT !.hint = TRUE, !.pending = TRUE, !.uncertain = @ \/ renamed,
                                !.refresh = @ \/ stale]
  /\ hintTimer' = TRUE
  /\ noted' = IF cache[n] = world[n] THEN noted ELSE noted \cup {n}
  /\ UNCHANGED <<world, served, gen, health, promises, transport, snapshot, cache, timer, pass>>

\* onHint: events of the backend were lost, or its directories are stale and the
\* batch names no path. Only a batch without a hint leaves the extent uncertain.
HintLost ==
  /\ Listens /\ Move
  /\ \E lost, stale, unnamed \in BOOLEAN :
       /\ lost \/ (stale /\ unnamed)
       /\ hints' = IF lost THEN Lost ELSE hints
       /\ flags' = [flags EXCEPT !.hint = TRUE, !.pending = TRUE, !.uncertain = @ \/ unnamed,
                                !.refresh = @ \/ stale]
  /\ hintTimer' = TRUE
  /\ UNCHANGED <<world, noted, served, gen, health, promises, transport, snapshot, cache, timer, pass>>

\* onHint: the backend fails.
HintError ==
  /\ Listens /\ Move
  /\ Lose
  /\ UNCHANGED <<world, noted, served, pass, snapshot, cache>>

\* setScopes(): the old generation is fenced at once. An idle subscription
\* retires its backend first, a pass under way finds out at its next check.
SetScopes ==
  /\ Live /\ gen < Last /\ Move
  /\ gen' = gen + 1
  /\ waiter' = [Reject(waiter, gen) EXCEPT ![gen + 1] = "open"]
  /\ flags' = [Cleared(flags) EXCEPT !.reset = TRUE]
  /\ ClearTimers
  /\ listening' = FALSE
  /\ pass' = IF Idle THEN At("retiring", gen + 1) ELSE pass
  /\ noted' = {}
  /\ UNCHANGED <<world, served, health, call, backend, mode, wasReady, snapshot, cache>>

\* close() is terminal; Join ends it once no pass is active.
Close ==
  /\ ~health.terminal /\ Move
  /\ health' = [health EXCEPT !.terminal = TRUE]
  /\ waiter' = Reject(waiter, gen)
  /\ call' = RejectCalls
  /\ flags' = Cleared(flags)
  /\ ClearTimers
  /\ listening' = FALSE
  /\ UNCHANGED <<world, noted, served, gen, backend, mode, wasReady, snapshot, cache, pass>>

Join ==
  /\ health.terminal /\ ~health.joined /\ Idle
  /\ health' = [health EXCEPT !.joined = TRUE]
  /\ backend' = None
  /\ UNCHANGED <<outside, gen, promises, listening, mode, wasReady, requests, snapshot, cache, pass>>

\* The file system changes on its own.
Change(n) ==
  /\ Live /\ Move
  /\ world' = [world EXCEPT ![n] = @ + 1]
  /\ UNCHANGED <<noted, served, settled, call, transport, requests, snapshot, cache, pass>>

-----------------------------------------------------------------------------
(* The pass: observe().                                                    *)

\* observe() takes over what was requested. A batch of named hints may narrow
\* the pass; everything else is notified and looked at as a whole.
Consume(f) ==
  \E due \in BOOLEAN :
    LET full == f.full \/ f.uncertain \/ due
    IN /\ pass' = [At(IF snapshot' # None /\ f.hint /\ hints # Lost /\ ~full /\ ~f.periodic
                      THEN "admit" ELSE "notify", gen)
                   EXCEPT !.had = f.hint, !.hints = hints, !.full = full,
                          !.periodic = f.periodic, !.slice = Scope[gen]]
       /\ flags' = [f EXCEPT !.full = FALSE, !.periodic = FALSE, !.uncertain = FALSE,
                             !.hint = FALSE]
       /\ hints' = {} /\ hintTimer' = FALSE

\* One turn of the pump: pending calls join this pass. A stale backend, or one
\* of another generation, is retired first.
Turn ==
  /\ pass.pc = "turn" /\ Current
  /\ call' = [c \in Calls |-> IF call[c] = "pending" THEN "running" ELSE call[c]]
  /\ UNCHANGED <<outside, settled, backend, mode, wasReady, snapshot, cache, timer>>
  /\ IF flags.refresh \/ flags.reset
     THEN /\ pass' = At("retire", gen)
          /\ flags' = [flags EXCEPT !.pending = FALSE]
          /\ listening' = FALSE
          /\ UNCHANGED <<hints, hintTimer>>
     ELSE /\ Consume([flags EXCEPT !.pending = FALSE])
          /\ UNCHANGED listening

\* retireBackend(): closing the transport may fail.
Retired ==
  /\ backend' = None
  /\ \/ UNCHANGED <<health, moves>>
     \/ backend # None /\ Move /\ health' = [health EXCEPT !.broken = TRUE]

Retire ==
  /\ pass.pc = "retire"
  /\ Retired
  /\ pass' = [pass EXCEPT !.pc = "retired"]
  /\ UNCHANGED <<world, noted, served, gen, promises, listening, mode, wasReady, requests,
                 snapshot, cache>>

AfterRetire ==
  /\ pass.pc = "retired" /\ Current
  /\ snapshot' = IF flags.reset THEN None ELSE snapshot
  /\ Consume([flags EXCEPT !.refresh = FALSE, !.reset = FALSE, !.full = @ \/ flags.refresh])
  /\ UNCHANGED <<outside, settled, call, transport, cache, timer>>

\* What a step of the pass leaves alone unless it says otherwise.
Unchanged(pc) ==
  /\ pass.pc = pc /\ Current
  /\ UNCHANGED <<world, noted, gen, health, cache>>

Quiet == UNCHANGED <<served, moves, promises, transport, requests, snapshot>>

\* Hints for unselected names end the pass. Relevant ones select the names to
\* read again, and anything uncertain all of them.
Admit ==
  /\ Unchanged("admit") /\ Quiet
  /\ LET relevant == IF pass.hints = Folded THEN {} ELSE pass.hints \cap Selected
     IN \/ /\ pass.hints # Folded /\ relevant = {}
           /\ pass' = At("done", gen)
        \/ /\ pass.hints # Folded /\ relevant # {}
           /\ pass' = [pass EXCEPT !.pc = "notify", !.slice = relevant]
        \/ pass' = [pass EXCEPT !.pc = "notify"]

\* After onHealth: a pass that nothing but the interval asked for probes first.
Notify ==
  /\ Unchanged("notify") /\ Quiet
  /\ pass' = IF snapshot # None /\ ~pass.full /\ (~pass.had \/ pass.periodic)
             THEN [pass EXCEPT !.pc = "probe", !.todo = Selected, !.periodic = FALSE]
             ELSE [pass EXCEPT !.pc = "create", !.full = FALSE, !.periodic = FALSE]

\* probeWatchSnapshot: what is as it was observed need not be listed again.
Probe(n) ==
  /\ Unchanged("probe") /\ Quiet
  /\ n \in pass.todo
  /\ pass' = [pass EXCEPT !.todo = @ \ {n},
                         !.reuse = IF world[n] = snapshot[n] THEN @ \cup {n} ELSE @]

\* A stable probe that is confirmed ends the pass with the old snapshot.
ProbeDone ==
  /\ Unchanged("probe")
  /\ pass.todo = {}
  /\ UNCHANGED <<served, moves, promises, backend, listening, mode, wasReady, flags, hints, hintTimer, snapshot>>
  /\ \/ /\ pass.reuse = Selected /\ ~pass.had /\ (mode = "poll" \/ backend # None)
        /\ pass' = At("done", gen)
        /\ ScheduleInterval(flags)
     \/ /\ pass' = [pass EXCEPT !.pc = "create"]
        /\ UNCHANGED timer
     \/ /\ pass' = [pass EXCEPT !.pc = "create", !.reuse = {}]
        /\ UNCHANGED timer

\* A scan of all scopes takes the interval timer over. Names that are not read
\* keep what the last snapshot says.
StartScan(p) ==
  /\ pass' = [p EXCEPT !.pc = "scan", !.todo = p.slice \ p.reuse,
                       !.next = IF snapshot = None THEN Zero ELSE snapshot,
                       !.covers = IF p.slice = Selected /\ p.reuse = {}
                                  THEN {c \in Calls : call[c] \in {"pending", "running"}} ELSE {}]
  /\ timer' = (timer /\ p.slice # Selected)

\* The transport is installed before the scan that relies on it. Before the
\* first readiness, auto mode falls back to polling when there is none.
Create ==
  /\ Unchanged("create")
  /\ UNCHANGED <<served, promises, wasReady, flags, hints, hintTimer, snapshot>>
  /\ StartScan(pass)
  /\ IF mode = "events" /\ backend = None /\ Selected # {}
     THEN \/ backend' = gen /\ listening' = TRUE /\ UNCHANGED <<mode, moves>>
          \/ ~wasReady /\ Move /\ mode' = "poll" /\ UNCHANGED <<backend, listening>>
     ELSE UNCHANGED <<backend, listening, mode, moves>>

\* scanWatch reads one name.
Read(n) ==
  /\ Unchanged("scan") /\ Quiet
  /\ n \in pass.todo
  /\ pass' = [pass EXCEPT !.todo = @ \ {n}, !.next[n] = world[n]]

\* The first pass of auto mode may find the transport unavailable when a directory
\* is registered or the streams are configured: it goes on polling, and closes the
\* transport.
FallBack ==
  /\ Unchanged("scan") /\ Move
  /\ snapshot = None /\ ~wasReady /\ mode = "events" /\ backend # None
  /\ mode' = "poll" /\ listening' = FALSE
  /\ pass' = [pass EXCEPT !.pc = "fallback"]
  /\ UNCHANGED <<served, promises, backend, wasReady, requests, snapshot>>

\* The scan goes on where it was, or ends at its next check.
FellBack ==
  /\ pass.pc = "fallback"
  /\ Retired
  /\ pass' = [pass EXCEPT !.pc = "scan"]
  /\ UNCHANGED <<world, noted, served, gen, promises, listening, mode, wasReady, requests,
                 snapshot, cache>>

\* A slice that cannot be merged and a reuse that is not confirmed start over with
\* all scopes, and so does a change of the transport, which keeps what is reused;
\* the third handover in a row is left to another pass.
ScanDone ==
  /\ Unchanged("scan")
  /\ pass.todo = {}
  /\ UNCHANGED <<served, promises, transport, hints, hintTimer, snapshot>>
  /\ LET again == [pass EXCEPT !.slice = Selected, !.attempt = @ + 1]
     IN \/ /\ pass' = [pass EXCEPT !.pc = "publish"]
           /\ UNCHANGED <<flags, timer, moves>>
        \/ /\ ~Whole \/ pass.reuse # {}
           /\ StartScan([again EXCEPT !.reuse = {}])
           /\ UNCHANGED <<flags, moves>>
        \/ /\ mode = "events" /\ pass.attempt < 2 /\ Move
           /\ StartScan(again)
           /\ UNCHANGED flags
        \/ /\ mode = "events" /\ pass.attempt >= 2 /\ Move
           /\ flags' = [flags EXCEPT !.pending = TRUE, !.full = TRUE]
           /\ pass' = [pass EXCEPT !.pc = "publish"]
           /\ UNCHANGED timer

\* What the consumer is told: everything after a baseline or a loss, else the
\* difference of the snapshots and the hints that were admitted.
Details(lost) ==
  IF snapshot = None \/ (pass.had /\ (lost \/ pass.hints = Lost)) THEN Selected
  ELSE {n \in Selected : pass.next[n] # snapshot[n]}
         \cup (IF pass.had /\ pass.hints # Folded THEN pass.hints \cap Selected ELSE {})

\* Fault seeded in Publish: the generation is not checked again after the scan.
PublishLate ==
  /\ pass.pc = "publish"
  /\ \E lost \in BOOLEAN :
       /\ cache' = [n \in Names |-> IF n \in Details(lost) THEN world[n] ELSE cache[n]]
       /\ noted' = noted \ Details(lost)
  /\ snapshot' = pass.next
  /\ served' = served \cup pass.covers
  /\ pass' = At("ready", pass.gen)
  /\ UNCHANGED <<world, moves, settled, call, transport, requests>>

\* The snapshot is adopted and the consumer, told what is dirty, reads it.
Publish ==
  /\ pass.pc = "publish" /\ Current
  /\ \E lost \in BOOLEAN :
       /\ cache' = [n \in Names |-> IF n \in Details(lost) THEN world[n] ELSE cache[n]]
       /\ noted' = noted \ Details(lost)
  /\ snapshot' = pass.next
  /\ served' = served \cup pass.covers
  /\ pass' = At("ready", gen)
  /\ UNCHANGED <<world, moves, settled, call, transport, requests>>

\* Fault seeded in Ready: the hints that came during the pass count as served.
ReadyForgetting ==
  /\ Unchanged("ready")
  /\ wasReady' = TRUE
  /\ ScheduleInterval(flags)
  /\ pass' = At("done", gen)
  /\ flags' = [flags EXCEPT !.hint = FALSE] /\ hints' = {} /\ hintTimer' = FALSE
  /\ UNCHANGED <<served, moves, promises, backend, listening, mode, snapshot>>

\* After onInvalidate: the pass is complete, and the interval runs again.
Ready ==
  /\ Unchanged("ready")
  /\ wasReady' = TRUE
  /\ ScheduleInterval(flags)
  /\ pass' = At("done", gen)
  /\ UNCHANGED <<served, moves, promises, backend, listening, mode, flags, hints, hintTimer, snapshot>>

-----------------------------------------------------------------------------
(* The end of a turn.                                                      *)

Loop(f) == At(IF f.pending /\ Live THEN "turn" ELSE "settle", gen)

\* The pass is complete: the waiters of this turn resolve.
Done ==
  /\ pass.pc = "done" /\ Current
  /\ waiter' = [waiter EXCEPT ![gen] = IF @ = "open" THEN "resolved" ELSE @]
  /\ call' = [c \in Calls |-> IF call[c] = "running" THEN "resolved" ELSE call[c]]
  /\ pass' = Loop(flags)
  /\ UNCHANGED <<outside, gen, health, transport, requests, snapshot, cache>>

\* After an error the backend is retired, and the snapshot with its generation.
Unwind ==
  /\ pass.pc = "unwind"
  /\ Retired
  /\ pass' = IF pass.gen = gen THEN Loop(flags) ELSE [pass EXCEPT !.pc = "clear"]
  /\ UNCHANGED <<world, noted, served, gen, promises, listening, mode, wasReady, requests,
                 snapshot, cache>>

Clear ==
  /\ pass.pc = "clear"
  /\ UNCHANGED <<outside, cache>>
  /\ IF health.broken /\ Live
     THEN /\ Lose
          /\ pass' = At("settle", gen)
          /\ UNCHANGED snapshot
     ELSE /\ snapshot' = None
          /\ flags' = [flags EXCEPT !.pending = TRUE]
          /\ pass' = Loop(flags')
          /\ UNCHANGED <<settled, call, transport, hints, timer, hintTimer>>

\* The pump stops unless something was requested since; then only the interval
\* starts it again.
Settle ==
  /\ pass.pc = "settle"
  /\ IF Live /\ (flags.pending \/ waiter[gen] = "open")
     THEN pass' = At("turn", gen) /\ UNCHANGED timer
     ELSE pass' = At("idle", gen) /\ ScheduleInterval(flags)
  /\ UNCHANGED <<outside, settled, call, transport, flags, hints, hintTimer, snapshot, cache>>

\* setScopes() on an idle subscription: retire, forget the snapshot, pump.
RetireIdle ==
  /\ pass.pc = "retiring"
  /\ Retired
  /\ pass' = [pass EXCEPT !.pc = "restart"]
  /\ UNCHANGED <<world, noted, served, gen, promises, listening, mode, wasReady, requests,
                 snapshot, cache>>

Restart ==
  /\ pass.pc = "restart"
  /\ snapshot' = None
  /\ IF health.broken /\ Live
     THEN Lose /\ pass' = At("idle", gen)
     ELSE /\ pass' = At(IF Live THEN "turn" ELSE "idle", gen)
          /\ UNCHANGED <<settled, call, transport, requests>>
  /\ UNCHANGED <<outside, cache>>

Checked == {"turn", "retired", "admit", "notify", "probe", "create", "scan", "publish",
            "ready", "done"}

PassStep ==
  \/ Turn \/ Retire \/ AfterRetire \/ Admit \/ Notify \/ ProbeDone \/ Create \/ ScanDone
  \/ FallBack \/ FellBack
  \/ \E n \in Names : Probe(n) \/ Read(n)
  \/ Publish \/ Ready \/ Done \/ Unwind \/ Clear \/ Settle \/ RetireIdle \/ Restart
  \/ \E pc \in Checked : Stale(pc)

Next ==
  \/ PassStep
  \/ \E pc \in {"notify", "scan", "publish", "ready"} : Fails(pc)
  \/ \E c \in Calls : Reconcile(c)
  \/ TimerFires \/ HintTimerFires
  \/ \E n \in Names : Hint(n) \/ Change(n)
  \/ HintLost \/ HintError
  \/ SetScopes \/ Close \/ Join

Spec == Init /\ [][Next]_vars

\* Passes go on, timers fire and close() joins; nothing is assumed of hints.
FairSpec ==
  /\ Spec
  /\ WF_vars(PassStep) /\ WF_vars(TimerFires) /\ WF_vars(HintTimerFires) /\ WF_vars(Join)

-----------------------------------------------------------------------------
(* Properties.                                                             *)

\* reconcile() resolves after a complete pass that started after the call, and
\* that was adopted (docs/watch.md, Budgets and lifecycle).
ReconcileComplete == \A c \in Calls : call[c] = "resolved" => c \in served

\* A hint of the current generation is never forgotten: until the consumer has
\* read the name, it is pending, part of the pass under way, or overtaken by a
\* baseline to come, and a pass is scheduled (watch.ts:200-211, 230-240).
HintKept ==
  \A n \in Scope[gen] :
    Live /\ n \in noted =>
      /\ hintTimer \/ ~Idle
      /\ \/ flags.hint \/ flags.reset \/ flags.full
         \/ pass.gen = gen /\ pass.pc \notin {"idle", "settle", "ready", "done"}

\* After close(), and after a failure, nothing is reported, and what is reported
\* belongs to the current scopes (watch.ts:113-118, 479-484).
NoLateReport ==
  [][cache' # cache => Live /\ \A n \in Names : cache'[n] # cache[n] => n \in Scope[gen]]_vars

\* Every waiter settles, whatever coalesces, replaces or ends it: the calls are
\* bounded, so it is enough that again and again none is left
\* (watch.ts:403-425, 447-461).
Waiting ==
  \/ \E g \in Generations : waiter[g] = "open"
  \/ \E c \in Calls : call[c] \in {"pending", "running"}
  \/ health.terminal /\ ~health.joined

EveryWaiterSettles == []<>~Waiting

\* Every change of a selected name reaches the consumer, even without a hint
\* for it and while hints for other names never end
\* (watch.ts:169-173, 396-397, 430).
ChangeReported == []<>(Live => \A n \in Scope[gen] : cache[n] = world[n])
=============================================================================
