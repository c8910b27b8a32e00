------------------------- MODULE DocumentStoreProofs -------------------------
(***************************************************************************)
(* Theorems about DocumentStore, for every number of processes, calls,     *)
(* paths, programs and faults.                                             *)
(***************************************************************************)
EXTENDS DocumentStore, FiniteSetTheorems, WellFoundedInduction, TLAPS

Inside == Body \cup {"release"}
Queue(c) == queue[Home(c)][Path(c)]

Types ==
  /\ shape \in Shapes
  /\ pc \in [Calls -> {"idle", "resolve", "queued"} \cup Running \cup Settled]
  /\ ok \in [Calls -> BOOLEAN]
  /\ seen \in [Calls -> SUBSET Calls]
  /\ queue \in [Procs -> [Paths -> Seq(Calls)]]
  /\ lock \in [Paths -> Calls \cup {Free, Stale}]
  /\ doc \in [Paths -> SUBSET Calls]

\* A call that waits is in its queue, and one that runs is at its head.
QueueOK ==
  \A c \in Calls :
    /\ pc[c] \in {"queued"} \cup Running => \E i \in 1..Len(Queue(c)) : Queue(c)[i] = c
    /\ pc[c] \in Running => Queue(c)[1] = c

\* A call inside the locked section owns the lock of its path.
LockOK == shape.locked => \A c \in Calls : pc[c] \in Inside => lock[Path(c)] = c

\* The document is what the running update has seen, and includes the updates that
\* succeeded.
Kept(c) == c \in doc[Path(c)] \/ \E w \in doc[Path(c)] : shape.kind[w] = "write"
DocOK ==
  \A c \in Calls : shape.kind[c] = "update" /\ Coordinated(Path(c)) =>
    /\ pc[c] \in {"run", "write"} => seen[c] = doc[Path(c)]
    /\ ok[c] => Kept(c)
DoneOK == \A c \in Calls : pc[c] = "done" => ok[c]

Inv == Types /\ QueueOK /\ LockOK /\ DocOK /\ DoneOK

-----------------------------------------------------------------------------
(* What a shape is.                                                        *)

LEMMA ShapeFacts ==
  ASSUME Types, NEW c \in Calls
  PROVE  /\ Home(c) \in Procs /\ Path(c) \in Paths
         /\ shape.kind[c] \in {"write", "update"} /\ shape.locked \in BOOLEAN
  BY StoreAssumption DEF Types, Shape, Home, Path

\* Queues of a path in a process have one head, and locks one owner.
LEMMA Alone ==
  ASSUME Types, QueueOK, LockOK, NEW c \in Calls, NEW d \in Calls,
         Path(c) = Path(d), Coordinated(Path(c)), pc[c] \in Inside, pc[d] \in Inside
  PROVE  c = d
<1>1. CASE shape.locked
  BY <1>1 DEF LockOK
<1>2. CASE ~shape.locked
  <2>1. Home(c) = Home(d)
    BY <1>2 DEF Coordinated
  <2>2. pc[c] \in Running /\ pc[d] \in Running
    BY DEF Inside, Running
  <2> QED BY <2>1, <2>2 DEF QueueOK, Queue
<1> QED BY <1>1, <1>2

-----------------------------------------------------------------------------
(* The steps.                                                              *)

LEMMA TypesInit == Init => Types
  BY DEF Init, Types

LEMMA QueueExcept ==
  ASSUME NEW q \in [Procs -> [Paths -> Seq(Calls)]], NEW h \in Procs, NEW p \in Paths,
         NEW s \in Seq(Calls)
  PROVE  [q EXCEPT ![h][p] = s] \in [Procs -> [Paths -> Seq(Calls)]]
<1>1. [q[h] EXCEPT ![p] = s] \in [Paths -> Seq(Calls)]
  OBVIOUS
<1> QED BY <1>1

LEMMA QueueTypes ==
  ASSUME Types, NEW c \in Calls
  PROVE  /\ Enqueue(c) => queue' \in [Procs -> [Paths -> Seq(Calls)]]
         /\ Queue(c) # <<>> /\ Leave(c) => queue' \in [Procs -> [Paths -> Seq(Calls)]]
<1>1. Home(c) \in Procs /\ Path(c) \in Paths
  BY ShapeFacts
<1>2. queue[Home(c)][Path(c)] \in Seq(Calls)
  BY <1>1 DEF Types
<1>3. Append(queue[Home(c)][Path(c)], c) \in Seq(Calls)
  BY <1>2
<1>4. Queue(c) # <<>> => Tail(queue[Home(c)][Path(c)]) \in Seq(Calls)
  BY <1>2 DEF Queue
<1>5. queue \in [Procs -> [Paths -> Seq(Calls)]]
  BY DEF Types
<1>6. Enqueue(c) => queue' \in [Procs -> [Paths -> Seq(Calls)]]
  <2> DEFINE longer == Append(queue[Home(c)][Path(c)], c)
  <2>1. [queue EXCEPT ![Home(c)][Path(c)] = longer] \in [Procs -> [Paths -> Seq(Calls)]]
    <3> HIDE DEF longer
    <3> QED BY <1>1, <1>3, <1>5, QueueExcept DEF longer
  <2> QED BY <2>1 DEF Enqueue
<1>7. Queue(c) # <<>> /\ Leave(c) => queue' \in [Procs -> [Paths -> Seq(Calls)]]
  <2> DEFINE rest == Tail(queue[Home(c)][Path(c)])
  <2>1. Queue(c) # <<>> =>
          [queue EXCEPT ![Home(c)][Path(c)] = rest] \in [Procs -> [Paths -> Seq(Calls)]]
    <3> HIDE DEF rest
    <3> QED BY <1>1, <1>4, <1>5, QueueExcept DEF rest
  <2> QED BY <2>1 DEF Leave
<1> QED BY <1>6, <1>7

\* Only a call at the head of its queue leaves it.
LEMMA HeadLeaves ==
  ASSUME Types, QueueOK, NEW c \in Calls, pc[c] \in Running
  PROVE  Queue(c) \in Seq(Calls) /\ Queue(c) # <<>> /\ Queue(c)[1] = c
<1>1. Queue(c) \in Seq(Calls)
  BY ShapeFacts DEF Queue, Types
<1>2. PICK i \in 1..Len(Queue(c)) : Queue(c)[i] = c
  BY DEF QueueOK
<1>3. Len(Queue(c)) \in Nat /\ Len(Queue(c)) >= 1
  BY <1>1, <1>2
<1> QED BY <1>1, <1>3 DEF QueueOK

LEMMA TypesStep ==
  ASSUME Types, QueueOK, [Next]_vars
  PROVE  Types'
<1> USE DEF Types, Go
<1>1. ASSUME NEW c \in Calls, Called(c) PROVE Types'
  BY <1>1 DEF Called
<1>2. ASSUME NEW c \in Calls, Admit(c) PROVE Types'
  BY <1>2, QueueTypes DEF Admit, Settled
<1>3. ASSUME NEW c \in Calls, Begin(c) PROVE Types'
  BY <1>3 DEF Begin, BodyStart, Running, Body
<1>4. ASSUME NEW c \in Calls, Acquire(c) PROVE Types'
  <2>1. lock' \in [Paths -> Calls \cup {Free, Stale}]
    BY <1>4, ShapeFacts DEF Acquire
  <2> QED BY <1>4, <2>1 DEF Acquire, BodyStart, Running, Body
<1>5. ASSUME NEW c \in Calls, LockTimeout(c) \/ LockFails(c) PROVE Types'
  BY <1>5, HeadLeaves, QueueTypes DEF LockTimeout, LockFails, Running, Settled
<1>6. ASSUME NEW c \in Calls, Read(c) PROVE Types'
  <2>1. doc[Path(c)] \in SUBSET Calls
    BY ShapeFacts
  <2> QED BY <1>6, <2>1 DEF Read, Running, Body
<1>7. ASSUME NEW c \in Calls, Updater(c) \/ Throw(c) PROVE Types'
  BY <1>7 DEF Updater, Throw, Running, Body
<1>8. ASSUME NEW c \in Calls, Write(c) \/ BodyFails(c) PROVE Types'
  <2>1. Value(c) \in SUBSET Calls
    BY DEF Value
  <2>2. doc' \in [Paths -> SUBSET Calls]
    <3> HIDE DEF Value
    <3> QED BY <1>8, <2>1 DEF Write, BodyFails
  <2>3. pc' = [pc EXCEPT ![c] = "release"] /\ ok' \in [Calls -> BOOLEAN]
    BY <1>8 DEF Write, BodyFails
  <2> QED BY <1>8, <2>2, <2>3 DEF Write, BodyFails, Running
<1>9. ASSUME NEW c \in Calls, Release(c) \/ ReleaseFails(c) PROVE Types'
  <2>1. queue' \in [Procs -> [Paths -> Seq(Calls)]]
    BY <1>9, HeadLeaves, QueueTypes DEF Release, ReleaseFails, Running
  <2> QED BY <1>9, <2>1, ShapeFacts DEF Release, ReleaseFails, Settled
<1>10. ASSUME NEW h \in Procs, Crash(h) PROVE Types'
  <2>1. [p \in Paths |-> <<>>] \in [Paths -> Seq(Calls)]
    OBVIOUS
  <2> QED BY <1>10, <2>1 DEF Crash, Settled
<1>11. CASE UNCHANGED vars
  BY <1>11 DEF vars
<1> QED BY <1>1, <1>2, <1>3, <1>4, <1>5, <1>6, <1>7, <1>8, <1>9, <1>10, <1>11
     DEF Next, Proceed, Upset

LEMMA QueueInit == Init => QueueOK
  BY DEF Init, QueueOK, Running, Body

\* A call that goes on inside its turn, or that never was in the queue.
LEMMA QueueStays ==
  ASSUME Types, QueueOK, NEW c \in Calls, UNCHANGED <<shape, queue>>,
         NEW to, to # "queued", to \in Running => pc[c] \in Running, Go(c, to)
  PROVE  QueueOK'
<1>1. \A d \in Calls : Queue(d)' = Queue(d)
  BY DEF Queue, Home, Path
<1>2. \A d \in Calls : /\ pc'[d] = "queued" => pc[d] = "queued"
                       /\ pc'[d] \in Running => pc[d] \in Running
  BY DEF Go, Types
<1> QED BY <1>1, <1>2 DEF QueueOK

\* The head of a queue leaves, and the others move up.
LEMMA QueueMoves ==
  ASSUME Types, QueueOK, NEW c \in Calls, pc[c] \in Running, UNCHANGED shape,
         NEW to \in Settled, Go(c, to), Leave(c)
  PROVE  QueueOK'
<1> SUFFICES ASSUME NEW d \in Calls
             PROVE  /\ pc'[d] \in {"queued"} \cup Running =>
                         \E i \in 1..Len(Queue(d)') : Queue(d)'[i] = d
                    /\ pc'[d] \in Running => Queue(d)'[1] = d
  BY DEF QueueOK
<1>1. Home(c) \in Procs /\ Path(c) \in Paths /\ Home(d) \in Procs /\ Path(d) \in Paths
  BY ShapeFacts
<1>2. Queue(c) \in Seq(Calls) /\ Queue(c) # <<>> /\ Queue(c)[1] = c
  BY HeadLeaves
<1>3. CASE d = c
  <2>1. pc'[d] = to
    BY <1>3 DEF Go, Types
  <2> QED BY <2>1 DEF Settled, Running, Body
<1>4. CASE d # c
  <2>1. pc'[d] = pc[d]
    BY <1>4 DEF Go, Types
  <2>2. CASE Home(d) = Home(c) /\ Path(d) = Path(c)
    <3>1. Queue(d) = Queue(c)
      BY <2>2 DEF Queue
    <3>2. Queue(d)' = Tail(Queue(c))
      <4>1. queue'[Home(c)][Path(c)] = Tail(queue[Home(c)][Path(c)])
        BY <1>1 DEF Leave, Types
      <4>2. Queue(d)' = queue'[Home(d)][Path(d)]
        BY DEF Queue, Home, Path
      <4> QED BY <2>2, <4>1, <4>2 DEF Queue
    <3>3. pc[d] \notin Running
      BY <1>2, <1>4, <3>1 DEF QueueOK
    <3>4. ASSUME pc[d] = "queued" PROVE \E i \in 1..Len(Queue(d)') : Queue(d)'[i] = d
      <4>1. PICK i \in 1..Len(Queue(c)) : Queue(c)[i] = d
        BY <3>1, <3>4 DEF QueueOK
      <4>2. i # 1
        BY <1>2, <1>4, <4>1
      <4>3. i - 1 \in 1..Len(Tail(Queue(c))) /\ Tail(Queue(c))[i - 1] = d
        BY <1>2, <4>1, <4>2
      <4> QED BY <3>2, <4>3
    <3> QED BY <2>1, <3>3, <3>4
  <2>3. CASE ~(Home(d) = Home(c) /\ Path(d) = Path(c))
    <3>1. queue'[Home(d)][Path(d)] = queue[Home(d)][Path(d)]
      BY <1>1, <2>3 DEF Leave, Types
    <3>2. Queue(d)' = Queue(d)
      BY <3>1 DEF Queue, Home, Path
    <3> QED BY <2>1, <3>2 DEF QueueOK
  <2> QED BY <2>2, <2>3
<1> QED BY <1>3, <1>4

LEMMA QueueGrows ==
  ASSUME Types, QueueOK, NEW c \in Calls, pc[c] = "resolve", UNCHANGED shape,
         Go(c, "queued"), Enqueue(c)
  PROVE  QueueOK'
<1> SUFFICES ASSUME NEW d \in Calls
             PROVE  /\ pc'[d] \in {"queued"} \cup Running =>
                         \E i \in 1..Len(Queue(d)') : Queue(d)'[i] = d
                    /\ pc'[d] \in Running => Queue(d)'[1] = d
  BY DEF QueueOK
<1>1. Home(c) \in Procs /\ Path(c) \in Paths /\ Home(d) \in Procs /\ Path(d) \in Paths
  BY ShapeFacts
<1>2. Queue(c) \in Seq(Calls) /\ Queue(d) \in Seq(Calls)
  BY <1>1 DEF Queue, Types
<1>3. Queue(d)' = IF Home(d) = Home(c) /\ Path(d) = Path(c) THEN Append(Queue(d), c)
                  ELSE Queue(d)
  <2>1. Queue(d)' = queue'[Home(d)][Path(d)]
    BY DEF Queue, Home, Path
  <2>2. queue'[Home(d)][Path(d)] =
          IF Home(d) = Home(c) /\ Path(d) = Path(c) THEN Append(queue[Home(c)][Path(c)], c)
          ELSE queue[Home(d)][Path(d)]
    BY <1>1 DEF Enqueue, Types
  <2> QED BY <2>1, <2>2 DEF Queue
<1>4. \A i \in 1..Len(Queue(d)) : i \in 1..Len(Queue(d)') /\ Queue(d)'[i] = Queue(d)[i]
  BY <1>2, <1>3
<1>5. CASE d = c
  <2>1. Queue(d)' = Append(Queue(d), c)
    BY <1>3, <1>5
  <2>2. Len(Queue(d)) + 1 \in 1..Len(Queue(d)') /\ Queue(d)'[Len(Queue(d)) + 1] = c
    BY <1>2, <2>1
  <2>3. pc'[d] = "queued"
    BY <1>5 DEF Go, Types
  <2> QED BY <1>5, <2>2, <2>3 DEF Running, Body
<1>6. CASE d # c
  <2>1. pc'[d] = pc[d]
    BY <1>6 DEF Go, Types
  <2>2. pc[d] \in Running => 1 \in 1..Len(Queue(d))
    BY <1>2 DEF QueueOK
  <2> QED BY <1>4, <2>1, <2>2 DEF QueueOK
<1> QED BY <1>5, <1>6

LEMMA QueueStep ==
  ASSUME Types, QueueOK, [Next]_vars
  PROVE  QueueOK'
<1>1. ASSUME NEW c \in Calls, Called(c) PROVE QueueOK'
  BY <1>1, QueueStays DEF Called, Running, Body
<1>2. ASSUME NEW c \in Calls, Admit(c) PROVE QueueOK'
  <2>1. CASE Go(c, "rejected") /\ UNCHANGED queue
    BY <1>2, <2>1, QueueStays DEF Admit, Running, Body
  <2>2. CASE Go(c, "queued") /\ Enqueue(c)
    BY <1>2, <2>2, QueueGrows DEF Admit
  <2> QED BY <1>2, <2>1, <2>2 DEF Admit
<1>3. ASSUME NEW c \in Calls, Begin(c) PROVE QueueOK'
  <2>1. \A d \in Calls : Queue(d)' = Queue(d)
    BY <1>3 DEF Begin, Queue, Home, Path
  <2>2. \A d \in Calls : d # c => pc'[d] = pc[d]
    BY <1>3 DEF Begin, Go, Types
  <2>3. Queue(c) \in Seq(Calls) /\ Head(Queue(c)) = c /\ pc[c] = "queued"
    BY <1>3, ShapeFacts DEF Begin, MyTurn, Queue, Types
  <2>4. Queue(c)[1] = c
    BY <2>3
  <2> QED BY <2>1, <2>2, <2>3, <2>4 DEF QueueOK
<1>4. ASSUME NEW c \in Calls, Acquire(c) PROVE QueueOK'
  <2>1. /\ UNCHANGED <<shape, queue>> /\ pc[c] \in Running
        /\ Go(c, IF lock[Path(c)] = Free THEN BodyStart(c) ELSE "lock")
    BY <1>4 DEF Acquire, Running
  <2> QED BY <2>1, QueueStays DEF BodyStart
<1>5. ASSUME NEW c \in Calls, LockTimeout(c) \/ LockFails(c) PROVE QueueOK'
  BY <1>5, QueueMoves DEF LockTimeout, LockFails, Running, Settled
<1>6. ASSUME NEW c \in Calls, Read(c) PROVE QueueOK'
  BY <1>6, QueueStays DEF Read, Running, Body
<1>7. ASSUME NEW c \in Calls, Updater(c) \/ Throw(c) PROVE QueueOK'
  BY <1>7, QueueStays DEF Updater, Throw, Running, Body
<1>8. ASSUME NEW c \in Calls, Write(c) \/ BodyFails(c) PROVE QueueOK'
  <2>1. UNCHANGED <<shape, queue>> /\ pc[c] \in Running /\ Go(c, "release")
    BY <1>8 DEF Write, BodyFails, Running, Body
  <2> QED BY <2>1, QueueStays
<1>9. ASSUME NEW c \in Calls, Release(c) \/ ReleaseFails(c) PROVE QueueOK'
  <2>1. pc[c] \in Running /\ UNCHANGED shape /\ Leave(c)
    BY <1>9 DEF Release, ReleaseFails, Running
  <2>2. Go(c, "done") \/ Go(c, "failed")
    BY <1>9 DEF Release, ReleaseFails
  <2> QED BY <2>1, <2>2, QueueMoves DEF Settled
<1>10. ASSUME NEW h \in Procs, Crash(h) PROVE QueueOK'
  <2> SUFFICES ASSUME NEW d \in Calls
               PROVE  /\ pc'[d] \in {"queued"} \cup Running =>
                           \E i \in 1..Len(Queue(d)') : Queue(d)'[i] = d
                      /\ pc'[d] \in Running => Queue(d)'[1] = d
    BY DEF QueueOK
  <2>1. CASE Home(d) = h
    BY <1>10, <2>1 DEF Crash, Settled, Running, Body
  <2>2. CASE Home(d) # h
    <3>1. pc'[d] = pc[d]
      BY <1>10, <2>2 DEF Crash
    <3>2. Queue(d)' = Queue(d)
      BY <1>10, <2>2, ShapeFacts DEF Crash, Queue, Home, Path, Types
    <3> QED BY <3>1, <3>2 DEF QueueOK
  <2> QED BY <2>1, <2>2
<1>11. CASE UNCHANGED vars
  BY <1>11 DEF vars, QueueOK, Queue, Home, Path
<1> QED BY <1>1, <1>2, <1>3, <1>4, <1>5, <1>6, <1>7, <1>8, <1>9, <1>10, <1>11
     DEF Next, Proceed, Upset

LEMMA LockStep ==
  ASSUME Types, QueueOK, LockOK, [Next]_vars
  PROVE  LockOK'
<1> SUFFICES ASSUME shape.locked, [Next]_vars, shape' = shape,
                    NEW d \in Calls, pc'[d] \in Inside
             PROVE  lock'[Path(d)] = d
  <2>1. shape' = shape
    BY DEF Next, Proceed, Upset, Called, Admit, Begin, Acquire, LockTimeout, LockFails, Read,
           Updater, Throw, Write, BodyFails, Release, ReleaseFails, Crash, vars
  <2> QED BY <2>1 DEF LockOK, Path
<1>0. Path(d) \in Paths /\ (pc[d] \in Inside => lock[Path(d)] = d)
  BY ShapeFacts DEF LockOK
<1>1. ASSUME NEW c \in Calls, \/ Called(c) \/ Admit(c) \/ Begin(c) \/ LockTimeout(c)
                              \/ LockFails(c) \/ ReleaseFails(c)
      PROVE  lock'[Path(d)] = d
  <2>1. lock' = lock /\ (pc'[d] \in Inside => pc[d] \in Inside)
    BY <1>1 DEF Called, Admit, Begin, LockTimeout, LockFails, ReleaseFails, Go, Types,
                Inside, Body
  <2> QED BY <1>0, <2>1
<1>2. ASSUME NEW c \in Calls, Acquire(c) PROVE lock'[Path(d)] = d
  <2>1. CASE lock[Path(c)] = Free
    <3>1. lock' = [lock EXCEPT ![Path(c)] = c] /\ pc'[c] = BodyStart(c)
      BY <1>2, <2>1 DEF Acquire, Go, Types
    <3>2. CASE d = c
      BY <1>0, <3>1, <3>2 DEF Types
    <3>3. CASE d # c
      <4>1. lock[Path(d)] = d
        BY <1>0, <1>2, <3>3 DEF Acquire, Go, Types
      <4>2. Path(d) # Path(c)
        BY <2>1, <4>1, StoreAssumption
      <4> QED BY <1>0, <3>1, <4>1, <4>2 DEF Types
    <3> QED BY <3>2, <3>3
  <2>2. CASE lock[Path(c)] = Stale
    <3>1. lock' = [lock EXCEPT ![Path(c)] = Free] /\ Go(c, "lock")
      BY <1>2, <2>2, StoreAssumption DEF Acquire
    <3>2. lock[Path(d)] = d
      BY <1>0, <3>1 DEF Go, Types, Inside, Body
    <3>3. Path(d) # Path(c)
      BY <2>2, <3>2, StoreAssumption
    <3> QED BY <1>0, <3>1, <3>2, <3>3 DEF Types
  <2> QED BY <1>2, <2>1, <2>2 DEF Acquire
<1>3. ASSUME NEW c \in Calls, \/ Read(c) \/ Updater(c) \/ Throw(c) \/ Write(c) \/ BodyFails(c)
      PROVE  lock'[Path(d)] = d
  <2>1. lock' = lock /\ pc[c] \in Inside /\ (d # c => pc'[d] = pc[d])
    BY <1>3 DEF Read, Updater, Throw, Write, BodyFails, Go, Types, Inside, Body
  <2> QED BY <1>0, <2>1
<1>4. ASSUME NEW c \in Calls, Release(c) PROVE lock'[Path(d)] = d
  <2>1. lock[Path(c)] = c
    BY <1>4 DEF Release, LockOK, Inside
  <2>2. d # c /\ pc[d] \in Inside
    BY <1>4 DEF Release, Go, Types, Inside, Body
  <2>3. lock' = [lock EXCEPT ![Path(c)] = Free]
    BY <1>4 DEF Release
  <2> QED BY <1>0, <2>1, <2>2, <2>3 DEF Types
<1>5. ASSUME NEW h \in Procs, Crash(h) PROVE lock'[Path(d)] = d
  <2>1. Home(d) # h /\ pc[d] \in Inside
    BY <1>5 DEF Crash, Inside, Body, Settled
  <2> QED BY <1>0, <1>5, <2>1 DEF Crash
<1>6. CASE UNCHANGED vars
  BY <1>0, <1>6 DEF vars
<1> QED BY <1>1, <1>2, <1>3, <1>4, <1>5, <1>6 DEF Next, Proceed, Upset

LEMMA DoneStep ==
  ASSUME Types, DoneOK, [Next]_vars
  PROVE  DoneOK'
<1> SUFFICES ASSUME NEW d \in Calls, pc'[d] = "done" PROVE ok'[d]
  BY DEF DoneOK
<1>1. ASSUME NEW c \in Calls, Called(c) \/ Admit(c) \/ Begin(c) \/ Acquire(c) \/ LockTimeout(c)
             \/ LockFails(c) \/ ReleaseFails(c) \/ Read(c) \/ Updater(c) \/ Throw(c)
             \/ BodyFails(c)
      PROVE  ok'[d]
  BY <1>1 DEF Called, Admit, Begin, Acquire, BodyStart, LockTimeout, LockFails, ReleaseFails,
              Read, Updater, Throw, BodyFails, Go, Types, DoneOK
<1>2. ASSUME NEW c \in Calls, Write(c) PROVE ok'[d]
  BY <1>2 DEF Write, Go, Types, DoneOK
<1>3. ASSUME NEW c \in Calls, Release(c) PROVE ok'[d]
  BY <1>3 DEF Release, Go, Types, DoneOK
<1>4. ASSUME NEW h \in Procs, Crash(h) PROVE ok'[d]
  BY <1>4 DEF Crash, DoneOK
<1>5. CASE UNCHANGED vars
  BY <1>5 DEF vars, DoneOK
<1> QED BY <1>1, <1>2, <1>3, <1>4, <1>5 DEF Next, Proceed, Upset

\* The document is replaced by the running update alone, and keeps what it has seen.
LEMMA DocChanges ==
  ASSUME Types, QueueOK, LockOK, DocOK, NEW c \in Calls, pc[c] = "write",
         UNCHANGED <<shape, seen>>, doc' = [doc EXCEPT ![Path(c)] = Value(c)],
         \A d \in Calls : d # c => pc'[d] = pc[d] /\ ok'[d] = ok[d],
         pc'[c] = "release"
  PROVE  DocOK'
<1> SUFFICES ASSUME NEW d \in Calls, shape.kind[d] = "update", Coordinated(Path(d))
             PROVE  /\ pc'[d] \in {"run", "write"} => seen[d] = doc'[Path(d)]
                    /\ ok'[d] => Kept(d)'
  BY DEF DocOK, Path, Coordinated, Home
<1>1. Path(c) \in Paths /\ Path(d) \in Paths /\ shape.kind[c] \in {"write", "update"}
  BY ShapeFacts
<1>2. CASE Path(d) # Path(c)
  <2>1. doc'[Path(d)] = doc[Path(d)] /\ d # c
    BY <1>1, <1>2 DEF Types
  <2> QED BY <2>1 DEF DocOK, Kept, Path
<1>3. CASE Path(d) = Path(c)
  <2>1. doc'[Path(d)] = Value(c)
    BY <1>1, <1>3 DEF Types
  <2>2. pc[d] \in {"run", "write"} => d = c
    BY <1>3, Alone DEF Inside, Body
  <2>3. CASE shape.kind[c] = "write"
    <3>1. c \in doc'[Path(d)]
      BY <2>1, <2>3 DEF Value
    <3> QED BY <2>2, <2>3, <3>1 DEF Kept, Path
  <2>4. CASE shape.kind[c] = "update"
    <3>1. doc'[Path(d)] = doc[Path(d)] \cup {c}
      BY <1>3, <2>1, <2>4 DEF Value, DocOK
    <3> QED BY <2>2, <3>1 DEF DocOK, Kept, Path
  <2> QED BY <1>1, <2>3, <2>4
<1> QED BY <1>2, <1>3

\* The document stays, and only a read lets an updater begin.
LEMMA DocStays ==
  ASSUME DocOK, UNCHANGED <<shape, doc, ok>>,
         \A d \in Calls : shape.kind[d] = "update" /\ pc'[d] \in {"run", "write"} =>
           \/ seen'[d] = doc[Path(d)]
           \/ pc[d] \in {"run", "write"} /\ seen'[d] = seen[d]
  PROVE  DocOK'
  BY DEF DocOK, Kept, Path, Coordinated, Home

LEMMA DocStep ==
  ASSUME Types, QueueOK, LockOK, DocOK, [Next]_vars
  PROVE  DocOK'
<1>1. ASSUME NEW c \in Calls, \/ Called(c) \/ Admit(c) \/ Begin(c) \/ Acquire(c)
                              \/ LockTimeout(c) \/ LockFails(c) \/ ReleaseFails(c)
                              \/ Updater(c) \/ Throw(c) \/ Release(c)
      PROVE  DocOK'
  <2>1. UNCHANGED <<shape, doc, ok, seen>>
    BY <1>1 DEF Called, Admit, Begin, Acquire, LockTimeout, LockFails, ReleaseFails,
                Updater, Throw, Release
  <2>2. \A d \in Calls : shape.kind[d] = "update" /\ pc'[d] \in {"run", "write"}
                           => pc[d] \in {"run", "write"}
    BY <1>1 DEF Called, Admit, Begin, Acquire, LockTimeout, LockFails, ReleaseFails,
                Updater, Throw, Release, BodyStart, Go, Types
  <2> QED BY <2>1, <2>2, DocStays
<1>2. ASSUME NEW c \in Calls, Read(c) PROVE DocOK'
  <2>1. \A d \in Calls : seen'[d] = IF d = c THEN doc[Path(c)] ELSE seen[d]
    BY <1>2 DEF Read, Types
  <2>2. \A d \in Calls : d # c => pc'[d] = pc[d]
    BY <1>2 DEF Read, Go, Types
  <2> QED BY <1>2, <2>1, <2>2, DocStays DEF Read
<1>3. ASSUME NEW c \in Calls, Write(c) PROVE DocOK'
  BY <1>3, DocChanges DEF Write, Go, Types
<1>4. ASSUME NEW c \in Calls, BodyFails(c) PROVE DocOK'
  <2>1. UNCHANGED <<shape, ok, seen>> /\ pc' = [pc EXCEPT ![c] = "release"]
    BY <1>4 DEF BodyFails, Go
  <2>2. \A d \in Calls : d # c => pc'[d] = pc[d]
    BY <2>1 DEF Types
  <2>3. CASE UNCHANGED doc
    BY <2>1, <2>2, <2>3, DocStays DEF Types
  <2>4. CASE pc[c] = "write" /\ doc' = [doc EXCEPT ![Path(c)] = Value(c)]
    BY <2>1, <2>2, <2>4, DocChanges DEF Types
  <2> QED BY <1>4, <2>3, <2>4 DEF BodyFails
<1>5. ASSUME NEW h \in Procs, Crash(h) PROVE DocOK'
  BY <1>5, DocStays DEF Crash
<1>6. CASE UNCHANGED vars
  BY <1>6, DocStays DEF vars
<1> QED BY <1>1, <1>2, <1>3, <1>4, <1>5, <1>6 DEF Next, Proceed, Upset

-----------------------------------------------------------------------------
(* The theorems.                                                           *)

LEMMA Invariance == Spec => []Inv
<1>1. Init => Inv
  BY TypesInit, QueueInit DEF Inv, Init, LockOK, Inside, Body, DocOK, DoneOK
<1>2. Inv /\ [Next]_vars => Inv'
  BY TypesStep, QueueStep, LockStep, DocStep, DoneStep DEF Inv
<1> QED BY <1>1, <1>2, PTL DEF Spec

\* Read, updater and write of a call are one critical section: two calls of one
\* document, of whatever tasks and processes, are never both inside it
\* (withSerializedMutation and withLock), if the processes use the lock.
THEOREM OneInside ==
  Spec => [](\A c, d \in Calls :
    /\ Path(c) = Path(d) /\ Coordinated(Path(c))
    /\ pc[c] \in Inside /\ pc[d] \in Inside
    => c = d)
<1>1. Inv => \A c, d \in Calls :
                /\ Path(c) = Path(d) /\ Coordinated(Path(c))
                /\ pc[c] \in Inside /\ pc[d] \in Inside
                => c = d
  BY Alone DEF Inv
<1> QED BY <1>1, Invariance, PTL

\* An update that resolved is part of the document until a plain write replaces it,
\* in every program of nested and concurrent calls.
THEOREM NoUpdateIsLost == Spec => []NoLostUpdate
<1>1. Inv => NoLostUpdate
  BY DEF Inv, DoneOK, DocOK, Kept, NoLostUpdate
<1> QED BY <1>1, Invariance, PTL

-----------------------------------------------------------------------------
(* Induction over the numbers.                                             *)

\* A set of numbers has a least one.
LEMMA LeastNumber ==
  ASSUME NEW T, T \subseteq Nat, T # {}
  PROVE  \E m \in T : \A k \in T : m <= k
<1> DEFINE Below == {0..k : k \in T}
<1>1. Below \subseteq FiniteSubsetsOf(Nat)
  <2>1. SUFFICES ASSUME NEW k \in T
                 PROVE  0..k \in SUBSET Nat /\ IsFiniteSet(0..k)
    BY DEF FiniteSubsetsOf
  <2>2. 0 \in Int /\ k \in Int
    OBVIOUS
  <2> QED BY <2>2, FS_Interval
<1>2. PICK x \in Below : \A y \in Below : <<y, x>> \notin StrictSubsetOrdering(Nat)
  <2>1. Below # {}
    OBVIOUS
  <2> HIDE DEF Below
  <2> QED BY <1>1, <2>1, FS_StrictSubsetOrderingWellFounded, WFMin
<1>3. PICK m \in T : x = 0..m
  OBVIOUS
<1>4. \A k \in T : k < m => 0..k \subseteq 0..m /\ 0..k # 0..m /\ m \in Nat
  <2>1. SUFFICES ASSUME NEW k \in T, k < m
                 PROVE  0..k \subseteq 0..m /\ 0..k # 0..m
    BY <1>3
  <2>2. m \in 0..m /\ m \notin 0..k
    BY <2>1
  <2> QED BY <2>1, <2>2
<1>5. \A k \in T : k < m => <<0..k, x>> \in StrictSubsetOrdering(Nat)
  BY <1>3, <1>4 DEF StrictSubsetOrdering
<1>6. \A k \in T : ~ (k < m)
  BY <1>2, <1>5
<1> QED BY <1>6

\* Induction over the numbers, for a set of them.
LEMMA SetOfNumbers ==
  ASSUME NEW S, 0 \in S, \A n \in Nat : n \in S => n + 1 \in S
  PROVE  Nat \subseteq S
<1>1. SUFFICES ASSUME Nat \ S # {} PROVE FALSE
  OBVIOUS
<1>2. PICK m \in Nat \ S : \A k \in Nat \ S : m <= k
  BY <1>1, LeastNumber
<1>3. m # 0 /\ m - 1 \in Nat /\ ~ (m <= m - 1) /\ (m - 1) + 1 = m
  BY <1>2
<1> QED BY <1>2, <1>3

-----------------------------------------------------------------------------
(* The calls around a call: what the recursive definition of Around is.    *)

\* One step outwards.
Widen(S, X) == X \cup ({Parent(d) : d \in X \cap S} \ {NoCall})

Size == Cardinality(Calls)
Climbs(f, c, S, n) ==
  f = [i \in 0..n |-> IF i = 0 THEN {c} ELSE Widen(S, f[i-1])]

LEMMA SizeIsNumber == Size \in Nat
BY StoreAssumption, FS_CardinalityType DEF Size

\* The steps outwards exist, however many there are.
LEMMA ClimbExists ==
  ASSUME NEW c, NEW S, NEW n \in Nat
  PROVE  \E f : Climbs(f, c, S, n)
<1> DEFINE A == {k \in Nat : \E f : Climbs(f, c, S, k)}
<1>1. 0 \in A
  <2>1. Climbs([i \in 0..0 |-> {c}], c, S, 0)
    BY DEF Climbs
  <2> QED BY <2>1
<1>2. ASSUME NEW k \in Nat, k \in A PROVE k + 1 \in A
  <2>1. PICK f : Climbs(f, c, S, k)
    BY <1>2
  <2> DEFINE g == [i \in 0..(k+1) |-> IF i = k + 1 THEN Widen(S, f[k]) ELSE f[i]]
  <2>2. ASSUME NEW i \in 0..(k+1)
        PROVE  g[i] = IF i = 0 THEN {c} ELSE Widen(S, g[i-1])
    <3>1. CASE i = k + 1
      <4>1. g[i] = Widen(S, f[k]) /\ i # 0 /\ i - 1 = k /\ k \in 0..(k+1) /\ k # k + 1
        BY <3>1
      <4> QED BY <4>1
    <3>2. CASE i \in 0..k
      <4>1. g[i] = f[i] /\ (i # 0 => i - 1 \in 0..(k+1) /\ i - 1 # k + 1)
        BY <3>2
      <4>2. f[i] = IF i = 0 THEN {c} ELSE Widen(S, f[i-1])
        BY <2>1, <3>2 DEF Climbs
      <4>3. i # 0 => g[i-1] = f[i-1]
        BY <4>1
      <4> QED BY <4>1, <4>2, <4>3
    <3> QED BY <3>1, <3>2
  <2>3. Climbs(g, c, S, k + 1)
    BY <2>2 DEF Climbs
  <2> HIDE DEF g
  <2> QED BY <1>2, <2>3
<1>3. Nat \subseteq A
  <2> HIDE DEF A
  <2> QED BY <1>1, <1>2, SetOfNumbers
<1> QED BY <1>3

\* So Around is what they reach.
LEMMA AroundClimbs ==
  ASSUME NEW c, NEW S
  PROVE  \E f : Climbs(f, c, S, Size) /\ Around(c, S) = f[Size] \ {c}
<1> DEFINE f == CHOOSE f : f = [i \in 0..Size |->
                  IF i = 0 THEN {c} ELSE f[i-1] \cup ({Parent(d) : d \in f[i-1] \cap S} \ {NoCall})]
<1>1. Around(c, S) = f[Size] \ {c}
  BY DEF Around, Size
<1>2. Climbs(f, c, S, Size)
  <2>1. \E g : g = [i \in 0..Size |->
                  IF i = 0 THEN {c} ELSE g[i-1] \cup ({Parent(d) : d \in g[i-1] \cap S} \ {NoCall})]
    <3>1. PICK g : Climbs(g, c, S, Size)
      BY SizeIsNumber, ClimbExists
    <3>2. g = [i \in 0..Size |->
                 IF i = 0 THEN {c} ELSE g[i-1] \cup ({Parent(d) : d \in g[i-1] \cap S} \ {NoCall})]
      BY <3>1 DEF Climbs, Widen
    <3> QED BY <3>2
  <2>2. f = [i \in 0..Size |->
                  IF i = 0 THEN {c} ELSE f[i-1] \cup ({Parent(d) : d \in f[i-1] \cap S} \ {NoCall})]
    BY <2>1
  <2> HIDE DEF f
  <2> QED BY <2>2 DEF Climbs, Widen
<1> QED BY <1>1, <1>2

\* One of the steps, and where they are.
LEMMA ClimbFacts ==
  ASSUME NEW f, NEW c, NEW S, Climbs(f, c, S, Size)
  PROVE  /\ f[0] = {c}
         /\ \A n \in Nat : n < Size => f[n + 1] = Widen(S, f[n])
<1>1. Size \in Nat
  BY SizeIsNumber
<1>2. f[0] = {c}
  BY <1>1 DEF Climbs
<1>3. ASSUME NEW n \in Nat, n < Size
      PROVE  f[n + 1] = Widen(S, f[n])
  <2>1. n + 1 \in 0..Size /\ n + 1 # 0 /\ (n + 1) - 1 = n
    BY <1>1, <1>3
  <2>2. f[n + 1] = Widen(S, f[(n + 1) - 1])
    BY <2>1 DEF Climbs
  <2> QED BY <2>1, <2>2
<1> QED BY <1>2, <1>3

\* A set that no step leaves holds all the calls around those in it.
LEMMA AroundWithin ==
  ASSUME NEW c, NEW S, NEW X, c \in X, Widen(S, X) \subseteq X
  PROVE  Around(c, S) \subseteq X
<1>1. PICK f : Climbs(f, c, S, Size) /\ Around(c, S) = f[Size] \ {c}
  BY AroundClimbs
<1> DEFINE A == {n \in Nat : n <= Size => f[n] \subseteq X}
<1>2. 0 \in A
  BY <1>1, ClimbFacts
<1>3. ASSUME NEW n \in Nat, n \in A PROVE n + 1 \in A
  <2>1. SUFFICES ASSUME n + 1 <= Size PROVE f[n + 1] \subseteq X
    OBVIOUS
  <2>2. n < Size /\ n <= Size
    BY <2>1, SizeIsNumber
  <2>3. f[n + 1] = Widen(S, f[n]) /\ f[n] \subseteq X
    BY <1>1, <1>3, <2>2, ClimbFacts
  <2> QED BY <2>3 DEF Widen
<1>4. Size \in A
  <2> HIDE DEF A
  <2> QED BY <1>2, <1>3, SetOfNumbers, SizeIsNumber
<1>5. f[Size] \subseteq X
  BY <1>4, SizeIsNumber
<1> QED BY <1>1, <1>5

\* And Around is closed: there are as many steps as calls, so that one of them
\* added nothing.
LEMMA AroundCloses ==
  ASSUME NEW c \in Calls, NEW S, \A d \in Calls : Parent(d) \in Calls \cup {NoCall}
  PROVE  Widen(S, Around(c, S) \cup {c}) \subseteq Around(c, S) \cup {c}
<1>1. PICK f : Climbs(f, c, S, Size) /\ Around(c, S) = f[Size] \ {c}
  BY AroundClimbs
<1>2. IsFiniteSet(Calls) /\ Size \in Nat
  BY StoreAssumption, SizeIsNumber
<1> DEFINE Wide(n) == /\ c \in f[n] /\ f[n] \subseteq Calls
                      /\ Widen(S, f[n]) = f[n] \/ Cardinality(f[n]) >= n + 1
           A == {n \in Nat : n <= Size => Wide(n)}
<1>3. 0 \in A
  <2>1. f[0] = {c}
    BY <1>1, ClimbFacts
  <2>2. Cardinality({c}) = 1
    BY FS_Singleton
  <2> QED BY <2>1, <2>2
<1>4. ASSUME NEW n \in Nat, n \in A PROVE n + 1 \in A
  <2>1. SUFFICES ASSUME n + 1 <= Size PROVE Wide(n + 1)
    OBVIOUS
  <2>2. n < Size /\ n <= Size
    BY <1>2, <2>1
  <2>3. f[n + 1] = Widen(S, f[n]) /\ Wide(n)
    BY <1>1, <1>4, <2>2, ClimbFacts
  <2>4. c \in f[n + 1] /\ f[n] \subseteq f[n + 1]
    BY <2>3 DEF Widen
  <2>5. f[n + 1] \subseteq Calls
    BY <2>3 DEF Widen
  <2>6. CASE Widen(S, f[n]) = f[n]
    BY <2>3, <2>4, <2>5, <2>6
  <2>7. CASE Widen(S, f[n]) # f[n] /\ Cardinality(f[n]) >= n + 1
    <3>1. /\ IsFiniteSet(f[n + 1]) /\ IsFiniteSet(f[n])
          /\ Cardinality(f[n]) \in Nat /\ Cardinality(f[n + 1]) \in Nat
      BY <1>2, <2>3, <2>5, FS_Subset, FS_CardinalityType
    <3>2. Cardinality(f[n]) <= Cardinality(f[n + 1]) /\ Cardinality(f[n]) # Cardinality(f[n + 1])
      BY <2>3, <2>4, <2>7, <3>1, FS_Subset
    <3>3. Cardinality(f[n + 1]) >= (n + 1) + 1
      BY <2>7, <3>1, <3>2
    <3> QED BY <2>4, <2>5, <3>3
  <2> QED BY <2>3, <2>6, <2>7
<1>5. Size \in A
  <2> HIDE DEF A
  <2> QED BY <1>2, <1>3, <1>4, SetOfNumbers
<1>6. Wide(Size)
  BY <1>2, <1>5
<1>7. Cardinality(f[Size]) <= Size /\ Cardinality(f[Size]) \in Nat
  BY <1>2, <1>6, FS_Subset, FS_CardinalityType DEF Size
<1>8. Widen(S, f[Size]) = f[Size]
  BY <1>2, <1>6, <1>7
<1>9. Around(c, S) \cup {c} = f[Size]
  BY <1>1, <1>6
<1> QED BY <1>8, <1>9

-----------------------------------------------------------------------------
(* Calls made by updaters.                                                 *)

Early == {"idle", "resolve", "queued"}

\* Whatever c would wait for is in the context it was called in, as long as it runs.
Aware(c) == \A a \in Awaiting(c) : Active(a) => a \in Inherited(c)

NestOK(c) ==
  /\ pc[c] # "idle" /\ Parent(c) # NoCall => pc[Parent(c)] \notin Early
  /\ ctx[c] \subseteq Above(c) \cup {c}
  /\ pc[c] \in Running => c \in ctx[c] /\ \A a \in Awaiting(c) : Active(a) => a \in ctx[c]
  /\ pc[c] # "idle" => Aware(c)
  /\ pc[c] = "queued" => \A a \in Awaiting(c) : ~(Active(a) /\ Path(a) = Path(c))

Nested == ctx \in [Calls -> SUBSET Calls] /\ \A c \in Calls : NestOK(c)

LEMMA SameAround ==
  ASSUME UNCHANGED shape, NEW c
  PROVE  /\ Above(c)' = Above(c) /\ Awaiting(c)' = Awaiting(c)
         /\ Parent(c)' = Parent(c) /\ Path(c)' = Path(c)
BY DEF Above, Awaiting, Around, Parent, Path

LEMMA ParentFacts ==
  ASSUME Types, NEW c \in Calls
  PROVE  /\ Parent(c) \in Calls \cup {NoCall} /\ NoCall \notin Calls
         /\ shape.awaited \subseteq Calls
         /\ Parent(c) # NoCall => Home(Parent(c)) = Home(c)
BY StoreAssumption DEF Types, Shape, Home, Parent

\* Those around a call are the updater that made it and those around that one.
LEMMA AboveParent ==
  ASSUME Types, NEW c \in Calls, Parent(c) # NoCall
  PROVE  {Parent(c)} \cup Above(Parent(c)) \subseteq Above(c) \cup {c}
<1> DEFINE X == Above(c) \cup {c}
<1>1. \A d \in Calls : Parent(d) \in Calls \cup {NoCall}
  BY ParentFacts
<1>2. Widen(Calls, X) \subseteq X
  BY <1>1, AroundCloses DEF Above
<1>3. Parent(c) \in X
  BY <1>2 DEF Widen
<1>4. Above(Parent(c)) \subseteq X
  <2> HIDE DEF X
  <2> QED BY <1>2, <1>3, AroundWithin DEF Above
<1> QED BY <1>3, <1>4

LEMMA AwaitingParent ==
  ASSUME Types, NEW c \in Calls
  PROVE  /\ c \notin shape.awaited \/ Parent(c) = NoCall => Awaiting(c) = {}
         /\ Parent(c) # NoCall => Awaiting(c) \subseteq {Parent(c)} \cup Awaiting(Parent(c))
         /\ Awaiting(c) \subseteq Calls \ {c}
<1>1. \A d \in Calls : Parent(d) \in Calls \cup {NoCall}
  BY ParentFacts
<1>2. c \notin Awaiting(c)
  BY DEF Awaiting, Around
<1>3. ASSUME c \notin shape.awaited \/ Parent(c) = NoCall
      PROVE  Awaiting(c) = {}
  <2>1. Widen(shape.awaited, {c}) \subseteq {c}
    BY <1>3 DEF Widen
  <2>2. Awaiting(c) \subseteq {c}
    BY <2>1, AroundWithin DEF Awaiting
  <2> QED BY <1>2, <2>2
<1>4. ASSUME Parent(c) # NoCall
      PROVE  Awaiting(c) \subseteq {Parent(c)} \cup Awaiting(Parent(c))
  <2> DEFINE Y == {Parent(c)} \cup Awaiting(Parent(c))
  <2>1. Parent(c) \in Calls
    BY <1>1, <1>4
  <2>2. Widen(shape.awaited, Y) \subseteq Y
    BY <1>1, <2>1, AroundCloses DEF Awaiting
  <2>3. Widen(shape.awaited, Y \cup {c}) \subseteq Y \cup {c}
    BY <2>2 DEF Widen
  <2>4. Awaiting(c) \subseteq Y \cup {c}
    <3> HIDE DEF Y
    <3> QED BY <2>3, AroundWithin DEF Awaiting
  <2> QED BY <1>2, <2>4
<1>5. Awaiting(c) \subseteq Calls \cup {c}
  <2>1. Widen(shape.awaited, Calls \cup {c}) \subseteq Calls \cup {c}
    BY <1>1, ParentFacts DEF Widen
  <2> QED BY <2>1, AroundWithin DEF Awaiting
<1> QED BY <1>2, <1>3, <1>4, <1>5

\* Updaters and the calls they make run in one process.
LEMMA AroundHome ==
  ASSUME Types, NEW c \in Calls, NEW a \in Awaiting(c)
  PROVE  a \in Calls /\ Home(a) = Home(c)
<1> DEFINE X == {d \in Calls : Home(d) = Home(c)}
<1>1. Widen(shape.awaited, X) \subseteq X
  BY ParentFacts DEF Widen
<1>2. Awaiting(c) \subseteq X
  <2>1. c \in X
    OBVIOUS
  <2> HIDE DEF X
  <2> QED BY <1>1, <2>1, AroundWithin DEF Awaiting
<1> QED BY <1>2

\* The calls around one that was made have begun.
LEMMA AroundBegun ==
  ASSUME Types, Nested, NEW c \in Calls, pc[c] # "idle", NEW a \in Awaiting(c)
  PROVE  a \in Calls /\ pc[a] \notin Early
<1> DEFINE X == {c} \cup {d \in Calls : pc[d] \notin Early}
<1>1. Widen(shape.awaited, X) \subseteq X
  <2>1. SUFFICES ASSUME NEW d \in X, Parent(d) # NoCall
                 PROVE  Parent(d) \in X
    BY DEF Widen
  <2>2. d \in Calls /\ pc[d] # "idle"
    BY <2>1 DEF Early
  <2>3. Parent(d) \in Calls /\ pc[Parent(d)] \notin Early
    BY <2>1, <2>2, ParentFacts DEF Nested, NestOK
  <2> QED BY <2>3
<1>2. Awaiting(c) \subseteq X
  <2> HIDE DEF X
  <2>1. c \in X
    BY DEF X
  <2> QED BY <1>1, <2>1, AroundWithin DEF Awaiting
<1> QED BY <1>2, AwaitingParent

\* Steps that make no call, admit none and begin none.
Goes ==
  /\ UNCHANGED <<shape, ctx>>
  /\ \A d \in Calls : /\ pc'[d] \in Running => pc[d] \in Running
                      /\ pc'[d] = "queued" => pc[d] = "queued"
                      /\ pc'[d] # "idle" <=> pc[d] # "idle"
                      /\ pc[d] \notin Early => pc'[d] \notin Early

LEMMA NestedGoes ==
  ASSUME Types, Nested, Goes
  PROVE  Nested'
<1> SUFFICES ASSUME NEW c \in Calls PROVE NestOK(c)'
  BY DEF Nested, Goes
<1>1. /\ Above(c)' = Above(c) /\ Awaiting(c)' = Awaiting(c) /\ Parent(c)' = Parent(c)
      /\ \A d \in Calls : Path(d)' = Path(d)
  BY SameAround DEF Goes
<1>2. Inherited(c)' = Inherited(c)
  BY <1>1 DEF Goes, Inherited
<1>3. Awaiting(c) \subseteq Calls /\ Parent(c) \in Calls \cup {NoCall}
  BY AwaitingParent, ParentFacts
<1>4. \A a \in Calls : Active(a)' => Active(a)
  BY DEF Active, Goes
<1>5. NestOK(c)
  BY DEF Nested
<1> QED BY <1>1, <1>2, <1>3, <1>4, <1>5 DEF NestOK, Aware, Goes

LEMMA NestedCalled ==
  ASSUME Types, Nested, NEW c \in Calls, Called(c)
  PROVE  Nested'
<1>1. /\ UNCHANGED <<shape, ctx>> /\ pc[c] = "idle" /\ pc'[c] = "resolve"
      /\ \A d \in Calls \ {c} : pc'[d] = pc[d]
  BY DEF Called, Go, Types
<1>2. \A d \in Calls : /\ Above(d)' = Above(d) /\ Awaiting(d)' = Awaiting(d)
                       /\ Parent(d)' = Parent(d) /\ Path(d)' = Path(d)
                       /\ Inherited(d)' = Inherited(d)
                       /\ Active(d)' = Active(d)
  <2>1. \A d \in Calls : Active(d)' = Active(d)
    BY <1>1 DEF Active, Running, Body
  <2> QED BY <1>1, <2>1, SameAround DEF Inherited
<1>3. \A d \in Calls : Awaiting(d) \subseteq Calls /\ Parent(d) \in Calls \cup {NoCall}
  BY AwaitingParent, ParentFacts
<1>4. ASSUME NEW d \in Calls, d # c PROVE NestOK(d)'
  <2>1. NestOK(d) /\ pc'[d] = pc[d]
    BY <1>1, <1>4 DEF Nested
  <2>2. pc[d] # "idle" /\ Parent(d) # NoCall => pc'[Parent(d)] \notin Early
    BY <1>1, <1>3, <2>1 DEF NestOK, Early
  <2> QED BY <1>1, <1>2, <1>3, <2>1, <2>2 DEF NestOK, Aware
<1>5. NestOK(c)'
  <2>1. Parent(c) # NoCall => Parent(c) # c /\ pc[Parent(c)] \notin Early
    BY <1>1 DEF Called, Early
  <2>2. ctx[c] \subseteq Above(c) \cup {c}
    BY DEF Nested, NestOK
  <2>3. Aware(c)
    <3>1. SUFFICES ASSUME NEW a \in Awaiting(c), Active(a) PROVE a \in Inherited(c)
      BY DEF Aware
    <3>2. Parent(c) \in Calls /\ Parent(c) # NoCall /\ c \in shape.awaited
      BY <1>3, AwaitingParent
    <3>3. pc[Parent(c)] = "run"
      BY <3>2 DEF Called
    <3>4. NestOK(Parent(c)) /\ pc[Parent(c)] \in Running
      BY <3>2, <3>3 DEF Nested, Running, Body
    <3>5. a \in {Parent(c)} \cup Awaiting(Parent(c))
      BY <3>2, AwaitingParent
    <3>6. a \in ctx[Parent(c)]
      BY <3>1, <3>4, <3>5 DEF NestOK
    <3> QED BY <3>2, <3>6 DEF Inherited
  <2> QED BY <1>1, <1>2, <1>3, <2>1, <2>2, <2>3 DEF NestOK, Aware, Running, Body
<1> QED BY <1>1, <1>4, <1>5 DEF Nested

\* A call that is admitted to the queue would wait for nobody who waits for it.
LEMMA NestedAdmit ==
  ASSUME Types, Nested, NEW c \in Calls, Admit(c)
  PROVE  Nested'
<1>1. /\ UNCHANGED <<shape, ctx>> /\ pc[c] = "resolve" /\ pc'[c] \in {"rejected", "queued"}
      /\ pc'[c] = "queued" => ~Reentrant(c)
      /\ \A d \in Calls \ {c} : pc'[d] = pc[d]
  BY DEF Admit, Go, Types
<1>2. \A d \in Calls : /\ Above(d)' = Above(d) /\ Awaiting(d)' = Awaiting(d)
                       /\ Parent(d)' = Parent(d) /\ Path(d)' = Path(d)
                       /\ Inherited(d)' = Inherited(d)
                       /\ Active(d)' = Active(d)
  <2>1. \A d \in Calls : Active(d)' = Active(d)
    BY <1>1 DEF Active, Running, Body
  <2> QED BY <1>1, <2>1, SameAround DEF Inherited
<1>3. \A d \in Calls : Awaiting(d) \subseteq Calls /\ Parent(d) \in Calls \cup {NoCall}
  BY AwaitingParent, ParentFacts
<1>4. \A d \in Calls : pc[d] \notin Early => pc'[d] \notin Early
  BY <1>1 DEF Early
<1>5. ASSUME NEW d \in Calls, d # c PROVE NestOK(d)'
  <2>1. NestOK(d) /\ pc'[d] = pc[d]
    BY <1>1, <1>5 DEF Nested
  <2> QED BY <1>1, <1>2, <1>3, <1>4, <2>1 DEF NestOK, Aware
<1>6. NestOK(c)'
  <2>1. NestOK(c) /\ Aware(c)
    BY <1>1 DEF Nested, NestOK
  <2>2. pc'[c] = "queued" => \A a \in Awaiting(c) : ~(Active(a) /\ Path(a) = Path(c))
    BY <1>1, <2>1 DEF Reentrant, Aware
  <2> QED BY <1>1, <1>2, <1>3, <1>4, <2>1, <2>2 DEF NestOK, Aware, Running, Body
<1> QED BY <1>1, <1>5, <1>6 DEF Nested

\* A call begins before any call is made inside it.
LEMMA NestedBegin ==
  ASSUME Types, Nested, NEW c \in Calls, Begin(c)
  PROVE  Nested'
<1>1. /\ UNCHANGED shape /\ pc[c] = "queued" /\ pc'[c] \in Running
      /\ ctx' = [ctx EXCEPT ![c] = Context(c)]
      /\ \A d \in Calls \ {c} : pc'[d] = pc[d]
  BY DEF Begin, BodyStart, Go, Types, Running, Body
<1>2. \A d \in Calls : /\ Above(d)' = Above(d) /\ Awaiting(d)' = Awaiting(d)
                       /\ Parent(d)' = Parent(d) /\ Path(d)' = Path(d)
                       /\ d # c => (Active(d)' <=> Active(d))
  BY <1>1, SameAround DEF Active
<1>3. \A d \in Calls : Awaiting(d) \subseteq Calls \ {d} /\ Parent(d) \in Calls \cup {NoCall}
  BY AwaitingParent, ParentFacts
<1>4. \A d \in Calls : pc[d] \notin Early => pc'[d] \notin Early
  BY <1>1 DEF Early, Running, Body
<1>5. Context(c) \subseteq Above(c) \cup {c} /\ Context(c) \subseteq Calls
  <2>1. Inherited(c) \subseteq Above(c) \cup {c} /\ Inherited(c) \subseteq Calls
    <3>1. CASE Parent(c) = NoCall
      BY <3>1 DEF Inherited
    <3>2. CASE Parent(c) # NoCall
      <4>1. NestOK(Parent(c)) /\ Parent(c) \in Calls
        BY <1>3, <3>2 DEF Nested
      <4>2. Inherited(c) \subseteq {Parent(c)} \cup Above(Parent(c)) /\ Inherited(c) \subseteq Calls
        BY <3>2, <4>1 DEF NestOK, Inherited, Nested
      <4> QED BY <3>2, <4>2, AboveParent
    <3> QED BY <3>1, <3>2
  <2> QED BY <2>1 DEF Context
<1>6. ctx' \in [Calls -> SUBSET Calls] /\ ctx'[c] = Context(c)
      /\ \A d \in Calls \ {c} : ctx'[d] = ctx[d]
  BY <1>1, <1>5 DEF Nested
<1>7. \A d \in Calls : pc[d] # "idle" => Inherited(d)' = Inherited(d)
  <2>1. SUFFICES ASSUME NEW d \in Calls, pc[d] # "idle", Parent(d) # NoCall
                 PROVE  ctx'[Parent(d)] = ctx[Parent(d)]
    BY <1>2 DEF Inherited
  <2>2. Parent(d) # c
    BY <1>1, <2>1 DEF Nested, NestOK, Early
  <2> QED BY <1>3, <1>6, <2>1, <2>2
<1>8. \A d \in Calls : pc[d] # "idle" =>
        \A a \in Awaiting(d) : a \in Calls /\ a # c /\ (Active(a)' <=> Active(a))
  <2>1. SUFFICES ASSUME NEW d \in Calls, pc[d] # "idle", NEW a \in Awaiting(d)
                 PROVE  a \in Calls /\ a # c
    BY <1>2
  <2> QED BY <1>1, <2>1, AroundBegun DEF Early
<1>9. ASSUME NEW d \in Calls, d # c PROVE NestOK(d)'
  <2>1. NestOK(d) /\ pc'[d] = pc[d] /\ ctx'[d] = ctx[d]
    BY <1>1, <1>6, <1>9 DEF Nested
  <2>2. CASE pc[d] = "idle"
    BY <1>2, <2>1, <2>2 DEF NestOK, Running, Body
  <2>3. CASE pc[d] # "idle"
    BY <1>2, <1>3, <1>4, <1>7, <1>8, <2>1, <2>3 DEF NestOK, Aware
  <2> QED BY <2>2, <2>3
<1>10. NestOK(c)'
  <2>1. NestOK(c) /\ Aware(c) /\ pc[c] # "idle"
    BY <1>1 DEF Nested, NestOK
  <2>2. c \in ctx'[c] /\ \A a \in Awaiting(c) : Active(a)' => a \in ctx'[c]
    BY <1>6, <1>8, <2>1 DEF Context, Aware
  <2>3. Aware(c)'
    BY <1>2, <1>7, <1>8, <2>1 DEF Aware
  <2>4. pc'[c] # "queued"
    BY <1>1 DEF Running, Body
  <2> QED BY <1>2, <1>3, <1>4, <1>5, <1>6, <2>1, <2>2, <2>3, <2>4 DEF NestOK
<1> QED BY <1>6, <1>9, <1>10 DEF Nested

LEMMA NestedStep ==
  ASSUME Types, Nested, [Next]_vars
  PROVE  Nested'
<1>1. ASSUME NEW c \in Calls, Called(c) PROVE Nested'
  BY <1>1, NestedCalled
<1>2. ASSUME NEW c \in Calls, Admit(c) PROVE Nested'
  BY <1>2, NestedAdmit
<1>3. ASSUME NEW c \in Calls, Begin(c) PROVE Nested'
  BY <1>3, NestedBegin
<1>4. ASSUME NEW c \in Calls, NEW to \in Running \cup Settled, to # "rejected",
             UNCHANGED <<shape, ctx>>, Go(c, to), pc[c] \in Running
      PROVE  Nested'
  <2>1. \A d \in Calls : pc'[d] = IF d = c THEN to ELSE pc[d]
    BY <1>4 DEF Go, Types
  <2>2. Goes
    BY <1>4, <2>1 DEF Goes, Running, Body, Settled, Early
  <2> QED BY <2>2, NestedGoes
<1>5. ASSUME NEW c \in Calls, Acquire(c) PROVE Nested'
  BY <1>4, <1>5 DEF Acquire, BodyStart, Running, Body
<1>6. ASSUME NEW c \in Calls, LockTimeout(c) \/ LockFails(c) PROVE Nested'
  BY <1>4, <1>6 DEF LockTimeout, LockFails, Running, Settled
<1>7. ASSUME NEW c \in Calls, Read(c) \/ Updater(c) \/ Throw(c) PROVE Nested'
  BY <1>4, <1>7 DEF Read, Updater, Throw, Running, Body
<1>8. ASSUME NEW c \in Calls, Write(c) \/ BodyFails(c) PROVE Nested'
  BY <1>4, <1>8 DEF Write, BodyFails, Running, Body
<1>9. ASSUME NEW c \in Calls, Release(c) \/ ReleaseFails(c) PROVE Nested'
  BY <1>4, <1>9 DEF Release, ReleaseFails, Running, Settled
<1>10. ASSUME NEW h \in Procs, Crash(h) PROVE Nested'
  <2>1. \A d \in Calls :
          pc'[d] = IF Home(d) = h /\ pc[d] \notin Settled THEN "dead" ELSE pc[d]
    BY <1>10 DEF Crash
  <2>2. UNCHANGED <<shape, ctx>>
    BY <1>10 DEF Crash
  <2>3. \A d \in Calls : /\ Above(d)' = Above(d) /\ Awaiting(d)' = Awaiting(d)
                         /\ Parent(d)' = Parent(d) /\ Path(d)' = Path(d)
                         /\ Inherited(d)' = Inherited(d)
    BY <2>2, SameAround DEF Inherited
  <2>4. SUFFICES ASSUME NEW d \in Calls PROVE NestOK(d)'
    BY <2>2 DEF Nested
  <2>5. /\ \A a \in Awaiting(d) : a \in Calls /\ Home(a) = Home(d)
        /\ Parent(d) # NoCall => Parent(d) \in Calls /\ Home(Parent(d)) = Home(d)
    BY AroundHome, ParentFacts
  <2>6. NestOK(d)
    BY DEF Nested
  <2>7. CASE Home(d) = h
    <3>1. pc'[d] \in Settled /\ \A a \in Awaiting(d) : pc'[a] \in Settled
      BY <2>1, <2>5, <2>7 DEF Settled
    <3>2. \A a \in Awaiting(d) : ~Active(a)'
      BY <3>1 DEF Active, Running, Body, Settled
    <3>3. Parent(d) # NoCall => pc'[Parent(d)] \in Settled
      BY <2>1, <2>5, <2>7 DEF Settled
    <3> QED BY <2>2, <2>3, <2>6, <3>1, <3>2, <3>3
            DEF NestOK, Aware, Running, Body, Settled, Early
  <2>8. CASE Home(d) # h
    <3>1. pc'[d] = pc[d] /\ \A a \in Awaiting(d) : pc'[a] = pc[a]
      BY <2>1, <2>5, <2>8
    <3>2. \A a \in Awaiting(d) : Active(a)' = Active(a)
      BY <3>1 DEF Active
    <3>3. Parent(d) # NoCall => pc'[Parent(d)] = pc[Parent(d)]
      BY <2>1, <2>5, <2>8
    <3> QED BY <2>2, <2>3, <2>5, <2>6, <3>1, <3>2, <3>3 DEF NestOK, Aware
  <2> QED BY <2>7, <2>8
<1>11. CASE UNCHANGED vars
  <2>1. Goes
    BY <1>11 DEF Goes, vars
  <2> QED BY <2>1, NestedGoes
<1> QED BY <1>1, <1>2, <1>3, <1>5, <1>6, <1>7, <1>8, <1>9, <1>10, <1>11
     DEF Next, Proceed, Upset

LEMMA OnlyAdmitRejects ==
  ASSUME Types, [Next]_vars, NEW c \in Calls, pc'[c] = "rejected", pc[c] # "rejected"
  PROVE  Admit(c) /\ Reentrant(c) /\ pc[c] = "resolve"
<1>1. ASSUME NEW d \in Calls, NEW to, Go(d, to), to # "rejected" PROVE FALSE
  BY <1>1 DEF Go, Types
<1>2. ASSUME NEW d \in Calls, Admit(d)
      PROVE  d = c /\ Reentrant(c) /\ pc[c] = "resolve"
  BY <1>2 DEF Admit, Go, Types
<1>3. ASSUME NEW d \in Calls, Called(d) \/ Begin(d) \/ Acquire(d) \/ LockTimeout(d) \/ Read(d)
                              \/ Updater(d) \/ Write(d)
      PROVE  FALSE
  BY <1>1, <1>3 DEF Called, Begin, Acquire, LockTimeout, Read, Updater, Write, BodyStart
<1>4. ASSUME NEW d \in Calls, Release(d) \/ Upset(d)
      PROVE  FALSE
  BY <1>1, <1>4 DEF Release, Upset, Throw, LockFails, BodyFails, ReleaseFails
<1>5. ASSUME NEW h \in Procs, Crash(h) PROVE FALSE
  BY <1>5 DEF Crash
<1>6. CASE UNCHANGED vars
  BY <1>6 DEF vars
<1> QED BY <1>2, <1>3, <1>4, <1>5, <1>6 DEF Next, Proceed

LEMMA NestedInvariance == Spec => []Nested
<1>1. Init => Nested
  <2>1. Init => Types
    BY TypesInit
  <2>2. ASSUME Init, NEW c \in Calls PROVE NestOK(c)
    BY <2>2 DEF Init, NestOK, Running, Body
  <2>3. Init => ctx \in [Calls -> SUBSET Calls]
    BY DEF Init
  <2> QED BY <2>2, <2>3 DEF Nested
<1>2. Inv /\ Inv' /\ Nested /\ [Next]_vars => Nested'
  BY NestedStep DEF Inv
<1> QED BY <1>1, <1>2, Invariance, PTL DEF Spec

\* store-reentrant-update rejects every call that would wait for itself, and only
\* calls made, at whatever depth, by an update of their own document that still runs.
THEOREM ReentrantCallsAreRejected == Spec => ReentrantRejected
<1>1. Inv /\ Nested /\ Inv' /\ Nested' /\ [Next]_vars => [NoSelfWait' /\ RejectedOnlyInside]_vars
  <2> SUFFICES ASSUME Inv, Nested, Inv', Nested', [Next]_vars
               PROVE  NoSelfWait' /\ RejectedOnlyInside
    OBVIOUS
  <2>1. NoSelfWait'
    BY DEF Nested, NestOK, NoSelfWait
  <2>2. ASSUME NEW c \in Calls, pc'[c] = "rejected", pc[c] # "rejected"
        PROVE  \E a \in Above(c) : Active(a) /\ Path(a) = Path(c)
    <3>1. Types /\ Types'
      BY DEF Inv
    <3>2. Admit(c) /\ Reentrant(c) /\ pc[c] = "resolve"
      BY <2>2, <3>1, OnlyAdmitRejects
    <3>3. PICK a \in Inherited(c) : Active(a) /\ Path(a) = Path(c)
      BY <3>2 DEF Reentrant
    <3>4. Parent(c) \in Calls /\ Parent(c) # NoCall /\ a \in ctx[Parent(c)]
      BY <3>1, ParentFacts DEF Inherited
    <3>5. a \in {Parent(c)} \cup Above(Parent(c))
      BY <3>4 DEF Nested, NestOK
    <3>6. a # c
      BY <3>2, <3>3 DEF Active, Running, Body
    <3>7. a \in Above(c)
      BY <3>1, <3>4, <3>5, <3>6, AboveParent
    <3> QED BY <3>3, <3>7
  <2> QED BY <2>1, <2>2 DEF RejectedOnlyInside
<1> QED BY <1>1, Invariance, NestedInvariance, PTL DEF ReentrantRejected, Spec
=============================================================================
