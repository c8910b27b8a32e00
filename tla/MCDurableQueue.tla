--------------------------- MODULE MCDurableQueue ---------------------------
(* Instances of DurableQueue for TLC.                                       *)
EXTENDS DurableQueueImpl, TLC

CONSTANTS c1, c2, p1, p2, i1, i2, i3, i4

OneConsumer  == {c1}
TwoConsumers == {c1, c2}
OneProducer  == {p1}
ThreeInodes  == {i1, i2, i3}
FourInodes   == {i1, i2, i3, i4}

AllFaults == {"sync", "link", "crash", "power"}
NoFaults     == {}
NoPowerLoss  == {"sync", "link", "crash"}

Settling     == {"ack", "fail"}
AckOnly      == {"ack"}
AnyCall      == {"ack", "fail", "failUnloaded"}

\* The recovery run follows two enqueues with any two faults, and three with any
\* one fault that is not a power loss.
Bounded == (nextGen - 1) + faults <= 4 /\ (nextGen <= 3 \/ boots = 0)

\* The shared run follows two faults of one enqueue, and a third if one of them was a
\* power loss, with one consumer at work at a time; and two enqueues without faults
\* with both at work.
OneAtWork == \E c \in Consumers : pc[c] = "idle" /\ got[c] = 0
OneWithFaults ==
  \/ faults' = 0
  \/ nextGen' <= 2 /\ OneAtWork /\ (faults' <= 2 \/ boots' > 0)

SharedSymmetry == Permutations(FourInodes) \cup Permutations({c1, c2})
Symmetry == Permutations(ThreeInodes) \cup Permutations({c1, c2})

=============================================================================
