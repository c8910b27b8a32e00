--------------------------- MODULE MCDocumentStore ---------------------------
(* Instances of DocumentStore for TLC.                                      *)
EXTENDS DocumentStore, TLC

CONSTANTS p1, p2, a, b, c1, c2, c3, c4

TwoProcesses == {p1, p2}
TwoPaths     == {a, b}
FourCalls    == {c1, c2, c3, c4}

Updates  == [c \in Calls |-> "update"]
AllInOne == [c \in Calls |-> p1]
NoNest   == [c \in Calls |-> NoCall]

\* Four independent calls of one path, a plain write among them.
Flat(locked, home) ==
  [home |-> home, path |-> [c \in Calls |-> a], kind |-> [Updates EXCEPT ![c4] = "write"],
   parent |-> NoNest, awaited |-> {}, locked |-> locked]

\* c1 calls c2, which calls c3; c4 is independent of them.
Chain(paths, awaited, locked, rival) ==
  [home |-> [AllInOne EXCEPT ![c4] = rival], path |-> paths, kind |-> Updates,
   parent |-> [NoNest EXCEPT ![c2] = c1, ![c3] = c2], awaited |-> awaited, locked |-> locked]

\* c1 calls c2 and c3 calls c4.
Pairs(paths, awaited, locked, rival) ==
  [home |-> [AllInOne EXCEPT ![c3] = rival, ![c4] = rival], path |-> paths, kind |-> Updates,
   parent |-> [NoNest EXCEPT ![c2] = c1, ![c4] = c3], awaited |-> awaited, locked |-> locked]

On(w, x, y, z) == c1 :> w @@ c2 :> x @@ c3 :> y @@ c4 :> z

MCShapes ==
  {Flat(TRUE, [AllInOne EXCEPT ![c3] = p2, ![c4] = p2]), Flat(FALSE, AllInOne)}
  \cup {Chain(paths, awaited, locked, rival) :
          paths \in {On(a, b, a, a), On(a, b, b, a), On(a, a, a, a)},
          awaited \in SUBSET {c2, c3}, locked \in BOOLEAN, rival \in {p1}}
  \cup {Chain(On(a, b, a, a), {c2, c3}, TRUE, p2)}
  \cup {Pairs(paths, awaited, locked, rival) :
          paths \in {On(a, b, a, b), On(a, b, b, a)},
          awaited \in {{c2, c4}, {c2}}, locked \in BOOLEAN, rival \in {p1, p2}}
=============================================================================
