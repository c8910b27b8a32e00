------------------------ MODULE MCArchivePublication ------------------------
(* The instance of ArchivePublication for TLC.                              *)
EXTENDS ArchivePublication

CONSTANTS a, b, dir, sub, top, inner, deep, root

MCCalls == {a, b}
MCDirs  == {dir, sub}
MCFiles == {top, inner, deep}

\* root: dir, top;  dir: sub, inner;  sub: deep
MCParent == [n \in MCDirs \cup MCFiles |->
  CASE n \in {dir, top} -> root [] n \in {sub, inner} -> dir [] n = deep -> sub]

Open  == {"r", "w", "x"}
Tree(d, s) == [n \in MCDirs |-> IF n = dir THEN d ELSE s]
New == Tree(Absent, Absent)

\* One call, durable, against its deadline: what it finds, and final modes that close
\* a directory, or hide it, or let it only be searched, and files that cannot be read.
Alone ==
  [ calls : {{a}}, merge : {{}}, timed : {{a}}, durable : {{a}},
    old  : {New, Tree({"w", "x"}, Absent), Tree({"w", "x"}, {"r", "x"}), Tree(Open, {"w"})},
    mode : {[c \in MCCalls |-> m] : m \in {Tree(Open, Open), Tree({}, {}), Tree({"w", "x"}, {"x"})}},
    dark : {[c \in MCCalls |-> {}], [c \in MCCalls |-> {deep}]} ]

\* A public merge, and an extraction that is not durable and not timed.
Plain ==
  [ calls : {{a}}, merge : {{}, {a}}, timed : {{}}, durable : {{}},
    old  : {New, Tree({"w", "x"}, Open)},
    mode : {[c \in MCCalls |-> m] : m \in {Tree(Open, Open), Tree({}, {}), Tree({"w", "x"}, {"x"})}},
    dark : {[c \in MCCalls |-> {}]} ]

\* Two calls over one destination, whose modes may shut each other out: beside a merge
\* without a deadline, beside an extraction with one.
Together ==
  { [ calls |-> {a, b}, merge |-> p.merge, timed |-> p.timed, durable |-> {a}, old |-> New,
      mode |-> [c \in MCCalls |-> IF c = a THEN Tree(Open, Open) ELSE p.mode],
      dark |-> [c \in MCCalls |-> IF c = a THEN {deep} ELSE {}] ] :
    p \in {[merge |-> {b}, timed |-> {}, mode |-> Tree(Open, Open)],
          [merge |-> {}, timed |-> {a}, mode |-> Tree({"r", "w"}, {"x"})]} }

MCSetups == Alone \cup Plain \cup Together

=============================================================================
