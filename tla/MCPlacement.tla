----------------------------- MODULE MCPlacement -----------------------------
(* Pairs of calls in one or two processes, on three names.                  *)
EXTENDS Placement, TLC

CONSTANTS c1, c2, p1, p2, a, b, t

Call(kind, way, home, from, to) ==
  [kind |-> kind, home |-> home, from |-> from, to |-> to, way |-> way, keep |-> FALSE]

\* start: the objects of a, b and t.
Situation(first, second, start, hard, noreplace, cross) ==
  [task |-> (c1 :> first @@ c2 :> second),
   start |-> (a :> start[1] @@ b :> start[2] @@ t :> start[3]),
   hard |-> hard, noreplace |-> noreplace, cross |-> cross]

Publish(way, home, from) == Call("publish", way, home, from, t)
Keeping(task) == [task EXCEPT !.keep = TRUE]
Swap(home, from) == Call("swap", "replace", home, from, t)
Move(way, home, from, to) == Call("move", way, home, from, to)
Workspace(way, home, name) == Call("workspace", way, home, name, name)

MCSetups == {
  \* two publications to one target; a filesystem without links
  Situation(Publish("copy", p1, a), Keeping(Publish("rename", p2, b)), <<1, 2, 0>>, FALSE, TRUE, TRUE),
  \* rename by link and unlink, against a link of the same source
  Situation(Publish("rename", p1, a), Publish("link", p2, a), <<1, 2, 0>>, TRUE, FALSE, TRUE),
  \* a publication against a move to the same target, and of the same source
  Situation(Publish("rename", p1, a), Move("direct", p2, b, t), <<1, 2, 0>>, TRUE, FALSE, TRUE),
  Situation(Keeping(Publish("copy", p1, a)), Move("reject", p2, a, b), <<1, 0, 0>>, TRUE, TRUE, FALSE),
  \* swaps of one target, in one process and in two
  Situation(Swap(p1, a), Swap(p1, b), <<1, 2, 3>>, TRUE, TRUE, FALSE),
  Situation(Swap(p1, a), Swap(p2, b), <<1, 2, 3>>, TRUE, TRUE, FALSE),
  Situation(Swap(p1, a), Swap(p2, b), <<1, 2, 0>>, TRUE, TRUE, FALSE),
  \* moves to one target, one of them a plain rename
  Situation(Move("reject", p1, a, t), Move("direct", p2, b, t), <<1, 2, 3>>, TRUE, TRUE, FALSE),
  \* a process with two workspaces, and with a workspace and a move
  Situation(Workspace("native", p1, a), Workspace("path", p1, b), <<0, 0, 3>>, TRUE, TRUE, FALSE),
  Situation(Workspace("path", p1, a), Move("reject", p1, b, t), <<0, 2, 3>>, TRUE, TRUE, FALSE)}
=============================================================================
