SPECIFICATION Spec
CONSTANTS
  c1 = c1
  c2 = c2
  p1 = p1
  p2 = p2
  a = a
  b = b
  t = t
  Calls = {c1, c2}
  Procs = {p1, p2}
  Names = {a, b, t}
  Setups <- MCSetups
  MaxFaults = 2
  FaultKinds = {"error", "lost", "crash", "exit", "put", "take", "edit"}
INVARIANTS TargetWhole Accounted
PROPERTIES LastNameKept SourceOutlivesCopy
CHECK_DEADLOCK FALSE
