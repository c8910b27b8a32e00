SPECIFICATION FairSpec
CONSTANTS
  a = a
  b = b
  c1 = c1
  c2 = c2
  Lost = Lost
  Folded = Folded
  None = None
  Names <- TwoNames
  Scope <- Narrowed
  Calls <- TwoCalls
  MaxPending = 1
  MaxMoves = 3
CHECK_DEADLOCK FALSE
INVARIANTS ReconcileComplete HintKept
PROPERTIES NoLateReport EveryWaiterSettles ChangeReported
