SPECIFICATION FairSpec
CONSTANTS
  p1 = p1
  p2 = p2
  a = a
  b = b
  c1 = c1
  c2 = c2
  c3 = c3
  c4 = c4
  NoCall = NoCall
  Free = Free
  Stale = Stale
  Procs <- TwoProcesses
  Calls <- FourCalls
  Paths <- TwoPaths
  Shapes <- MCShapes
  Recovery = "remove-if-unchanged"
  MaxFaults = 1
CHECK_DEADLOCK FALSE
INVARIANT NoLostUpdate
PROPERTIES ReentrantRejected EverySettles
