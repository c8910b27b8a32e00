SPECIFICATION Spec
CONSTANTS
  c1 = c1
  c2 = c2
  p1 = p1
  p2 = p2
  i1 = i1
  i2 = i2
  i3 = i3
  i4 = i4
  i5 = i5
  None = None
  Free = Free
  Stale = Stale
  Calls <- TwoCalls
  Procs <- TwoProcesses
  Inodes <- FiveInodes
  Setups <- MCSetups
  MaxRetries = 1
  Unstable = TRUE
  MaxFaults = 2
  FaultKinds <- AllFaults
CHECK_DEADLOCK FALSE
INVARIANTS DamageReported PowerLossSafe
PROPERTIES ReplacesAtomically RefusalIsTerminal TempOwned
