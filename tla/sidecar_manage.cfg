SPECIFICATION Spec
CONSTANTS
  p1 = p1
  p2 = p2
  p3 = p3
  t1 = t1
  t2 = t2
  t3 = t3
  r1 = r1
  r2 = r2
  r3 = r3
  NoOwner = NoOwner
  Nobody = Nobody
  NoRecord = NoRecord
  Unowned = Unowned
  Stale = Stale
  Procs <- TwoProcesses
  Tasks <- ThreeTasks
  Home <- Shared
  ReentrantOwner <- TwoOfUs
  Records <- ThreeRecords
  MaxFaults = 2
  Hardlinks = FALSE
  Recovery = "fail-closed"
  Ops <- Interrupts
CHECK_DEADLOCK FALSE
SYMMETRY Symmetry
INVARIANTS LastReferenceReleases AdmissionOwned
