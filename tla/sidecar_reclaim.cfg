SPECIFICATION Spec
CONSTANTS
  p1 = p1
  p2 = p2
  p3 = p3
  t1 = t1
  t2 = t2
  t3 = t3
  r1 = r1
  r2 = r2
  r3 = r3
  NoOwner = NoOwner
  Nobody = Nobody
  NoRecord = NoRecord
  Unowned = Unowned
  Stale = Stale
  Procs <- ThreeProcesses
  Tasks <- ThreeTasks
  Home <- Apart
  ReentrantOwner <- Strangers
  Records <- ThreeRecords
  MaxFaults = 2
  Hardlinks = FALSE
  Recovery = "remove-if-unchanged"
  Ops <- Failures
CHECK_DEADLOCK FALSE
SYMMETRY Symmetry
INVARIANTS TypeOK HeldOnDisk
PROPERTIES KeepsService LiveRecordKept
