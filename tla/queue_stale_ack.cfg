SPECIFICATION Spec
CONSTANTS
  c1 = c1
  c2 = c2
  p1 = p1
  p2 = p2
  i1 = i1
  i2 = i2
  i3 = i3
  i4 = i4
  None = None
  Directory = Directory
  Stale = Stale
  Consumers <- TwoConsumers
  Producers <- OneProducer
  Inodes <- FourInodes
  MaxGen = 2
  MaxFaults = 0
  FaultKinds <- NoFaults
  Calls <- Settling
CHECK_DEADLOCK FALSE
SYMMETRY Symmetry
PROPERTY AckIsGenerationBound
