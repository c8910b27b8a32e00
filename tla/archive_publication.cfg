SPECIFICATION FairSpec
CONSTANTS
  a = a
  b = b
  dir = dir
  sub = sub
  top = top
  inner = inner
  deep = deep
  root = root
  Calls <- MCCalls
  Dirs <- MCDirs
  Files <- MCFiles
  Root = root
  Parent <- MCParent
  Absent = Absent
  Nobody = Nobody
  Nothing = Nothing
  Batch = 2
  MaxFaults = 1
  Setups <- MCSetups
CHECK_DEADLOCK FALSE
INVARIANTS OkMeansStored OwnModesHarmless
PROPERTIES AnswerIsFinal TimeoutAnswered
