SPECIFICATION Spec
CONSTANTS
  f1 = f1
  Paths = {f1}
  Sizes = {4, 6}
  RcSize = 2
  MaxFlush = 2
  NoFile = NoFile
  MaxWrites = 5
  MaxOpens = 2
  MaxSets = 2
  MaxZaps = 2
  MaxFaults = 0
INVARIANT SurvivesNoFile
CHECK_DEADLOCK FALSE
