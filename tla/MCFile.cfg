SPECIFICATION Spec
CONSTANTS
  f1 = f1
  Paths = {f1}
  Sizes = {4, 6}
  RcSize = 2
  MaxFlush = 3
  NoFile = NoFile
  MaxWrites = 5
  MaxOpens = 2
  MaxSets = 2
  MaxZaps = 2
  MaxFaults = 1
INVARIANTS TypeOK PrintsLatest KillSafe SummaryAgrees FileBounded
CHECK_DEADLOCK FALSE
