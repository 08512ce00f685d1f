SPECIFICATION FairSpec
CONSTANTS
  NrProcesses = 2
  NrThreads = 2
  NrTraces = 3
CHECK_DEADLOCK FALSE
INVARIANTS TypeOK StartTogether EachOpOnce TracesAttached
PROPERTY AllEnd
