SPECIFICATION FairSpec
CONSTANTS
  p1 = p1
  p2 = p2
  Producers = {p1, p2}
  Flusher = Flusher
  RcSize = 1
  SpinCnt = 2
  MaxCalls = 1
  MaxWork = 3
  RBT_NULL = RBT_NULL
  RBT_LOST = RBT_LOST
INVARIANT LossAccounting
PROPERTIES CallReturns HandOverTaken CloseDone
CHECK_DEADLOCK FALSE
