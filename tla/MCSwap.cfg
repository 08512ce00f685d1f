SPECIFICATION Spec
CONSTANTS
  p1 = p1
  Producers = {p1}
  Flusher = Flusher
  RcSize = 2
  SpinCnt = 1
  MaxCalls = 3
  MaxWork = 4
  RBT_NULL = RBT_NULL
  RBT_LOST = RBT_LOST
INVARIANT SwapGuarded
