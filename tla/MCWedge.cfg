SPECIFICATION Spec
CONSTANTS
  p1 = p1
  p2 = p2
  Producers = {p1, p2}
  Flusher = Flusher
  RcSize = 2
  SpinCnt = 1
  MaxCalls = 2
  MaxWork = 4
  RBT_NULL = RBT_NULL
  RBT_LOST = RBT_LOST
INVARIANT NeverWedged
