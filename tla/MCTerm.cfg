SPECIFICATION FairSpec
CONSTANTS
  d1 = d1
  d2 = d2
  Daemons = {d1, d2}
  Clients = {}
  None = None
  MaxPosts = 2
  MaxShows = 1
  MaxFaults = 1
PROPERTY TermEnds
CHECK_DEADLOCK FALSE
