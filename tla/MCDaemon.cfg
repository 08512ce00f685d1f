SPECIFICATION Spec
CONSTANTS
  d1 = d1
  d2 = d2
  d3 = d3
  c1 = c1
  Daemons = {d1, d2, d3}
  Clients = {c1}
  None = None
  MaxPosts = 1
  MaxShows = 0
  MaxFaults = 1
SYMMETRY Symmetry
INVARIANTS TypeOK NamesCleaned FlushMapped AttachReady SoleDaemon
CHECK_DEADLOCK FALSE
