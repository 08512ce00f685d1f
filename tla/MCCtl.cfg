SPECIFICATION FairSpec
CONSTANTS
  r1 = r1
  r2 = r2
  f = f
  Rbts = {r1, r2}
  Flusher = f
  Commands <- MCCommands
  MaxCommands = 3
  MaxFaults = 1
INVARIANTS TypeOK CalmHonoured CalmSurvives
PROPERTY RequestsEnd
CHECK_DEADLOCK FALSE
