SPECIFICATION FairSpec
CHECK_DEADLOCK FALSE
CONSTANTS
  r1 = r1
  r2 = r2
  NJobs = 1
  Cap = 1
  LogSize = 1
  MaxFrames = 1
  Reads = {r1}
  Disturbances = {"restart"}
  MaxDisturbances = 1
PROPERTIES
  NoGhostRow
