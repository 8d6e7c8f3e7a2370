SPECIFICATION Spec
CHECK_DEADLOCK FALSE
CONSTANTS
  r1 = r1
  r2 = r2
  NJobs = 2
  Cap = 1
  LogSize = 1
  MaxFrames = 1
  Reads = {r1}
  Disturbances = {"drop", "fail", "clear", "delete", "restart"}
  MaxDisturbances = 1
INVARIANTS
  CursorInv
  TallyAtCursor
PROPERTIES
  TotalsNeverGoBack
