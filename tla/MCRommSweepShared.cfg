SPECIFICATION Spec
CHECK_DEADLOCK FALSE
CONSTANTS
  a = a
  b = b
  Roms = {a, b}
  Dest <- Together
  Occupied = {}
  Rules <- Overwriting
  Cap = 2
  MaxJobs = 2
  MaxAsks = 0
  MaxFaults = 0
INVARIANTS
  NoSourceLost
