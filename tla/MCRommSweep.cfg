SPECIFICATION Spec
CHECK_DEADLOCK FALSE
CONSTANTS
  a = a
  b = b
  Roms = {a, b}
  Dest <- Apart
  Occupied = {}
  Rules <- Mixed
  Cap = 1
  MaxJobs = 2
  MaxAsks = 1
  MaxFaults = 1
SYMMETRY Symmetry
INVARIANTS
  RecordInv
  PassedOverRightly
  NoSourceLost
