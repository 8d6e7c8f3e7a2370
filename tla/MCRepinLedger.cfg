SPECIFICATION FairSpec
CHECK_DEADLOCK FALSE
CONSTANTS
  t = t
  u = u
  w = w
  iso = iso
  wbfs = wbfs
  Tabs = {t}
  Sweeps = {w}
  Source <- Converts
  MaxInst = 2
  MaxFaults = 1
INVARIANTS
  LedgerInv
  RightInstance
PROPERTIES
  LedgerMoves
