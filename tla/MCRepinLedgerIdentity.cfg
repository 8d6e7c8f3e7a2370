SPECIFICATION Spec
CHECK_DEADLOCK FALSE
CONSTANTS
  t = t
  u = u
  w = w
  iso = iso
  wbfs = wbfs
  Tabs = {t, u}
  Sweeps = {}
  Source <- Converts
  MaxInst = 1
  MaxFaults = 0
INVARIANTS
  RightIdentity
