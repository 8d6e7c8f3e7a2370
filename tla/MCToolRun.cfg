SPECIFICATION MainSpec
CHECK_DEADLOCK FALSE
CONSTANTS
  N = 2
  Extra = 2
  Tools <- AllTools
  Samples = {size}
  size = size
  MaxProbes = 2
  MaxHangs = 1
INVARIANTS
  RunInv
  StrayOnce
  NothingPartial
PROPERTIES
  NeverHangs
