SPECIFICATION ToolFairSpec
CHECK_DEADLOCK FALSE
CONSTANTS
  N = 1
  Extra = 2
  Tools <- Required
  Samples = {size}
  size = size
  MaxProbes = 2
  MaxHangs = 1
PROPERTIES
  RunAlwaysEnds
