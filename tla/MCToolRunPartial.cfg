SPECIFICATION ToolSpec
CHECK_DEADLOCK FALSE
CONSTANTS
  N = 2
  Extra = 2
  Tools <- Silent
  Samples = {size}
  size = size
  MaxProbes = 2
  MaxHangs = 1
INVARIANTS
  PartialSwept
