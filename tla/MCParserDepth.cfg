SPECIFICATION Spec
CONSTANTS
  Inputs <- MCInputs
  BaseCounts = {0}
  MaxDepth = 3
  MaxNodes = 6
  MaxArrayLen = 3
  FirstCap = 2
INVARIANT DepthErrorAsDocumented
CHECK_DEADLOCK FALSE
