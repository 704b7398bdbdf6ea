SPECIFICATION Spec
CONSTANTS
  Inputs <- MCInputs
  BaseCounts = {0, 3}
  MaxDepth = 3
  MaxNodes = 6
  MaxArrayLen = 3
  FirstCap = 2
INVARIANTS
  TypeOK
  StackBounded
  FramesNested
  NodesFormForest
  LimitsTruthful
  ReturnsTheDocument
  RejectsOnlyMalformed
PROPERTIES
  Progress
  Terminates
CHECK_DEADLOCK FALSE
