SPECIFICATION Spec
CONSTANTS
  Inputs <- MCInputs
  Threshold = 2
INVARIANTS
  SortsByKey
  RecursionLogarithmic
PROPERTY EveryTurnShrinks
CHECK_DEADLOCK FALSE
