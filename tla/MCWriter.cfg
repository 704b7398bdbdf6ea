SPECIFICATION Spec
CONSTANTS
  Values <- MCValues
  KeyLength <- MCKeyLength
  Roots <- MCRoots
  Options <- MCOptions
  Capacities <- MCCapacities
  MaxDepth = 3
  SizeMax = 63
INVARIANTS
  WithinBuffer
  MeasuredSuffices
  SuccessIsWhole
  DepthTruthful
