SPECIFICATION CycleSpec
CONSTANTS
  c1 = c1
  c2 = c2
  c3 = c3
  c4 = c4
  NoChunk = NoChunk
  Chunk <- MCChunk
  Align = 2
  HeaderSize = 4
  ArenaSize = 6
  NodeSize = 3
  MinBlock = 8
  DefaultBlock = 11
  SizeMax = 31
  MaxNodes = 2
  BlockSizeArg <- MCBlockSizeArg
  Request <- MCRequest
SYMMETRY ChunkSymmetry
INVARIANTS
  TypeOK
  NoLeak
  RegionsInBounds
  RegionsDisjoint
  RegionsAligned
  ReplayInPlace
  CountersAccounted
PROPERTY ImplementsRegionStore
