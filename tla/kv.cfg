SPECIFICATION KvSpec
CONSTANTS
  MaxLen = 8
  NLayers = 2
  MaxRows = 2
  HeadDim = 1
  MaxWidth = 2
  Token = {a, b}
  Burst = 2
  W = 16
  Changes = {1, 8}
INVARIANTS
  Compacted
  SlabExact
PROPERTIES
  ResumeExact
CHECK_DEADLOCK FALSE
