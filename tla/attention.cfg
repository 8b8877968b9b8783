SPECIFICATION Spec
CONSTANTS
  MaxCtx = 8
  Shape <- MCShape
  Thresh = 4
  GraphSlots = 3
  LateEnable = {"q8"}
  Chunks = {2, 3}
  FpTile = 1
  FpSerial = 3
  OldTile = 2
  QTile = 1
  PartTile = 3
  FpSplits = 4
  QSplits = 8
  SMax = 6
  MaxPart = 4
  UnfPart = 2
  MinBlocks = 2
  NoUnfused = FALSE
  NoFusedAttn = FALSE
  NoFusedQ4 = FALSE
INVARIANTS
  ReplayMatchesEager
  SlabsServe
