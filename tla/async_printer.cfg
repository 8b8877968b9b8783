SPECIFICATION PrinterSpec
CONSTANTS
  QueueCap = 3
  BufSize = 5
  TurnSize = 5
  PieceLen <- MCPieceLen
INVARIANTS
  TextGetsOut
PROPERTIES
  StopReturns
CHECK_DEADLOCK FALSE
