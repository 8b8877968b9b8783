SPECIFICATION GenSpec
CONSTANTS
  Vocabs <- MCVocabs
  Eos <- MCEos
  Prompts <- MCPrompts
  JsonLimit = 5
  Char = {"a", "b"}
  Pieces <- MCPieces
  StopSets <- MCStopSets
  TextLimit = 4
INVARIANTS
  CompleteMeansDocument
  OnlyDeadEnd
  DeliversUpToStop
CHECK_DEADLOCK FALSE
