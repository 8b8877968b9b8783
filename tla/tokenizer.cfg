SPECIFICATION TokenizingSpec
CONSTANTS
  Cases <- MCCases
INVARIANTS
  PiecesMatchRegex
  
  BestSegmentation
  
CHECK_DEADLOCK FALSE
