SPECIFICATION SpecSpec
CONSTANTS
  Token = {a, b}
  None = None
  MaxCtx = 14
  Dispatch <- MCDispatch
  GraphSlots = 1
  Temps = {0}
  Prompts <- MCPrompts
  Drafts <- MCDrafts
  PfMinN = 2
  Chunk = 8
  ArenaRows = 8
  Batched = TRUE
  SpecBatch = TRUE
  EmbedInGraph = TRUE
  CaptureFaults = {}
  StartEager = FALSE
  Api = {}
  Drivers = {"tool", "cli"}
  Window = 2
  DraftK = 3
  NPredict = 8
  EosIds = {None, a}
INVARIANTS
  ContextStaysGreedy
  
  DraftsAreContinuations
PROPERTIES
  DecodingEnds
CHECK_DEADLOCK FALSE
