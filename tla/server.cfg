SPECIFICATION ServerSpec
CONSTANTS
  Token = {a, b}
  None = None
  MaxCtx = 5
  Dispatch <- MCDispatch
  GraphSlots = 2
  Temps = {0, 1}
  Prompts <- MCPrompts
  Drafts = {}
  PfMinN = 2
  Chunk = 2
  ArenaRows = 2
  Batched = TRUE
  SpecBatch = TRUE
  EmbedInGraph = TRUE
  CaptureFaults = {"hard"}
  StartEager = FALSE
  Api = {}
  Streamed = {"text", "json"}
  Req = {r1, r2}
  Free = Free
  MaxTokens = {1, 4}
  Modes = {"text", "json"}
  PromptLengths = {1, 2, 5, 6}
INVARIANTS
  OwnContext
  TextUnmasked
  
PROPERTIES
  
  AllServed
CHECK_DEADLOCK FALSE
