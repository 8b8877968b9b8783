SPECIFICATION ChatSpec
CONSTANTS
  Token <- MCToken
  None = None
  MaxCtx = 19
  Dispatch <- MCDispatch
  GraphSlots = 2
  Temps = {0}
  Prompts = {}
  Drafts = {}
  PfMinN = 2
  Chunk = 4
  ArenaRows = 4
  Batched = TRUE
  SpecBatch = FALSE
  EmbedInGraph = TRUE
  CaptureFaults = {}
  StartEager = FALSE
  Api = {}
  MaxMsgs = 5
  Families = {"qwen3", "gemma", "llama3"}
  System <- MCSystem
  Inputs <- MCInputs
  UserWords = {"u", "v"}
  Spoken = {"w", "s", "t", "eos", "<think>"}
  Guess = {"w"}
  Eos = {"eos"}
  Stops <- MCStops
  MaxTokens = 4
  FmtCap = 20
  PromptCap = 9
  TextCap = 4
INVARIANTS
  
  MessagesReachCache
  AnswerShown
PROPERTIES
  TurnEnds
CHECK_DEADLOCK TRUE
