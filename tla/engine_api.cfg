SPECIFICATION Spec
CONSTANTS
  Token = {a}
  None = None
  MaxCtx = 4
  Dispatch <- MCDispatch
  GraphSlots = 2
  Temps = {0, 1, 2}
  Prompts <- MCPrompts
  Drafts <- MCDrafts
  PfMinN = 2
  Chunk = 2
  ArenaRows = 2
  Batched = TRUE
  SpecBatch = TRUE
  EmbedInGraph = TRUE
  CaptureFaults = {"soft", "hard"}
  StartEager = FALSE
  Api = {"prefill", "next", "reset", "rewind", "rollback", "verify", "step", "sampling", "mask", "quant", "replay"}
  MaxPrompt = 3
  MaxDraft = 2
INVARIANTS
  DeviceMirror
  ContextWritten
  SlotsCoherent
PROPERTIES
  PrefillAppends
