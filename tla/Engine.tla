------------------------------- MODULE Engine -------------------------------
(***************************************************************************)
(* The decode engine of kernels/qwen2_cuda.cu as its callers drive it: one *)
(* action per entry point of include/qwen2_engine.h that changes state.    *)
(* The engine is not thread safe and every call is synchronous, so a call  *)
(* is one step; concurrency belongs to the modules of its callers.         *)
(* An operator Op_fault is a broken Op, which some property must reject.   *)
(*                                                                         *)
(* Data is abstracted to what coherence depends on.  A K/V row is the token*)
(* it was computed from, and the hidden state d_x (like the logits in      *)
(* d_logits) is the sequence of tokens it was computed over.  Which token  *)
(* a sample returns is left open.                                          *)
(***************************************************************************)
EXTENDS Integers, Sequences, FiniteSets

CONSTANTS
  Token,        \* token ids
  None,         \* pending_tok = -1, and a K/V row no token was written to
  MaxCtx,       \* cfg.max_ctx, the rows of the K/V cache
  Dispatch,     \* Dispatch[p]: graph_slot_key_at(e, p), opaque
  GraphSlots,   \* TT_GRAPH_SLOTS
  Temps,        \* sampling settings a caller may choose; 0 is greedy
  Prompts,      \* token sequences a caller may prefill
  Drafts,       \* candidate sequences a caller may verify
  PfMinN,       \* pf_minn(): shortest chunk that is batched
  Chunk,        \* CHUNK_SIZE of the prefill loop
  ArenaRows,    \* pf_arena_max_n: longer chunks allocate scratch
  Batched,      \* the model may use the batched prefill (no PLE, no softcap)
  SpecBatch,    \* TT_SPEC_BATCH >= 2
  EmbedInGraph, \* graph_embed_supported(e)
  CaptureFaults,\* which captures may fail: subset of {"soft", "hard"}
  StartEager,   \* TT_NO_GRAPH, TT_PROFILE or CPU offload
  Api           \* the entry points the callers of this instance use

ApiNames == {"prefill", "next", "reset", "rewind", "rollback", "verify",
             "step", "sampling", "mask", "quant", "replay"}

ASSUME EngineAssumption ==
  /\ None \notin Token /\ Token # {}
  /\ MaxCtx \in Nat \ {0} /\ GraphSlots \in Nat \ {0}
  /\ Temps \subseteq Nat
  /\ Prompts \subseteq Seq(Token) /\ \A p \in Prompts : p # <<>>
  /\ Drafts \subseteq Seq(Token)
  /\ \A c \in Drafts : c # <<>> /\ 2 * Len(c) <= MaxCtx
  /\ PfMinN \in Nat /\ Chunk \in Nat \ {0} /\ ArenaRows \in Nat
  /\ {Batched, SpecBatch, EmbedInGraph, StartEager} \subseteq BOOLEAN
  /\ CaptureFaults \subseteq {"soft", "hard"}
  /\ Api \subseteq ApiNames

VARIABLES
  pos,      \* e->pos
  dpos,     \* *e->d_pos, the device mirror every kernel indexes by
  kv,       \* the K/V rows, by slot
  hid,      \* e->d_x: the tokens the current hidden state was computed over
  logits,   \* e->d_logits: the tokens the last logits were computed over
  pending,  \* e->pending_tok: sampled, returned, not yet fed
  graphs,   \* captured slots: dispatch key and the launch set they baked
  ready,    \* e->graph_ready
  noGraph,  \* e->no_graph
  temp,     \* e->sampling_temp and e->repeat_penalty, as one setting
  maskOn,   \* e->tok_mask_on
  quant     \* e->use_q8_kvcache or e->use_q4_kvcache

vars == <<pos, dpos, kv, hid, logits, pending, graphs, ready, noGraph,
          temp, maskOn, quant>>
settings == <<temp, maskOn, quant>>
graphVars == <<graphs, ready, noGraph>>

Row == 0 .. MaxCtx - 1
Cell == Token \cup {None}

Init ==
  /\ pos = 0 /\ dpos = 0
  /\ kv = [s \in Row |-> None]
  /\ hid = <<>> /\ logits = <<>>
  /\ pending = None
  /\ graphs = {} /\ ready = FALSE /\ noGraph = StartEager
  /\ temp = 0 /\ maskOn = FALSE /\ quant \in BOOLEAN

-----------------------------------------------------------------------------
(* The forward pass.                                                       *)

Dev == [pos |-> pos, dpos |-> dpos, kv |-> kv, hid |-> hid]
Commit(m) == pos' = m.pos /\ dpos' = m.dpos /\ kv' = m.kv /\ hid' = m.hid
Synced(m) == [m EXCEPT !.dpos = m.pos]

(* What attention reads for n positions; beyond the slab nothing of ours.  *)
View(cache, n) == [i \in 1 .. n |-> IF i <= MaxCtx THEN cache[i - 1] ELSE None]

(* Feed toks: position dpos + i lands in row (dpos + i) % MaxCtx, the host *)
(* position moves on and is copied to the device.                          *)
FeedAll(m, toks) ==
  LET cache == [s \in Row |-> LET i == (s - m.dpos) % MaxCtx
                              IN IF i < Len(toks) THEN toks[i + 1] ELSE m.kv[s]]
  IN [pos |-> m.pos + Len(toks), dpos |-> m.pos + Len(toks), kv |-> cache,
      hid |-> View(cache, m.dpos + Len(toks))]

Advance(m, t) == FeedAll(m, <<t>>)

(* prefill_batched_gemm_dx leaves d_x alone.                               *)
FeedBatchDx(m, toks) == [FeedAll(m, toks) EXCEPT !.hid = m.hid]

(* A sampled-but-unfed token is fed before other tokens, if a graph exists.*)
Flushing == ready /\ pending # None
Flushed_dropped == Dev
Flushed == IF Flushing THEN Advance(Dev, pending) ELSE Dev

-----------------------------------------------------------------------------
(* CUDA-graph slots.                                                       *)

On(t) == t # 0
HasGraph(p) == \E g \in graphs : g.key = Dispatch[p]
DropAll_keepsTable == UNCHANGED graphs /\ ready' = FALSE
DropAll == graphs' = {} /\ ready' = FALSE
Captured(p) == [key |-> Dispatch[p], temp |-> temp, mask |-> maskOn, quant |-> quant]

(* A capture at position p that succeeds, or that leaves the slots alone.  *)
CaptureOk(p) ==
  /\ EmbedInGraph /\ Cardinality(graphs) < GraphSlots
  /\ graphs' = graphs \cup {Captured(p)} /\ ready' = TRUE
CaptureSoft ==
  /\ EmbedInGraph
  /\ "soft" \in CaptureFaults \/ Cardinality(graphs) >= GraphSlots
  /\ UNCHANGED <<graphs, ready>>
CaptureHard == ~EmbedInGraph \/ "hard" \in CaptureFaults

-----------------------------------------------------------------------------
(* qwen2_engine_prefill.  A chunk the batched path refuses makes the eager *)
(* loop feed the whole prompt again from wherever the position stands.     *)

ChunkStarts(n) == {o \in 0 .. n - 1 : o % Chunk = 0}
ChunkLen(n, o) == IF o + Chunk <= n THEN Chunk ELSE n - o
Overflows(m, n, o) ==
  ChunkLen(n, o) >= PfMinN /\ m.pos + o + ChunkLen(n, o) > MaxCtx
NoScratch(n, o) == ChunkLen(n, o) >= PfMinN /\ ChunkLen(n, o) > ArenaRows

Clean(m, n) == \A o \in ChunkStarts(n) : ~Overflows(m, n, o)
Refusals(m, n) ==
  {o \in ChunkStarts(n) :
     /\ Overflows(m, n, o) \/ NoScratch(n, o)
     /\ \A q \in ChunkStarts(n) : q < o => ~Overflows(m, n, q)}

PrefillResults(m, toks) ==
  LET batch == Batched /\ Len(toks) >= PfMinN
      Again(o) == FeedAll(FeedAll(m, SubSeq(toks, 1, o)), toks)
  IN (IF batch => Clean(m, Len(toks)) THEN {FeedAll(m, toks)} ELSE {})
     \cup (IF batch THEN {Again(o) : o \in Refusals(m, Len(toks))} ELSE {})

Prefill(toks) ==
  /\ pos + Len(toks) <= MaxCtx
  /\ \E m \in PrefillResults(Synced(Flushed), toks) : Commit(m)
  /\ pending' = IF Flushing THEN None ELSE pending
  /\ UNCHANGED <<logits, graphVars, settings>>

-----------------------------------------------------------------------------
(* qwen2_engine_next, and the replay step it shares with host-driven loops.*)

(* Launch the captured step: embed(t), layers, logits, argmax, d_pos + 1.  *)
Replay_hostBehind(t) ==
  LET m == Advance(Dev, t)
  IN /\ Commit([m EXCEPT !.pos = pos, !.dpos = dpos + 1])
     /\ logits' = m.hid
     /\ pending' \in Token
     /\ UNCHANGED <<graphVars, settings>>

Replay(t) ==
  LET m == Advance(Dev, t)
  IN /\ Commit([m EXCEPT !.pos = pos + 1, !.dpos = dpos + 1])
     /\ logits' = m.hid
     /\ pending' \in Token
     /\ UNCHANGED <<graphVars, settings>>

NextEager ==
  /\ pos < MaxCtx - 1 /\ noGraph
  /\ \E t \in Token : Commit(Advance(Dev, t))
  /\ logits' = hid
  /\ UNCHANGED <<pending, graphVars, settings>>

NextReplay ==
  /\ pos < MaxCtx - 1 /\ ~noGraph
  /\ pending # None /\ HasGraph(pos)
  /\ Replay(pending)

(* No slot for the pending token: feed it eagerly.  Then sample, keep the  *)
(* token pending, and capture the step for the position reached.           *)
NextSample ==
  /\ pos < MaxCtx - 1 /\ ~noGraph
  /\ pending = None \/ ~HasGraph(pos)
  /\ LET m == IF pending = None THEN Dev ELSE Advance(Dev, pending)
     IN \E t \in Token :
          /\ logits' = m.hid
          /\ \/ /\ Commit(m) /\ pending' = t
                /\ IF HasGraph(m.pos) THEN UNCHANGED <<graphs, ready>>
                                      ELSE CaptureOk(m.pos) \/ CaptureSoft
                /\ UNCHANGED noGraph
             \/ /\ ~HasGraph(m.pos) /\ CaptureHard
                /\ DropAll /\ noGraph' = TRUE /\ pending' = None
                /\ Commit(Advance(m, t))
  /\ UNCHANGED settings

(* qwen2_debug_replay_step driven by the host (examples/chat_llm_gpu.c,    *)
(* which tests the position first): the host supplies the token.           *)
HostReplay(t) ==
  /\ pos < MaxCtx - 1
  /\ \/ /\ HasGraph(pos)
        /\ Replay(t)
     \/ /\ ~HasGraph(pos)
        /\ CaptureOk(pos)
        /\ LET m == Advance(Dev, t) IN Commit(m) /\ logits' = m.hid
        /\ pending' \in Token
        /\ UNCHANGED <<noGraph, settings>>
     \/ /\ ~HasGraph(pos)
        /\ CaptureHard \/ CaptureSoft
        /\ LET m == Advance(Dev, t) IN Commit(m) /\ logits' = m.hid
        /\ UNCHANGED <<pending, graphVars, settings>>

-----------------------------------------------------------------------------
(* Position control.                                                       *)

MoveTo_lastRow(p) == pos' = p /\ dpos' = p - 1 /\ pending' = None
MoveTo(p) == pos' = p /\ dpos' = p /\ pending' = None

Reset ==
  /\ MoveTo(0)
  /\ UNCHANGED <<kv, hid, logits, graphVars, settings>>

Rewind_unclamped(p) ==
  /\ MoveTo(p)
  /\ UNCHANGED <<kv, hid, logits, graphVars, settings>>

Rewind(p) ==
  /\ MoveTo(IF p > pos THEN pos ELSE p)
  /\ UNCHANGED <<kv, hid, logits, graphVars, settings>>

Rollback(p) ==
  /\ p <= MaxCtx /\ p <= pos
  /\ MoveTo(p)
  /\ IF graphs # {} THEN DropAll /\ noGraph' = TRUE ELSE UNCHANGED graphVars
  /\ UNCHANGED <<kv, hid, logits, settings>>

-----------------------------------------------------------------------------
(* qwen2_engine_verify_speculative and qwen2_engine_step_logits.           *)

VerifyBatched(toks) == SpecBatch /\ Batched /\ Len(toks) >= 2

Verify(toks) ==
  /\ pos + Len(toks) <= MaxCtx
  /\ pending' = IF Flushing THEN None ELSE pending
  /\ LET m == Synced(Flushed)
         n == Len(toks)
         refused == m.pos + n > MaxCtx
         back == Synced([m EXCEPT !.pos = m.pos - n])
     IN IF VerifyBatched(toks) /\ ~refused
          THEN Commit(FeedBatchDx(m, toks)) /\ UNCHANGED logits
          ELSE LET r == FeedAll(IF VerifyBatched(toks) THEN back ELSE m, toks)
               IN Commit(r) /\ logits' = r.hid
  /\ UNCHANGED <<graphVars, settings>>

StepLogits(t) ==
  /\ pos < MaxCtx - 1
  /\ pending' = IF Flushing THEN None ELSE pending
  /\ LET m == Advance(Flushed, t) IN Commit(m) /\ logits' = m.hid
  /\ UNCHANGED <<graphVars, settings>>

-----------------------------------------------------------------------------
(* Settings a captured graph depends on.                                   *)

(* Slots are dropped for good, and the pending token with them.            *)
LeaveGraphs == DropAll /\ noGraph' = TRUE /\ pending' = None

SetSampling(t) ==
  /\ IF graphs # {} /\ On(t) # On(temp) THEN LeaveGraphs
                                        ELSE UNCHANGED <<pending, graphVars>>
  /\ temp' = t
  /\ UNCHANGED <<pos, dpos, kv, hid, logits, maskOn, quant>>

SetTokenMask_keepsGraphs(on) ==
  /\ maskOn' = on
  /\ UNCHANGED <<pos, dpos, kv, hid, logits, pending, graphVars, temp, quant>>

SetTokenMask_forgets(on) ==
  /\ IF on # maskOn /\ graphs # {} THEN LeaveGraphs
                                   ELSE UNCHANGED <<pending, graphVars>>
  /\ maskOn' = on
  /\ UNCHANGED <<pos, dpos, kv, hid, logits, temp, quant>>

SetTokenMask(on) ==
  /\ IF on # maskOn /\ graphs # {} THEN DropAll ELSE UNCHANGED <<graphs, ready>>
  /\ maskOn' = on
  /\ UNCHANGED <<pos, dpos, kv, hid, logits, pending, noGraph, temp, quant>>

EnableQuant(on) ==
  /\ quant' = on
  /\ IF graphs # {} THEN LeaveGraphs ELSE UNCHANGED <<pending, graphVars>>
  /\ UNCHANGED <<pos, dpos, kv, hid, logits, temp, maskOn>>

-----------------------------------------------------------------------------

Uses(call) == call \in Api

Next ==
  \/ Uses("prefill") /\ \E p \in Prompts : Prefill(p)
  \/ Uses("next") /\ (NextEager \/ NextReplay \/ NextSample)
  \/ Uses("replay") /\ \E t \in Token : HostReplay(t)
  \/ Uses("reset") /\ Reset
  \/ Uses("rewind") /\ \E p \in 0 .. MaxCtx : Rewind(p)
  \/ Uses("rollback") /\ \E p \in 0 .. MaxCtx : Rollback(p)
  \/ Uses("verify") /\ \E c \in Drafts : Verify(c)
  \/ Uses("step") /\ \E t \in Token : StepLogits(t)
  \/ Uses("sampling") /\ \E t \in Temps : SetSampling(t)
  \/ Uses("mask") /\ \E b \in BOOLEAN : SetTokenMask(b)
  \/ Uses("quant") /\ \E b \in BOOLEAN : EnableQuant(b)

Spec == Init /\ [][Next]_vars

-----------------------------------------------------------------------------
(* What the engine holds for its caller: the rows below pos, then the      *)
(* token it returned and has yet to feed.                                  *)
Context == View(kv, pos)
Transcript == Context \o (IF pending = None THEN <<>> ELSE <<pending>>)

ReturnedInSight == pending = None \/ graphs # {}

Graph == [key : {Dispatch[p] : p \in 0 .. MaxCtx}, temp : Temps \cup {0},
          mask : BOOLEAN, quant : BOOLEAN]

(* The values each field of the engine may take.                           *)
TypeOK ==
  /\ pos \in Nat /\ dpos \in Nat
  /\ kv \in [Row -> Cell]
  /\ hid \in Seq(Cell) /\ logits \in Seq(Cell)
  /\ pending \in Cell
  /\ graphs \subseteq Graph
  /\ ready \in BOOLEAN /\ noGraph \in BOOLEAN
  /\ temp \in Temps \cup {0} /\ maskOn \in BOOLEAN /\ quant \in BOOLEAN

(* Between calls the device position every kernel indexes by equals the    *)
(* host position: advance, replay, rewinds and refusals all resynchronise. *)
DeviceMirror == dpos = pos

(* Attention over the context never reads a K/V row nothing was written to,*)
(* whatever mixture of truncation, refusal and refeeding led here.         *)
ContextWritten == \A i \in 1 .. pos : i <= MaxCtx => kv[i - 1] # None

(* graph_ready, which alone decides whether a pending token is flushed,    *)
(* says exactly whether a slot exists to replay.                           *)
ReadyIffGraphs == ready <=> graphs # {}

(* A slot is only ever replayed under the launch set it was captured with: *)
(* the penalty, gumbel and mask kernels and the K/V scatter it baked.      *)
GraphsMatchLaunchSet ==
  \A g \in graphs : On(g.temp) = On(temp) /\ g.mask = maskOn /\ g.quant = quant

(* No two slots answer to the same dispatch key.                           *)
GraphKeysUnique == \A g, h \in graphs : g.key = h.key => g = h

(* The slot table is coherent after any order of captures, refusals and    *)
(* changes of settings.                                                    *)
SlotsCoherent == ReadyIffGraphs /\ GraphsMatchLaunchSet /\ GraphKeysUnique

(* In eager mode (host-driven replay apart) nothing is left pending that   *)
(* eager decoding would skip, and no slot remains.                         *)
EagerHoldsNothing == noGraph => graphs = {} /\ pending = None

(* A prompt that fits goes after everything the engine has returned, the   *)
(* token it still holds included, as long as a slot survives to say that   *)
(* the token must be flushed: only then does prefill test for one.         *)
PrefillAppends ==
  [][\A p \in Prompts :
       /\ Prefill(p) /\ Refusals(Synced(Flushed), Len(p)) = {}
       /\ ReturnedInSight /\ Len(Transcript) + Len(p) <= MaxCtx
       => Transcript' = Transcript \o p]_vars

=============================================================================
