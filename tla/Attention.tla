----------------------------- MODULE Attention ------------------------------
(***************************************************************************)
(* Attention dispatch and the K/V slabs behind it (kernels/qwen2_cuda.cu). *)
(* A decode step chooses, per layer, where K/V is scattered and which      *)
(* kernel reads it back, from the position and the enabled quantised cache;*)
(* a CUDA graph freezes that choice and is replayed wherever the dispatch  *)
(* key of the position is the one it was captured under.                   *)
(*                                                                         *)
(* A slab's content is abstracted to the rows that hold the K/V of the     *)
(* current context (`fresh`); every other row is zeroed or left over.      *)
(* An operator Op_fault is a broken Op, which some property must reject.   *)
(***************************************************************************)
EXTENDS Integers, FiniteSets

CONSTANTS
  MaxCtx,        \* cfg.max_ctx
  Shape,         \* Shape[l]: heads, kv heads, head dim and window of layer l
  Thresh,        \* kv_thresh_value(): quantised above, FP32 up to here
  GraphSlots,    \* TT_GRAPH_SLOTS
  LateEnable,    \* quantised caches callers enable after creation
  Chunks,        \* lengths the batched prefill is called with
  FpTile, FpSerial, OldTile, QTile, PartTile, \* 32, 64, 256, 64, 256
  FpSplits, QSplits, SMax, MaxPart,           \* 32, 64, d_split_S_max, 32
  UnfPart, MinBlocks,                         \* unf_part(), 16
  NoUnfused, NoFusedAttn, NoFusedQ4           \* TT_NO_UNFUSED and its kin

ASSUME AttentionAssumption ==
  /\ MaxCtx \in Nat /\ Thresh \in Nat /\ GraphSlots \in Nat
  /\ LateEnable \subseteq {"q8", "q4"}
  /\ Chunks \subseteq Nat \ {0}
  /\ {NoUnfused, NoFusedAttn, NoFusedQ4} \subseteq BOOLEAN

VARIABLES
  pos,      \* e->pos
  fresh,    \* fresh[s]: rows of slab s that hold the context
  alloc,    \* quantised slabs that exist
  use,      \* use_q8_kvcache, use_q4_kvcache
  slots,    \* captured graphs: key and baked launches
  noGraph   \* e->no_graph

vars == <<pos, fresh, alloc, use, slots, noGraph>>

Quant == {"q8", "q4"}
Slab == Quant \cup {"fp32"}
Row == 0 .. MaxCtx - 1
Layer == DOMAIN Shape

Init ==
  /\ pos = 0
  /\ fresh = [s \in Slab |-> {}]
  /\ use \in {{}, {"q8"}, {"q4"}} /\ alloc = use  \* TT_KV_F16, default, TT_Q4_KV
  /\ slots = {} /\ noGraph \in BOOLEAN

-----------------------------------------------------------------------------
(* Launch parameters.                                                      *)

CeilDiv(a, b) == (a + b - 1) \div b
Clamp(x, lo, hi) == IF x > hi THEN hi ELSE IF x < lo THEN lo ELSE x
AtMost(x, hi) == IF x > hi THEN hi ELSE x
AtLeast(x, lo) == IF x < lo THEN lo ELSE x

SplitQ(p) == AtMost(Clamp(CeilDiv(p, QTile), 2, QSplits), SMax)
SplitF(p) == AtMost(Clamp(CeilDiv(p, FpTile), 2, FpSplits), SMax)
SplitOld(p) == AtMost(Clamp(p \div OldTile, 2, FpSplits), SMax)

PartFor(kv, p) ==
  LET byCtx == AtLeast(UnfPart, CeilDiv(p, PartTile))
      part == IF kv > 0 /\ kv * byCtx < MinBlocks
                THEN AtLeast(byCtx, CeilDiv(MinBlocks, kv)) ELSE byCtx
  IN Clamp(part, 2, MaxPart)

Q4Eff(p) == "q4" \in use /\ p > Thresh
Q8Eff(p) == "q8" \in use /\ "q4" \notin use /\ p > Thresh

Group(s) == s.heads \div s.kv
FusesQ4(s) == s.swa = 0 /\ Group(s) * s.hd <= 256 /\ ~NoFusedQ4
Unfused(s) ==
  /\ s.swa = 0 /\ Group(s) <= 8 /\ s.hd <= 128 /\ Group(s) * s.hd <= 512
  /\ ~NoUnfused

(* graph_slot_key_at: branch number and grid of every layer.  The hash is  *)
(* taken to be injective.                                                  *)
LayerKey_noPart(s, p) ==
  IF Q4Eff(p) THEN IF FusesQ4(s) THEN <<8, UnfPart>> ELSE <<1, SplitQ(p)>>
  ELSE IF Q8Eff(p)
    THEN IF Unfused(s) THEN <<IF NoFusedAttn THEN 2 ELSE 7, UnfPart>>
                       ELSE <<3, SplitQ(p)>>
  ELSE IF p > FpTile /\ s.hd <= 128 THEN <<4, SplitF(p)>>
  ELSE IF p > FpSerial THEN <<5, SplitOld(p)>>
  ELSE <<6, 0>>

LayerKey(s, p) ==
  IF Q4Eff(p) THEN IF FusesQ4(s) THEN <<8, UnfPart>> ELSE <<1, SplitQ(p)>>
  ELSE IF Q8Eff(p)
    THEN IF Unfused(s) THEN <<IF NoFusedAttn THEN 2 ELSE 7, PartFor(s.kv, p)>>
                       ELSE <<3, SplitQ(p)>>
  ELSE IF p > FpTile /\ s.hd <= 128 THEN <<4, SplitF(p)>>
  ELSE IF p > FpSerial THEN <<5, SplitOld(p)>>
  ELSE <<6, 0>>

Key(p) == <<Q4Eff(p), Q8Eff(p), [l \in Layer |-> LayerKey(Shape[l], p)]>>

(* forward_layers: the attention kernel of a layer, its grid and, where it *)
(* is an argument, the number of splits.                                   *)
Kernel(s, p) ==
  IF Q4Eff(p) THEN
    IF FusesQ4(s) THEN <<"k_q4_fused", s.kv * UnfPart, UnfPart>>
                  ELSE <<"k_fa2_q4_split", <<SplitQ(p), s.kv>>, SplitQ(p)>>
  ELSE IF Q8Eff(p) THEN
    LET part == PartFor(s.kv, p)
    IN IF Unfused(s)
         THEN <<IF NoFusedAttn THEN "k_unf_qk" ELSE "k_unf_fused", s.kv * part, part>>
         ELSE <<"k_fa2_q8_split", <<SplitQ(p), s.kv>>, SplitQ(p)>>
  ELSE IF p > FpTile /\ s.hd <= 128
    THEN <<"k_fa2_fp32_split", <<SplitF(p), s.kv>>, SplitF(p)>>
  ELSE IF p > FpSerial
    THEN <<"k_flash_gqa_splitk", <<s.heads, SplitOld(p)>>, SplitOld(p)>>
  ELSE <<"k_flash_gqa", s.heads, 1>>

(* The slab attention reads at p, and the slabs the decode scatter fills:  *)
(* every quantised slab there is, FP32 only where it is the one to be read.*)
Reads(p) == IF Q4Eff(p) THEN "q4" ELSE IF Q8Eff(p) THEN "q8" ELSE "fp32"
Writes_early(p) == alloc \cup (IF Reads(p + 1) = "fp32" THEN {"fp32"} ELSE {})
Writes(p) == alloc \cup (IF Reads(p) = "fp32" THEN {"fp32"} ELSE {})

Launches(p) == [writes |-> Writes(p), kernels |-> [l \in Layer |-> Kernel(Shape[l], p)]]

-----------------------------------------------------------------------------

Fill(slabs, written) ==
  fresh' = [s \in Slab |-> IF s \in slabs THEN fresh[s] \cup written ELSE fresh[s] \ written]

(* Any single token: next, a prefill below pf_minn, verify, step_logits.   *)
DecodeEager ==
  /\ pos < MaxCtx
  /\ Fill(Writes(pos), {pos})
  /\ pos' = pos + 1
  /\ UNCHANGED <<alloc, use, slots, noGraph>>

DecodeReplay ==
  /\ pos < MaxCtx /\ ~noGraph
  /\ \E g \in slots : g.key = Key(pos) /\ Fill(g.launches.writes, {pos})
  /\ pos' = pos + 1
  /\ UNCHANGED <<alloc, use, slots, noGraph>>

Capture ==
  /\ ~noGraph /\ Cardinality(slots) < GraphSlots
  /\ \A g \in slots : g.key # Key(pos)
  /\ slots' = slots \cup {[key |-> Key(pos), launches |-> Launches(pos)]}
  /\ UNCHANGED <<pos, fresh, alloc, use, noGraph>>

(* graph_slots_drop_all, which most of its callers follow by no_graph = 1. *)
DropSlots ==
  /\ slots # {} /\ slots' = {}
  /\ noGraph' \in {noGraph, TRUE}
  /\ UNCHANGED <<pos, fresh, alloc, use>>

(* prefill_batched_gemm(_dx) writes FP32 and the one quantised cache in use*)
PrefillWrites_fp32 == {"fp32"}
PrefillWrites ==
  {"fp32"} \cup (IF "q4" \in use THEN {"q4"} ELSE use)

PrefillBatched(n) ==
  /\ pos + n <= MaxCtx
  /\ Fill(PrefillWrites, pos .. pos + n - 1)
  /\ pos' = pos + n
  /\ UNCHANGED <<alloc, use, slots, noGraph>>

Rewind(p) ==
  /\ p <= pos /\ pos' = p
  /\ UNCHANGED <<fresh, alloc, use, slots, noGraph>>

(* qwen2_engine_enable_q8_kvcache(e, 1) on a running engine: the first time*)
(* the slab is allocated and the context is quantised into it from FP32.   *)
Enable_noSlab(s) ==
  /\ use' = use \cup {s}
  /\ slots' = {} /\ noGraph' = (noGraph \/ slots # {})
  /\ UNCHANGED <<pos, fresh, alloc>>

Enable(s) ==
  /\ use' = use \cup {s} /\ alloc' = alloc \cup {s}
  /\ fresh' = IF s \in alloc THEN fresh
              ELSE [fresh EXCEPT ![s] = {r \in fresh["fp32"] : r < pos}]
  /\ slots' = {} /\ noGraph' = (noGraph \/ slots # {})
  /\ UNCHANGED pos

Next ==
  \/ DecodeEager
  \/ DecodeReplay
  \/ Capture
  \/ DropSlots
  \/ \E n \in Chunks : PrefillBatched(n)
  \/ \E p \in 0 .. MaxCtx : Rewind(p)
  \/ \E s \in LateEnable : Enable(s)

Spec == Init /\ [][Next]_vars

-----------------------------------------------------------------------------

(* The values of the state, and no quantised cache in use without a slab.  *)
AttnTypeOK ==
  /\ pos \in 0 .. MaxCtx
  /\ fresh \in [Slab -> SUBSET Row]
  /\ alloc \subseteq Quant /\ use \subseteq alloc
  /\ noGraph \in BOOLEAN

(* Replaying a captured step does what the eager step would do here: same  *)
(* scatter, same kernels, same grids, in every layer, at every position    *)
(* that shares its key.                                                    *)
ReplayMatchesEager ==
  \A g \in slots : \A p \in 0 .. MaxCtx : g.key = Key(p) => g.launches = Launches(p)

(* Decoding at the present position, or at any a rewind may return to,     *)
(* finds every earlier row of the context in the slab it will read.        *)
DecodeReadsContext == \A p \in 0 .. pos : 0 .. p - 1 \subseteq fresh[Reads(p)]

(* The batched prefill attends over FP32 rows at any context length.  The  *)
(* rows it may miss there are those decoded above the threshold, with a    *)
(* quantised cache in use: with none, or below it, FP32 is whole.          *)
PrefillMissesOnlySkipped ==
  \A r \in 0 .. pos - 1 : r \notin fresh["fp32"] => r > Thresh /\ use # {}

(* The slabs as both readers find them: decoding misses nothing, a batched *)
(* prefill no more than what decoding skipped.                             *)
SlabsServe == DecodeReadsContext /\ PrefillMissesOnlySkipped

=============================================================================
