------------------------------ MODULE AttnLaunch -----------------------------
(***************************************************************************)
(* Attention of one layer, from the cache a prompt left to the outputs:    *)
(* the kernels of the batched prefill, the launches of forward_layers for  *)
(* the token at position pos, and those of the prefill for n tokens from   *)
(* pos on.                                                                 *)
(***************************************************************************)
EXTENDS AttnKernels

(***************************************************************************)
(* The kernels that serve all tokens of a prompt at once.  Query q stands  *)
(* at position pos + q and sees slots up to its own, in a window if there  *)
(* is one.  A block takes a tile of queries and walks over tiles of slots: *)
(* even steps stage one, odd ones sum.                                     *)
(***************************************************************************)
RowMin(l, q) == IF l.window > 0 /\ l.pos + q + 1 > l.window THEN l.pos + q + 1 - l.window ELSE 0
Sees(l, q)   == RowMin(l, q)..(l.pos + q)
Context(l)   == l.pos + l.n
QueryTile(l, from, size) == {q \in from..(from + size - 1) : q < l.n}

TileOfSlots(l, size, i) == {t \in (size * i)..(size * i + size - 1) : t < Context(l)}

(* Float rows go slot by slot, quantised ones (slab 3) head by head.       *)
RowOf(l, slab, t, kv, b) == IF slab = 3 THEN KvMajor(l, t, kv, b) ELSE SlotMajor(l, t, kv, b)

Prefill(l, mem, step, rows, kv, size, first, slab, straight) ==
  LET base == size * (first + step \div 2)
      toks == TileOfSlots(l, size, first + step \div 2)
  IN IF step % 2 = 0
     THEN Stage(l, mem, {1, 2}, toks, base, slab, LAMBDA t, b : RowOf(l, slab, t, kv, b))
     ELSE [Quiet EXCEPT
       !.get = StagedCells(l, {1, 2}, toks, base),
       !.mac = Attend(l, rows, LAMBDA r : r, LAMBDA r : {t \in toks : t \in Sees(l, r[1])},
                 LAMBDA r, t : Score(straight, r, StagedRow(l, mem, t - base)),
                 LAMBDA r, t, b : StagedBlock(mem, t - base, b))]

(* Eight queries, a warp per head of the group.                            *)
k_prefill_flash_q8_0(l, blk, step, mem) ==
  LET kv == blk \div l.grid[1]
  IN Prefill(l, mem, step, QueryTile(l, 8 * (blk % l.grid[1]), 8) \X HeadsOf(l, kv), kv, 64, 0, 3,
             Straight(l, 4, LAMBDA lane, i : InOrder(l, lane, i)))
k_prefill_flash_fp32(l, blk, step, mem) ==
  LET kv == blk \div l.grid[1]
  IN Prefill(l, mem, step, QueryTile(l, 8 * (blk % l.grid[1]), 8) \X HeadsOf(l, kv), kv, 64, 0, 1,
             Straight(l, 4, LAMBDA lane, i : InOrder(l, lane, i)))

(* T lanes to a query, E dimensions to a lane.                             *)
k_prefill_flash_fp16_t(l, blk, step, mem) ==
  LET kv == blk \div l.grid[1]   queries == 32 \div l.T
  IN Prefill(l, mem, step,
             QueryTile(l, queries * (blk % l.grid[1]), queries) \X HeadsOf(l, kv), kv, 64, 0, 1,
             l.T * l.E = l.HD)

(* Tensor cores: tiles of 32 slots, zeros behind the last; tiles wholly    *)
(* above the diagonal or below the window are skipped.                     *)
TilesSeen(l, q0, size) ==
  LET last == l.pos + Least(q0 + size - 1, l.n - 1)
      rowMin == IF l.window > 0 THEN l.pos + q0 + 1 - l.window ELSE 0
  IN {i \in 0..((Context(l) - 1) \div 32) :
        32 * i <= last /\ Least(32 * i + 32, Context(l)) > rowMin}
FirstTile(S) == CHOOSE i \in S : \A j \in S : i <= j

Padded(l, size, i, e) ==
  [e EXCEPT !.put = @ \cup {<<<<"s", m, k, b>>, Zero>> :
     m \in 1..2, b \in 0..(Blocks(l) - 1), k \in {x \in 0..31 : size * i + x >= Context(l)}}]
TensorTiles(l, mem, step, q0, size, heads, kv) ==
  LET first == FirstTile(TilesSeen(l, q0, size))
      e == Prefill(l, mem, step, QueryTile(l, q0, size) \X heads, kv, 32, first, 1, TRUE)
  IN IF step % 2 = 0 THEN Padded(l, 32, first + step \div 2, e) ELSE e

(* 64 queries of one head, or 16 of a group of heads.                      *)
k_fa2_prefill(l, blk, step, mem) ==
  LET head == blk \div l.grid[1]
  IN TensorTiles(l, mem, step, 64 * (blk % l.grid[1]), 64, {head}, KvOf(l, head))
k_fa2_gqa64(l, blk, step, mem) ==
  LET kv == blk \div l.grid[1]
  IN TensorTiles(l, mem, step, 16 * (blk % l.grid[1]), 16, HeadsOf(l, kv), kv)

AttnSteps(l, blk) ==
  LET k == l.kernel IN
  CASE k \in {"k_prefill_flash_q8_0", "k_prefill_flash_fp32", "k_prefill_flash_fp16_t"} ->
         2 * Ceil(Context(l), 64)
    [] k = "k_fa2_prefill" -> 2 * Cardinality(TilesSeen(l, 64 * (blk % l.grid[1]), 64))
    [] k = "k_fa2_gqa64"   -> 2 * Cardinality(TilesSeen(l, 16 * (blk % l.grid[1]), 16))
    [] OTHER -> DecodeSteps(l, blk)

-----------------------------------------------------------------------------
(***************************************************************************)
(* The launches.  A call is                                                *)
(* [op, fmt, quant, late, W, H, KV, HD, cap, pos, n, window, S, env]:      *)
(* fmt the format of the quantised slabs ("f32" for none), quant whether   *)
(* they are the ones read at this position, late whether they were enabled *)
(* after the prompt, W the addresses of the slabs, S the slices a test     *)
(* asks for.                                                               *)
(***************************************************************************)
Grid(c, kernel, x, y) ==
  [kernel |-> kernel, fmt |-> c.fmt, W |-> c.W, H |-> c.H, KV |-> c.KV, HD |-> c.HD,
   cap |-> c.cap, pos |-> c.pos, n |-> c.n, window |-> c.window, q0 |-> 0,
   S |-> 1, threads |-> 32, T |-> 1, E |-> 64, grid |-> <<x, y>>]
Parts(c, kernel, S, x, y) == [Grid(c, kernel, x, y) EXCEPT !.S = S]
Clamp(lo, x, hi) == IF x < lo THEN lo ELSE Least(x, hi)
Floats(c)  == Ceil(c.n * c.KV * c.HD, 256)
QBlocks(c) == Ceil(c.n * KvBlocks(c), 256)

(* What prefill writes: the float slabs always, the others if there.       *)
ScatterBatched(c) ==
  <<Grid(c, "k_kv_scatter_batched", Floats(c), 1)>>
    \o CASE c.fmt = "f32" -> <<>>
         [] c.fmt = "q8" -> <<Grid(c, "k_kv_scatter_q8_0_batched", QBlocks(c), 1)>>
         [] c.fmt = "q4" -> <<Grid(c, "k_kv_scatter_q4_0_batched", QBlocks(c), 1)>>
(* Enabling the quantised cache later fills it from the float slabs.       *)
Backfill(c) ==
  ScatterBatched([c EXCEPT !.fmt = "f32"])
    \o <<Grid(c, IF c.fmt = "q8" THEN "k_kv_backfill_q8_0" ELSE "k_kv_backfill_q4_0",
                    QBlocks(c), 1)>>
(* The first pos tokens of the conversation.                               *)
History(c) ==
  LET past == [c EXCEPT !.pos = 0, !.n = c.pos]
  IN IF c.pos = 0 THEN <<>> ELSE IF c.late THEN Backfill(past) ELSE ScatterBatched(past)

(* What a decoded token writes: the floats only if they are read.          *)
Scatter(c) ==
  LET one == [c EXCEPT !.n = 1]
  IN (IF c.quant THEN <<>> ELSE <<Grid(one, "k_kv_scatter", Floats(one), 1)>>)
       \o CASE c.fmt = "f32" -> <<>>
            [] c.fmt = "q4" -> <<Grid(one, "k_kv_scatter_q4_0", QBlocks(one), 1)>>
            [] c.fmt = "q8" -> <<Grid(one, "k_kv_scatter_q8_0", QBlocks(one), 1)>>

split_S_q(ctx)    == Clamp(2, Ceil(ctx, 64), 64)
split_S_fp32(ctx) == Clamp(2, Ceil(ctx, 32), 32)
unf_part == 2
unf_part_for(kv, ctx) ==
  LET byCtx == IF Ceil(ctx, 256) > unf_part THEN Ceil(ctx, 256) ELSE unf_part
      byKv  == IF kv * byCtx < 16 /\ Ceil(16, kv) > byCtx THEN Ceil(16, kv) ELSE byCtx
  IN Clamp(2, byKv, 32)

(* A kernel over S slices, and the combination of what they found.         *)
SplitCombine(c, kernel, S) ==
  <<Parts(c, kernel, S, S, c.KV), Parts(c, "k_fa2_combine", S, c.H, 1)>>
FusedCombine(c, kernel, part, threads) ==
  <<[Parts(c, kernel, part, c.KV * part, 1) EXCEPT !.threads = threads],
    Parts(c, "k_unf_combine", part, Share(c), c.KV)>>

DecodeAttention(c) ==
  LET GD == Share(c) * c.HD   part == unf_part_for(c.KV, c.pos)
      unfused == c.window = 0 /\ Share(c) <= 8 /\ c.HD <= 128 /\ GD <= 512
                   /\ "TT_NO_UNFUSED" \notin c.env
  IN CASE c.quant /\ c.fmt = "q4" ->
            IF c.window = 0 /\ GD <= 256 /\ "TT_NO_FUSED_Q4" \notin c.env
            THEN FusedCombine(c, "k_q4_fused", unf_part, 256)
            ELSE SplitCombine(c, "k_fa2_q4_split", split_S_q(c.pos))
       [] c.quant /\ c.fmt = "q8" ->
            IF unfused /\ "TT_NO_FUSED_ATTN" \notin c.env
            THEN FusedCombine(c, "k_unf_fused", part, IF GD <= 256 THEN 256 ELSE 512)
            ELSE IF unfused
            THEN <<Parts(c, "k_unf_qk", part, c.KV * part, 1),
                   Grid(c, "k_unf_softmax", c.H, 1),
                   Grid(c, "k_unf_pv", c.KV * 2, 1)>>
            ELSE SplitCombine(c, "k_fa2_q8_split", split_S_q(c.pos))
       [] ~c.quant ->
            IF c.pos > 32 /\ c.HD <= 128
            THEN SplitCombine(c, "k_fa2_fp32_split", split_S_fp32(c.pos))
            ELSE IF c.pos > 64
            THEN LET S == Clamp(2, c.pos \div 256, 32)
                 IN <<Parts(c, "k_flash_gqa_splitk", S, c.H, S),
                      Parts(c, "k_flash_gqa_combine", S, c.H, 1)>>
            ELSE <<Grid(c, "k_flash_gqa", c.H, 1)>>

forward_layers(c) ==
  [rc |-> 0, launches |-> History(c) \o Scatter(c) \o DecodeAttention(c)]

(* The prompt.                                                             *)
launch_prefill_flash(c) ==
  LET fp16(T, E) == [Grid(c, "k_prefill_flash_fp16_t", Ceil(c.n, 32 \div T), c.KV)
                       EXCEPT !.T = T, !.E = E]
  IN CASE "TT_FA2_PRE=0" \notin c.env /\ c.n >= 64 /\ c.HD \in {64, 128} ->
            IF c.HD = 64 /\ Share(c) <= 8
            THEN Grid(c, "k_fa2_gqa64", Ceil(c.n, 16), c.KV)
            ELSE Grid(c, "k_fa2_prefill", Ceil(c.n, 64), c.H)
       [] "TT_FA2_PRE=0" \in c.env \/ c.n < 64 \/ c.HD \notin {64, 128} ->
            IF "TT_FLASH_FP16" \in c.env /\ c.HD \in {32, 64, 128}
            THEN IF c.HD = 128 THEN fp16(2, 64) ELSE fp16(1, c.HD)
            ELSE Grid(c, "k_prefill_flash_fp32", Ceil(c.n, 8), c.KV)

PrefillAttention(c) ==
  LET q8Flash == c.fmt = "q8" /\ c.quant /\ "TT_Q8_PREFILL_FLASH" \in c.env
  IN IF c.HD > 128
     THEN [i \in 1..c.n |->
             [Grid(c, IF q8Flash THEN "k_flash_gqa_q8_0" ELSE "k_flash_gqa", c.H, 1)
                EXCEPT !.pos = c.pos + i - 1, !.q0 = i - 1]]
     ELSE IF q8Flash THEN <<Grid(c, "k_prefill_flash_q8_0", Ceil(c.n, 8), c.KV)>>
     ELSE <<launch_prefill_flash(c)>>

prefill_batched_gemm(c) ==
  [rc |-> 0, launches |-> History(c) \o ScatterBatched(c) \o PrefillAttention(c)]

(* The entries for tests: one kernel each, or S slices and their sum.      *)
tt_flash_gqa(c) ==
  [rc |-> 0, launches |-> History(c) \o Scatter(c) \o <<Grid(c, "k_flash_gqa", c.H, 1)>>]
tt_flash_gqa_q8_0(c) ==
  [rc |-> 0, launches |->
     History(c) \o Scatter(c) \o <<Grid(c, "k_flash_gqa_q8_0", c.H, 1)>>]
tt_flash_gqa_splitk(c) ==
  [rc |-> 0, launches |->
     History(c) \o Scatter(c)
       \o SplitCombine(c, IF c.fmt = "q8" THEN "k_fa2_q8_split" ELSE "k_fa2_q4_split", c.S)]
=============================================================================
