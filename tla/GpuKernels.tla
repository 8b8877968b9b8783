----------------------------- MODULE GpuKernels ------------------------------
(***************************************************************************)
(* The GPU, call by call: the launches of a call run in stream order, their *)
(* blocks one after another (blocks of a launch share nothing they write), *)
(* a block from barrier to barrier.                                        *)
(*                                                                         *)
(* What a call must deliver is stated without any kernel.  A product: every *)
(* output is the sum over i of x[i] times weight i of its row, as the      *)
(* reference decoder QuantFormats reads that weight, each product taken    *)
(* once.  Attention: every head's output weighs the V row of each position *)
(* it sees by the score of that position's K row, each position taken once.*)
(* An engine: the layers of the model, written once, position by position. *)
(***************************************************************************)
EXTENDS LayerFlow, AttnLaunch, TLC

CONSTANT Calls

VARIABLES
  call,     \* the call being run
  todo,     \* its launches not finished yet
  block,    \* the block of the first launch that is running
  step,     \* the steps between barriers it has taken
  mem,      \* shared memory of the block, and the device's buffers
  seen,     \* what the last step loaded, put and got
  acc,      \* the products the block has summed, by output
  out,      \* what the block finished last has stored
  stored    \* the outputs stored before

vars == <<call, todo, block, step, mem, seen, acc, out, stored>>

Entry(c) ==
  CASE c.op = "tt_gemv_q4_0_dispatch"   -> tt_gemv_q4_0_dispatch(c)
    [] c.op = "tt_logits_dispatch"      -> tt_logits_dispatch(c)
    [] c.op = "tt_gemv_typed"           -> tt_gemv_typed(c)
    [] c.op = "tt_embed_typed"          -> tt_embed_typed(c)
    [] c.op = "tt_ffn_q4_0"             -> tt_ffn_q4_0(c)
    [] c.op = "tt_gemv_q4_0_qkv"        -> tt_gemv_q4_0_qkv(c)
    [] c.op = "rmsnorm_qkv"             -> rmsnorm_qkv(c)
    [] c.op = "tt_gemv_q4_0_r8"         -> tt_gemv_q4_0_r8(c)
    [] c.op = "tt_gemv_q4_0_v4_res"     -> tt_gemv_q4_0_v4_res(c)
    [] c.op = "tt_gemv_q4_1_v4_res"     -> tt_gemv_q4_1_v4_res(c)
    [] c.op = "tt_gemv_q4_0_batch4"     -> tt_gemv_q4_0_batch4(c)
    [] c.op = "tt_gemv_q8_0_batch4"     -> tt_gemv_q8_0_batch4(c)
    [] c.op = "tt_gemv_q4_0_batch4_kt2" -> tt_gemv_q4_0_batch4_kt2(c)
    [] c.op = "tt_logits_q4_0_batch4"   -> tt_logits_q4_0_batch4(c)
    [] c.op = "tt_gemv_q4_0_batchn"     -> tt_gemv_q4_0_batchn(c)
    [] c.op = "tt_gemm_q4_0_prefill"    -> tt_gemm_q4_0_prefill(c)
    [] c.op = "tt_gemm_q8_0_prefill"    -> tt_gemm_q8_0_prefill(c)
    [] c.op = "tt_gemm_wmma_q4_0_prefill" -> tt_gemm_wmma_q4_0_prefill(c)
    [] c.op = "tt_gemm_batched"         -> tt_gemm_batched(c)
    [] c.op = "forward_layers"          -> forward_layers(c)
    [] c.op = "prefill_batched_gemm"    -> prefill_batched_gemm(c)
    [] c.op = "tt_flash_gqa"            -> tt_flash_gqa(c)
    [] c.op = "tt_flash_gqa_q8_0"       -> tt_flash_gqa_q8_0(c)
    [] c.op = "tt_flash_gqa_splitk"     -> tt_flash_gqa_splitk(c)
    [] c.op = "qwen2_engine"            -> qwen2_engine(c)

(* Steps of a block: one unless the kernel stages something.               *)
IsFlow(l) == "does" \in DOMAIN l
KernelSteps(l, blk) ==
  CASE l.kernel \in {"k_gemv_q4_0_batch4", "k_gemv_q8_0_batch4", "k_logits_q4_0_batch4",
                     "k_rmsnorm_qkv_q4_0", "k_rmsnorm_qkv_q8_0"} -> 2
    [] l.kernel = "k_gemv_q4_0_batch4_kt2" -> 4
    [] l.kernel \in {"k_gemm_q4_0_prefill", "k_gemm_q8_0_prefill", "k_gemm_wmma_q4_0_prefill"} ->
         2 * (l.K \div 32)
    [] l.kernel = "k_gemv_wmma_q4_0" -> 1 + 3 * (l.K \div 16)
    [] OTHER -> AttnSteps(l, blk)
Steps(l, blk) == IF IsFlow(l) THEN 1 ELSE KernelSteps(l, blk)

KernelEffect(l) ==
  LET k == l.kernel   b == block   s == step   m == mem IN
  CASE k = "k_gemv_q4_0" -> k_gemv_q4_0(l, b)
    [] k = "k_fused_swiglu_q4_0" -> k_fused_swiglu_q4_0(l, b)
    [] k = "k_logits_q4_0" -> k_logits_q4_0(l, b)
    [] k = "k_logits_q4_0_v2" -> k_logits_q4_0_v2(l, b)
    [] k = "k_logits_q4_0_v4" -> k_logits_q4_0_v4(l, b)
    [] k = "k_logits_q4_0_batch4" -> k_logits_q4_0_batch4(l, b, s, m)
    [] k = "k_gemv_q4_0_v4" -> k_gemv_q4_0_v4(l, b)
    [] k = "k_q4dp_quant_x" -> k_q4dp_quant_x(l, b)
    [] k = "k_gemv_q4_0_dp" -> k_gemv_q4_0_dp(l, b, m)
    [] k = "k_gemv_q4_0_r8" -> k_gemv_q4_0_r8(l, b)
    [] k = "k_logits_q8_0" -> k_logits_q8_0(l, b)
    [] k = "k_logits_q8_0_v4" -> k_logits_q8_0_v4(l, b)
    [] k = "k_gemv_q8_0" -> k_gemv_q8_0(l, b)
    [] k = "k_gemv_q4_0_batch4" -> k_gemv_q4_0_batch4(l, b, s, m)
    [] k = "k_gemv_q8_0_batch4" -> k_gemv_q8_0_batch4(l, b, s, m)
    [] k = "k_gemv_q4_0_batch4_kt2" -> k_gemv_q4_0_batch4_kt2(l, b, s, m)
    [] k = "k_gemv_wmma_q4_0" -> k_gemv_wmma_q4_0(l, b, s, m)
    [] k = "k_embed_q4_0" -> k_embed_q4_0(l, b)
    [] k = "k_gemm_q4_0_prefill" -> k_gemm_q4_0_prefill(l, b, s, m)
    [] k = "k_gemm_q8_0_prefill" -> k_gemm_q8_0_prefill(l, b, s, m)
    [] k = "k_gemm_wmma_q4_0_prefill" -> k_gemm_wmma_q4_0_prefill(l, b, s, m)
    [] k = "k_gemv_q4_0_qkv" -> k_gemv_q4_0_qkv(l, b)
    [] k = "k_rmsnorm_qkv_q4_0" -> k_rmsnorm_qkv_q4_0(l, b, s, m)
    [] k = "k_rmsnorm_qkv_q8_0" -> k_rmsnorm_qkv_q8_0(l, b, s, m)
    [] k = "k_gemv_q4_1_v4" -> k_gemv_q4_1_v4(l, b)
    [] k = "k_gemv_q4_0_batchn" -> k_gemv_q4_0_batchn(l, b)
    [] k = "k_gemv_q4_1" -> k_gemv_q4_1(l, b)
    [] k = "k_gemv_q5_0" -> k_gemv_q5_0(l, b)
    [] k = "k_gemv_q5_1" -> k_gemv_q5_1(l, b)
    [] k = "k_gemv_q8_0_scalar" -> k_gemv_q8_0_scalar(l, b)
    [] k = "k_gemv_q2_K" -> k_gemv_q2_K(l, b)
    [] k = "k_gemv_q3_K" -> k_gemv_q3_K(l, b)
    [] k = "k_gemv_q4_K" -> k_gemv_q4_K(l, b)
    [] k = "k_gemv_q5_K" -> k_gemv_q5_K(l, b)
    [] k = "k_gemv_q6_K" -> k_gemv_q6_K(l, b)
    [] k = "k_gemv_q2_K_v2" -> k_gemv_q2_K_v2(l, b)
    [] k = "k_gemv_q3_K_v2" -> k_gemv_q3_K_v2(l, b)
    [] k = "k_gemv_q4_K_v2" -> k_gemv_q4_K_v2(l, b)
    [] k = "k_gemv_q5_K_v2" -> k_gemv_q5_K_v2(l, b)
    [] k = "k_gemv_q6_K_v2" -> k_gemv_q6_K_v2(l, b)
    [] k = "k_gemv_f16" -> k_gemv_f16(l, b)
    [] k = "k_gemv_f16_scalar" -> k_gemv_f16_scalar(l, b)
    [] k = "k_gemv_bf16_v2" -> k_gemv_bf16_v2(l, b)
    [] k = "k_gemv_bf16" -> k_gemv_bf16(l, b)
    [] k = "k_gemv_f32" -> k_gemv_f32(l, b)
    [] k = "k_gemm_batched_q4_0" -> k_gemm_batched_q4_0(l, b)
    [] k = "k_embed_q4_1" -> k_embed_q4_1(l, b)
    [] k = "k_embed_q5_0" -> k_embed_q5_0(l, b)
    [] k = "k_embed_q5_1" -> k_embed_q5_1(l, b)
    [] k = "k_embed_q8_0" -> k_embed_q8_0(l, b)
    [] k = "k_embed_q2_K" -> k_embed_q2_K(l, b)
    [] k = "k_embed_q3_K" -> k_embed_q3_K(l, b)
    [] k = "k_embed_q4_K" -> k_embed_q4_K(l, b)
    [] k = "k_embed_q5_K" -> k_embed_q5_K(l, b)
    [] k = "k_embed_q6_K" -> k_embed_q6_K(l, b)
    [] k = "k_embed_f16" -> k_embed_f16(l, b)
    [] k = "k_embed_f32" -> k_embed_f32(l, b)
    [] k = "k_embed_bf16" -> k_embed_bf16(l, b)
    [] k = "k_kv_scatter" -> k_kv_scatter(l, b)
    [] k = "k_kv_scatter_q8_0" -> k_kv_scatter_q8_0(l, b)
    [] k = "k_kv_scatter_q4_0" -> k_kv_scatter_q4_0(l, b)
    [] k = "k_kv_scatter_batched" -> k_kv_scatter_batched(l, b)
    [] k = "k_kv_scatter_q8_0_batched" -> k_kv_scatter_q8_0_batched(l, b)
    [] k = "k_kv_scatter_q4_0_batched" -> k_kv_scatter_q4_0_batched(l, b)
    [] k = "k_kv_backfill_q8_0" -> k_kv_backfill_q8_0(l, b, m)
    [] k = "k_kv_backfill_q4_0" -> k_kv_backfill_q4_0(l, b, m)
    [] k = "k_flash_gqa" -> k_flash_gqa(l, b, m)
    [] k = "k_flash_gqa_splitk" -> k_flash_gqa_splitk(l, b, m)
    [] k = "k_flash_gqa_q8_0" -> k_flash_gqa_q8_0(l, b, m)
    [] k = "k_flash_gqa_combine" -> k_flash_gqa_combine(l, b, m)
    [] k = "k_fa2_combine" -> k_fa2_combine(l, b, m)
    [] k = "k_unf_combine" -> k_unf_combine(l, b, m)
    [] k = "k_fa2_fp32_split" -> k_fa2_fp32_split(l, b, s, m)
    [] k = "k_fa2_q8_split" -> k_fa2_q8_split(l, b, s, m)
    [] k = "k_fa2_q4_split" -> k_fa2_q4_split(l, b, s, m)
    [] k = "k_unf_fused" -> k_unf_fused(l, b, s, m)
    [] k = "k_q4_fused" -> k_q4_fused(l, b, s, m)
    [] k = "k_unf_qk" -> k_unf_qk(l, b, s, m)
    [] k = "k_unf_softmax" -> k_unf_softmax(l, b, s, m)
    [] k = "k_unf_pv" -> k_unf_pv(l, b, s, m)
    [] k = "k_prefill_flash_q8_0" -> k_prefill_flash_q8_0(l, b, s, m)
    [] k = "k_prefill_flash_fp32" -> k_prefill_flash_fp32(l, b, s, m)
    [] k = "k_prefill_flash_fp16_t" -> k_prefill_flash_fp16_t(l, b, s, m)
    [] k = "k_fa2_prefill" -> k_fa2_prefill(l, b, s, m)
    [] k = "k_fa2_gqa64" -> k_fa2_gqa64(l, b, s, m)
Effect(l) == IF IsFlow(l) THEN Flow(l, mem) ELSE KernelEffect(l)

(***************************************************************************)
(* The machine.                                                            *)
(***************************************************************************)
None == [op |-> "none"]
DeviceBuffer(cell) == cell[1] \in {"xq", "xs", "xsum", "kv", "scores", "part", "buf", "cache", "h_cache"}
(* Sums under index -1 go to the buffers of parts, all others out.         *)
IsPart(y) == y[1] = -1

Init == /\ call = None /\ todo = <<>> /\ block = 0 /\ step = 0
        /\ mem = <<>> /\ seen = Quiet /\ acc = <<>> /\ out = <<>> /\ stored = {}

Enter(c) ==
  /\ call = None
  /\ call' = c
  /\ todo' = Entry(c).launches
  /\ UNCHANGED <<block, step, mem, seen, acc, out, stored>>

Put(puts) ==
  [cell \in {p[1] : p \in puts} |-> (CHOOSE p \in puts : p[1] = cell)[2]] @@ mem
Add(mac) ==
  [y \in (DOMAIN acc) \cup (DOMAIN mac) |->
     (IF y \in DOMAIN acc THEN acc[y] ELSE {})
       \cup (IF y \in DOMAIN mac THEN {<<step, p>> : p \in mac[y]} ELSE {})]
(* Shared memory ends with the block; the sums of a part go to its buffer. *)
Kept(cells) == [cell \in {c \in DOMAIN cells : DeviceBuffer(c)} |-> cells[cell]]
PartsOf(sums) ==
  [cell \in {<<"part", y[2], y[3]>> : y \in {z \in DOMAIN sums : IsPart(z)}} |->
     sums[<<-1, cell[2], cell[3]>>]]
Access(e) == [e EXCEPT !.mac = <<>>]

(* The threads of a block get to the next barrier.                         *)
ReachBarrier ==
  /\ todo # <<>> /\ step + 1 < Steps(Head(todo), block)
  /\ \E e \in {Effect(Head(todo))} :
       seen' = Access(e) /\ mem' = Put(e.put) /\ acc' = Add(e.mac)
  /\ step' = step + 1
  /\ stored' = stored \cup DOMAIN out
  /\ out' = <<>>
  /\ UNCHANGED <<call, todo, block>>

(* They get to the end; the sums are stored and the next block starts.     *)
FinishBlock ==
  /\ todo # <<>> /\ step + 1 = Steps(Head(todo), block)
  /\ \E e \in {Effect(Head(todo))} : \E sums \in {Add(e.mac)} :
       /\ seen' = Access(e)
       /\ mem' = Kept(Put(e.put)) @@ PartsOf(sums)
       /\ out' = [y \in {z \in DOMAIN sums : ~IsPart(z)} |-> sums[y]]
  /\ IF block + 1 < Head(todo).grid[1] * Head(todo).grid[2]
     THEN block' = block + 1 /\ todo' = todo
     ELSE block' = 0 /\ todo' = Tail(todo)
  /\ stored' = stored \cup DOMAIN out
  /\ step' = 0 /\ acc' = <<>>
  /\ UNCHANGED call

Return ==
  /\ call # None /\ todo = <<>>
  /\ call' = None
  /\ seen' = Quiet /\ out' = <<>> /\ stored' = {}
  /\ mem' = [cell \in {c \in DOMAIN mem : c[1] \in {"xq", "xs", "xsum"}} |-> mem[cell]]
  /\ UNCHANGED <<todo, block, step, acc>>

Next == (\E c \in Calls : Enter(c)) \/ ReachBarrier \/ FinishBlock \/ Return

Spec == Init /\ [][Next]_vars

(***************************************************************************)
(* Properties.                                                             *)
(***************************************************************************)
IsAttention(c) ==
  c.op \in {"forward_layers", "prefill_batched_gemm", "tt_flash_gqa", "tt_flash_gqa_q8_0", "tt_flash_gqa_splitk"}
Queries(c)   == IF c.op = "prefill_batched_gemm" THEN 0..(c.n - 1) ELSE {0}

Outputs(c) ==
  CASE c.op = "qwen2_engine" -> {}
    [] c.op = "tt_embed_typed" -> {1} \X {0} \X (0..(c.K - 1))
    [] IsAttention(c) -> Queries(c) \X (0..(c.H - 1)) \X (-1..(Blocks(c) - 1))
    [] c.op \notin {"qwen2_engine", "tt_embed_typed"} /\ ~IsAttention(c) ->
         UNION {{m} \X (0..(c.N - 1)) \X (0..(c.M[m] - 1)) : m \in DOMAIN c.M}

(* The positions query q sees: up to its own, the last `window` of them.   *)
Seen(c, q) ==
  {t \in 0..(c.pos + q) : c.window = 0 \/ t > c.pos + q - c.window}
Weighed(c, y) ==
  LET kv == KvOf(c, y[2])
  IN {<<<<y[1], y[2], t, kv>>, IF y[3] = -1 THEN <<>> ELSE <<t, kv, y[3]>>>> : t \in Seen(c, y[1])}

Reference(c, y) ==
  IF IsAttention(c) THEN Weighed(c, y)
  ELSE IF c.op = "tt_embed_typed"
  THEN {<<Unit, ttq_dequant(c.fmt, c.W[1] + c.tok * RowBytes(c.fmt, c.K), y[3])>>}
  ELSE {<<<<y[2], i>>, ttq_dequant(c.fmt, c.W[y[1]] + y[3] * RowBytes(c.fmt, c.K), i)>>
          : i \in 0..(c.K - 1)}
       \cup (IF c.op \in {"tt_gemv_q4_0_v4_res", "tt_gemv_q4_1_v4_res"}
             THEN {<<<<-2, y[3]>>, Scaled(<<>>, 0, -1)>>} ELSE {})

(***************************************************************************)
(* A model, position by position: what every token's hidden state is after *)
(* each layer, and the K and V rows of that layer.                         *)
(***************************************************************************)
If(cond, f, w, x) == IF cond THEN <<f, w, <<x>>>> ELSE x
ModelEmbed(c, tok) == If(c.embed_sqrt, "scale", "sqrt_dim", <<"embed", "", <<tok>>>>)
ModelRow(c, l, tok) ==
  <<"ple_finish", "", <<Gemv(<<"pl_model_proj", l>>, ModelEmbed(c, tok)), tok>>>>
HeadNormed(c, w, l, x) == If(c.qk_norm, "head_norm", <<w, l>>, x)
ModelRope(c, l) ==
  <<IF c.gptj THEN "adjacent" ELSE "halves", RopeBase(c, l), IsFull(c, l)>>
Model(c, said) ==
  LET T == 0..(Len(said) - 1)
      after[l \in -1..(c.layers - 1)] ==
        IF l = -1 THEN [x |-> [t \in T |-> ModelEmbed(c, said[t + 1])], kv |-> <<>>]
        ELSE
          LET below == after[l - 1].x
              W(kind, x) == Gemv(<<kind, l>>, x)
              xn == [t \in T |-> Norm(<<"attn_norm", l>>, below[t])]
              biased(kind, t) == If(c.bias, "bias", <<kind, l>>, W(kind, xn[t]))
              turned(kind, w, t) == Rotated(ModelRope(c, l), HeadNormed(c, w, l, biased(kind, t)), t)
              kv == IF Shared(c, l) THEN after[c.src[l]].kv
                    ELSE [t \in T |-> <<turned("k", "k_norm", t), If(c.pl, "head_norm", "ones", biased("v", t))>>]
              att == [t \in T |-> Weigh(AttnOf(c, l).scale, turned("q", "q_norm", t),
                                         [s \in InWindow(c.window[l], t) |-> kv[s]])]
              mid == [t \in T |-> Plus(below[t], If(c.sandwich, "rmsnorm", <<"post_attn_norm", l>>, W("o", att[t])))]
              ffn(x) == W("down", Gated(ActOf(c), W("gate", x), W("up", x)))
              top == [t \in T |-> Plus(mid[t], If(c.sandwich, "rmsnorm", <<"post_ffn_norm", l>>,
                                                   ffn(Norm(<<"ffn_norm", l>>, mid[t]))))]
              ple(x, tok) == Norm(<<"pl_post_norm", l>>,
                                  W("pl_proj", Ple(W("inp_gate", x), ModelRow(c, l, tok))))
          IN [kv |-> kv,
              x |-> [t \in T |-> IF c.pl THEN If(c.out_scale, "scale", <<"out", l>>,
                                                 Plus(top[t], ple(top[t], said[t + 1])))
                                  ELSE top[t]]]
  IN after
ModelLogits(c, x) == If(c.softcap, "softcap", "", Gemv("out", Norm("out_norm", x)))

(* The tokens fed: all of them, but for one sampled last.                  *)
Said(c) ==
  LET upto[i \in 0..Len(c.script)] ==
        IF i = 0 THEN <<>>
        ELSE upto[i - 1] \o (IF c.script[i].do = "sampled" /\ i = Len(c.script) THEN <<>> ELSE c.script[i].toks)
  IN upto[Len(c.script)]
Delivered(c) ==
  LET said == Said(c)
      model == Model(c, said)
      last == c.script[Len(c.script)]
      from == Len(said) - Len(last.toks)
      final == model[c.layers - 1].x
  IN /\ \A l \in 0..(c.layers - 1) : ~Shared(c, l) =>
          LET kv == model[l].kv   slab == IF l < c.gpu THEN "cache" ELSE "h_cache"
          IN \A t \in 0..(Len(said) - 1) : At(mem, <<slab, l, t>>) = kv[t]
     /\ last.do # "verify" => At(mem, X("d_x")) = final[Len(said) - 1]
     /\ last.do = "verify" => \A i \in 0..(Len(last.toks) - 1) :
          At(mem, Row("out_logits", i)) = ModelLogits(c, final[from + i])

(* The batched LM head reads the x of every block from block 0's place.    *)
Scrambled(c) == c.op = "tt_logits_q4_0_batch4"

(* Whatever kernel a call is sent to, every output is stored exactly once, *)
(* and is the sum of exactly the products the reference defines, in one    *)
(* kernel scrambled.  After any script of prompts and verifications the    *)
(* K and V rows of every position and layer, the last hidden state and     *)
(* every row of logits returned are the model's, however the tokens were   *)
(* cut into chunks and whichever copy of the layer ran them.               *)
OutputsMatch ==
  call # None =>
    /\ \A y \in DOMAIN out :
         /\ y \in Outputs(call) \ stored
         /\ Cardinality(out[y]) = Cardinality(Reference(call, y))
         /\ Scrambled(call) \/ {<<p[2][2], p[2][3]>> : p \in out[y]} = Reference(call, y)
    /\ todo = <<>> /\ Entry(call).rc = 0 => stored \cup DOMAIN out = Outputs(call)
    /\ todo = <<>> /\ call.op = "qwen2_engine" => Delivered(call)

Extent(c, m) == IF IsAttention(c) THEN c.cap * KvBlocks(c) * SlabBlock(c.fmt, m)
                ELSE c.M[m] * RowBytes(c.fmt, c.K)

(* Every load is aligned to its width and stays inside one of the matrices *)
(* or slabs of the call: merging two words never runs past the last row,   *)
(* no tile past the last slot.                                             *)
LoadsInside ==
  call # None => \A ld \in seen.loads :
    /\ ld[1] % ld[2] = 0
    /\ \E m \in DOMAIN call.W :
         call.W[m] <= ld[1] /\ ld[1] + ld[2] <= call.W[m] + Extent(call, m)

(* Between two barriers nothing is got that is also put, and no two        *)
(* threads put different things in a cell.                                 *)
NoRace ==
  LET cells == {p[1] : p \in seen.put}
  IN seen.get \cap cells = {} /\ Cardinality(cells) = Cardinality(seen.put)
=============================================================================
