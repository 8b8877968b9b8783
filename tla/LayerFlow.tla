------------------------------ MODULE LayerFlow ------------------------------
(***************************************************************************)
(* Whole layers: the launches the engine queues for a token (advance), for *)
(* a chunk of a prompt and for the candidates of a speculative step, and   *)
(* for the layers left to the CPU.  Each says which buffers it reads and   *)
(* writes; a product or an attention stands here for what GpuKernels shows *)
(* of its kernels.                                                         *)
(*                                                                         *)
(* A vector is a term <<f, w, args>>: f with weights or settings w applied *)
(* to args.  A call is an engine with its model and environment, and a     *)
(* script of API calls made on it.                                         *)
(***************************************************************************)
EXTENDS MatLaunch

X(name)       == <<"buf", name, 0>>
Row(name, i)  == <<"buf", name, i>>
Const(n)      == <<"const", "", n>>
Do(to, f, w, of) == [to |-> to, f |-> f, w |-> w, of |-> of]
Op(kernel, does) == [kernel |-> kernel, does |-> does, grid |-> <<1, 1>>]
One(kernel, to, f, w, of) == <<Op(kernel, <<Do(X(to), f, w, [i \in DOMAIN of |-> X(of[i])])>>)>>
(* The same on each of n rows.                                             *)
Batched(kernel, n, to, f, w, of) ==
  <<Op(kernel, [r \in 1..n |-> Do(Row(to, r - 1), f, w, [i \in DOMAIN of |-> Row(of[i], r - 1)])])>>
Only(cond, launches) == IF cond THEN launches ELSE <<>>

(***************************************************************************)
(* What a launch does.                                                     *)
(***************************************************************************)
Gemv(w, x)      == <<"gemv", w, <<x>>>>
Norm(w, x)      == <<"rmsnorm", w, <<x>>>>
Plus(x, y)      == <<"add", "", <<x, y>>>>
Gated(a, g, u)  == <<"act", a, <<g, u>>>>
Ple(g, row)     == <<"gelu_mul", "", <<g, row>>>>
Rotated(w, x, pos) == <<"rope", w, <<x, pos>>>>
Weigh(w, q, rows)  == <<"attn", w, <<q, rows>>>>

Read(m, cell) == IF cell[1] = "const" THEN cell[3] ELSE At(m, cell)
InWindow(window, pos) == {t \in 0..pos : window = 0 \/ t > pos - window}
SlabRow(slab, t) == <<slab[1], slab[2], t>>

Value(m, d) ==
  LET a == [i \in DOMAIN d.of |-> Read(m, d.of[i])]
  IN CASE d.f = "copy" -> a[1]
       [] d.f = "kv"   -> <<a[1], a[2]>>
       [] d.f = "attn" ->
            Weigh(d.w.scale, a[1],
                  [t \in InWindow(d.w.window, a[2]) |-> At(m, SlabRow(d.w.slab, t))])
       [] d.f = "gemv_add"   -> Plus(a[2], Gemv(d.w, a[1]))
       [] d.f = "norm_gemv"  -> Gemv(d.w[2], Norm(d.w[1], a[1]))
       [] d.f = "gemv_norm"  -> Norm(d.w[2], Gemv(d.w[1], a[1]))
       [] d.f = "gemv_gated" -> Gated(d.w[1], Gemv(d.w[2], a[1]), Gemv(d.w[3], a[1]))
       [] d.f = "gemv_ple"   -> Ple(Gemv(d.w, a[1]), a[2])
       [] OTHER -> <<d.f, d.w, a>>
Target(m, d) == IF d.f = "kv" THEN SlabRow(d.to, Read(m, d.of[3]) % d.w) ELSE d.to

(* What one thread reads and another may write.                            *)
Across(m, d) ==
  CASE d.f \in {"gemv", "gemv_add", "norm_gemv", "gemv_norm", "gemv_gated", "gemv_ple"} -> {d.of[1]}
    [] d.f = "attn" -> {d.of[1]} \cup {SlabRow(d.w.slab, t) : t \in 0..Read(m, d.of[2])}
    [] OTHER -> {}

Flow(l, m) ==
  [Quiet EXCEPT !.put = {<<Target(m, l.does[i]), Value(m, l.does[i])>> : i \in DOMAIN l.does},
                !.get = UNION {Across(m, l.does[i]) : i \in DOMAIN l.does}]

(***************************************************************************)
(* The small kernels.  A rotation is known by how it pairs the elements of *)
(* a head, its base, and whether it divides by frequency factors.          *)
(***************************************************************************)
k_rmsnorm(w, x, y)             == One("k_rmsnorm", y, "rmsnorm", w, <<x>>)
k_rmsnorm_batched(n, w, x, y)  == Batched("k_rmsnorm_batched", n, y, "rmsnorm", w, <<x>>)
k_qk_norm_rms(w, x)            == One("k_qk_norm_rms", x, "head_norm", w, <<x>>)
k_qk_norm_rms_batched(n, w, x) == Batched("k_qk_norm_rms_batched", n, x, "head_norm", w, <<x>>)
k_add(x, y)                    == One("k_add", x, "add", "", <<x, y>>)
k_add_bias(w, x)               == One("k_add", x, "bias", w, <<x>>)
k_add_bias_batched(n, w, x)    == Batched("k_add_bias_batched", n, x, "bias", w, <<x>>)
k_scale(w, x)                  == <<Op("k_scale", <<Do(x, "scale", w, <<x>>)>>)>>
k_softcap(x)                   == One("k_softcap", x, "softcap", "", <<x>>)
k_swiglu_apply(a, g, u, h)     == One("k_swiglu_apply", h, "act", a, <<g, u>>)
k_ple_stage1_f32(w, x, row, g) == <<Op("k_ple_stage1_f32", <<Do(X(g), "gemv_ple", w, <<X(x), row>>)>>)>>
k_ple_stage2_f32(w, gamma, g, to) == One("k_ple_stage2_f32", to, "gemv_norm", <<w, gamma>>, <<g>>)

ByHalves(base, factors)   == <<"halves", base, factors>>
ByPairs(base, factors) == <<"adjacent", base, factors>>
k_rope(base, x)         == One("k_rope", x, "rope", ByHalves(base, FALSE), <<x, "d_pos">>)
k_rope_ff(base, x)      == One("k_rope_ff", x, "rope", ByHalves(base, TRUE), <<x, "d_pos">>)
k_rope_gptj(base, x)    == One("k_rope_gptj", x, "rope", ByPairs(base, FALSE), <<x, "d_pos">>)
k_rope_gptj_ff(base, x) == One("k_rope_gptj_ff", x, "rope", ByPairs(base, TRUE), <<x, "d_pos">>)
k_rope_qk(base, gptj, xs) ==
  LET w == IF gptj THEN ByPairs(base, FALSE) ELSE ByHalves(base, FALSE)
  IN <<Op("k_rope_qk", [i \in DOMAIN xs |-> Do(X(xs[i]), "rope", w, <<X(xs[i]), X("d_pos")>>)])>>
BatchedTurn(kernel, n, w, x) == Batched(kernel, n, x, "rope", w, <<x, "d_pf_pos_batch">>)
k_rope_batched(n, base, x) == BatchedTurn("k_rope_batched", n, ByHalves(base, FALSE), x)
k_rope_ff_batched(n, base, x) == BatchedTurn("k_rope_ff_batched", n, ByHalves(base, TRUE), x)
k_rope_gptj_batched(n, base, x) == BatchedTurn("k_rope_gptj_batched", n, ByPairs(base, FALSE), x)
k_rope_gptj_ff_batched(n, base, x) == BatchedTurn("k_rope_gptj_ff_batched", n, ByPairs(base, TRUE), x)

cpu_rmsnorm(w, x, y)      == One("cpu_rmsnorm", y, "rmsnorm", w, <<x>>)
cpu_silu_mult(g, u, h)    == One("cpu_silu_mult", h, "act", "silu", <<g, u>>)
cpu_rope(base, x, pos)    ==
  <<Op("cpu_rope", <<Do(X(x), "rope", ByHalves(base, FALSE), <<X(x), Const(pos)>>)>>)>>

(***************************************************************************)
(* Products: which kernel takes a weight matrix.                           *)
(***************************************************************************)
MatDims(c) ==
  LET qout == c.H * c.HD   kvdim == c.KV * c.HD
  IN [q |-> <<qout, c.dim>>, k |-> <<kvdim, c.dim>>, v |-> <<kvdim, c.dim>>, o |-> <<c.dim, qout>>,
      gate |-> <<c.hidden, c.dim>>, up |-> <<c.hidden, c.dim>>, down |-> <<c.dim, c.hidden>>,
      inp_gate |-> <<c.pl_dim, c.dim>>, pl_proj |-> <<c.dim, c.pl_dim>>,
      pl_model_proj |-> <<c.layers * c.pl_dim, c.dim>>, embd |-> <<c.vocab, c.dim>>,
      out |-> <<c.vocab, c.dim>>]
Product(c, kind, n) ==
  [fmt |-> c.type[kind], W |-> <<0>>, M |-> <<MatDims(c)[kind][1]>>, K |-> MatDims(c)[kind][2],
   N |-> n, tok |-> 0, env |-> c.env]
(* One launch stands for those of an entry point.  A refused product       *)
(* launches nothing, and the layers do not ask.                            *)
Asked(entry, p, does) == Only(kquant_aligned(p), <<Op(entry, does)>>)

GemvEntry(p) ==
  IF p.fmt = "q4_0" THEN "tt_gemv_q4_0_dispatch"
  ELSE IF p.fmt = "q4_1" /\ tt_gemv_q4_1_v4_ok(p) THEN "tt_gemv_q4_1_v4"
  ELSE "tt_gemv_typed"
Dispatched(p, does) == Asked(GemvEntry(p), p, does)
LayerGemv(c, kind, does) == Dispatched(Product(c, kind, 1), does)
tt_gemv_layer_dispatch(c, l, kind, x, y) ==
  LayerGemv(c, kind, <<Do(X(y), "gemv", <<kind, l>>, <<X(x)>>)>>)

tt_gemv_res_ok(c, kind) ==
  LET p == Product(c, kind, 1)
  IN /\ "TT_NO_RESADD" \notin c.env
     /\ \/ p.fmt = "q4_0" /\ tt_gemv_q4_0_v4_ok(p)
        \/ p.fmt = "q4_1" /\ tt_gemv_q4_1_v4_ok(p)

(***************************************************************************)
(* A layer for the token in d_x, at the position in d_pos.                 *)
(***************************************************************************)
Shared(c, l)   == c.pl /\ c.src[l] >= 0
SlabOf(c, l)   == <<"cache", IF Shared(c, l) THEN c.src[l] ELSE l>>
AttnOf(c, l)   == [slab |-> SlabOf(c, l), window |-> c.window[l],
                   scale |-> IF c.scale_one THEN "one" ELSE "sqrt"]
IsFull(c, l)   == c.pl /\ c.window[l] = 0
RopeBase(c, l) == IF ~c.pl THEN "rope_base" ELSE IF IsFull(c, l) THEN "1e6" ELSE "1e4"
ActOf(c)       == IF c.gelu THEN "gelu" ELSE "silu"
AllOf(c, fmt)  == c.type.q = fmt /\ c.type.k = fmt /\ c.type.v = fmt

UseFuse(c, l) ==
  /\ "TT_NO_FUSE" \notin c.env /\ ~Shared(c, l)
  /\ AllOf(c, "q4_0") \/ AllOf(c, "q8_0")
  /\ c.dim <= 4096 /\ c.dim % 64 = 0 /\ c.H <= 64 /\ c.KV <= 64 /\ c.HD <= 512
  /\ (c.H * c.HD) % 2 = 0 /\ (c.KV * c.HD) % 2 = 0

AttnNorm(c, l) == k_rmsnorm(<<"attn_norm", l>>, "d_x", "d_xn")
QkvGemv(c, l) ==
  LET into == [q |-> "d_q", k |-> "d_k_stage", v |-> "d_v_stage"]
      v4 == /\ AllOf(c, "q4_0") /\ "TT_QKV4_OFF" \notin c.env /\ EvenBlocks([K |-> c.dim])
            /\ (c.H * c.HD) % 4 = 0 /\ (c.KV * c.HD) % 4 = 0
      Kinds == <<"q", "k", "v">>
  IN CASE UseFuse(c, l) /\ v4 ->
            AttnNorm(c, l) \o <<Op("tt_gemv_q4_0_qkv",
              [i \in 1..3 |-> Do(X(into[Kinds[i]]), "gemv", <<Kinds[i], l>>, <<X("d_xn")>>)])>>
       [] UseFuse(c, l) /\ ~v4 ->
            <<Op("rmsnorm_qkv",
              <<Do(X("d_xn"), "rmsnorm", <<"attn_norm", l>>, <<X("d_x")>>)>>
                \o [i \in 1..3 |-> Do(X(into[Kinds[i]]), "norm_gemv",
                                      <<<<"attn_norm", l>>, <<Kinds[i], l>>>>, <<X("d_x")>>)])>>
       [] ~UseFuse(c, l) ->
            AttnNorm(c, l) \o tt_gemv_layer_dispatch(c, l, "q", "d_xn", "d_q")
              \o Only(~Shared(c, l), tt_gemv_layer_dispatch(c, l, "k", "d_xn", "d_k_stage"))

(* Bias, norm and rotation of q and k.                                     *)
QkFinish(c, l) ==
  LET own == ~Shared(c, l)
      base == RopeBase(c, l)
      alone(x) == CASE ~c.gptj /\ ~IsFull(c, l) -> k_rope(base, x)
                    [] ~c.gptj /\ IsFull(c, l)  -> k_rope_ff(base, x)
                    [] c.gptj /\ ~IsFull(c, l)  -> k_rope_gptj(base, x)
                    [] c.gptj /\ IsFull(c, l)   -> k_rope_gptj_ff(base, x)
  IN Only(c.bias, k_add_bias(<<"q", l>>, "d_q"))
       \o Only(c.bias /\ own, k_add_bias(<<"k", l>>, "d_k_stage"))
       \o Only(c.qk_norm, k_qk_norm_rms(<<"q_norm", l>>, "d_q"))
       \o Only(c.qk_norm /\ own, k_qk_norm_rms(<<"k_norm", l>>, "d_k_stage"))
       \o IF IsFull(c, l) \/ "TT_NO_ROPEQK" \in c.env
          THEN alone("d_q") \o Only(own, alone("d_k_stage"))
          ELSE k_rope_qk(base, c.gptj, <<"d_q">> \o Only(own, <<"d_k_stage">>))

(* The V product comes last, from the d_xn of the first launch.            *)
VFinish(c, l) ==
  Only(~Shared(c, l),
       Only(~UseFuse(c, l), tt_gemv_layer_dispatch(c, l, "v", "d_xn", "d_v_stage"))
         \o Only(c.bias, k_add_bias(<<"v", l>>, "d_v_stage"))
         \o Only(c.pl, k_qk_norm_rms("ones", "d_v_stage")))

LayerAttention(c, l) ==
  Only(~Shared(c, l),
       <<Op("k_kv_scatter", <<Do(SlabOf(c, l), "kv", c.ctx,
                                 <<X("d_k_stage"), X("d_v_stage"), X("d_pos")>>)>>)>>)
    \o One("k_flash_gqa", "d_att", "attn", AttnOf(c, l), <<"d_q", "d_pos">>)

(* d_x += post_norm(W x): in place, or through d_xn.                       *)
ResidualProduct(c, l, kind, x, post) ==
  IF ~c.sandwich /\ tt_gemv_res_ok(c, kind)
  THEN One("k_gemv_v4_res", "d_x", "gemv_add", <<kind, l>>, <<x, "d_x">>)
  ELSE tt_gemv_layer_dispatch(c, l, kind, x, "d_xn")
         \o Only(c.sandwich, k_rmsnorm(<<post, l>>, "d_xn", "d_xn"))
         \o k_add("d_x", "d_xn")

FeedForward(c, l) ==
  k_rmsnorm(<<"ffn_norm", l>>, "d_x", "d_xn")
    \o (IF c.type.gate = "q4_0" /\ c.type.up = "q4_0" /\ ~c.pl
             /\ ~tt_gemv_q4_0_v4_ok(Product(c, "gate", 1))
        THEN <<Op("tt_ffn_q4_0",
                    <<Do(X("d_h"), "gemv_gated", <<ActOf(c), <<"gate", l>>, <<"up", l>>>>, <<X("d_xn")>>)>>)>>
        ELSE tt_gemv_layer_dispatch(c, l, "gate", "d_xn", "d_g")
               \o tt_gemv_layer_dispatch(c, l, "up", "d_xn", "d_u")
               \o k_swiglu_apply(ActOf(c), "d_g", "d_u", "d_h"))
    \o ResidualProduct(c, l, "down", "d_h", "post_ffn_norm")

(* The per-layer embedding block, on the device or by way of the host.     *)
PerLayer(c, l) ==
  LET row == Row("d_ple_row", l)
      v2 == c.type.inp_gate = "f32" /\ c.type.pl_proj = "f32"
  IN Only(c.pl,
       (IF v2
        THEN k_ple_stage1_f32(<<"inp_gate", l>>, "d_x", row, "d_pl_tmp")
               \o k_ple_stage2_f32(<<"pl_proj", l>>, <<"pl_post_norm", l>>, "d_pl_tmp", "d_xn")
        ELSE tt_gemv_layer_dispatch(c, l, "inp_gate", "d_x", "d_pl_tmp")
               \o One("cudaMemcpy", "gbuf", "copy", "", <<"d_pl_tmp">>)
               \o <<Op("cudaMemcpy", <<Do(X("ple_slice"), "copy", "", <<row>>)>>)>>
               \o One("host", "gbuf", "gelu_mul", "", <<"gbuf", "ple_slice">>)
               \o One("cudaMemcpy", "d_pl_tmp", "copy", "", <<"gbuf">>)
               \o tt_gemv_layer_dispatch(c, l, "pl_proj", "d_pl_tmp", "d_xn")
               \o k_rmsnorm(<<"pl_post_norm", l>>, "d_xn", "d_xn"))
         \o k_add("d_x", "d_xn")
         \o Only(c.out_scale, k_scale(<<"out", l>>, X("d_x"))))

(* The layers the GPU has no room for, at host position pos.               *)
forward_layer_cpu(c, l, pos) ==
  LET gemv(kind, x, y) == One("tt_cpu_gemv", y, "gemv", <<kind, l>>, <<x>>)
      residual == One("host", "h_x_buf", "add", "", <<"h_x_buf", "h_out_buf">>)
      slab == <<"h_cache", l>>
  IN cpu_rmsnorm(<<"attn_norm", l>>, "h_x_buf", "h_xn_buf")
       \o gemv("q", "h_xn_buf", "h_q_buf") \o gemv("k", "h_xn_buf", "h_k_stage")
       \o gemv("v", "h_xn_buf", "h_v_stage")
       \o cpu_rope("rope_base", "h_q_buf", pos) \o cpu_rope("rope_base", "h_k_stage", pos)
       \o <<Op("memcpy", <<Do(slab, "kv", c.ctx, <<X("h_k_stage"), X("h_v_stage"), Const(pos)>>)>>),
            Op("host", <<Do(X("h_att_buf"), "attn", [slab |-> slab, window |-> 0, scale |-> "sqrt"],
                            <<X("h_q_buf"), Const(pos)>>)>>)>>
       \o gemv("o", "h_att_buf", "h_out_buf") \o residual
       \o cpu_rmsnorm(<<"ffn_norm", l>>, "h_x_buf", "h_xn_buf")
       \o gemv("gate", "h_xn_buf", "h_g_buf") \o gemv("up", "h_xn_buf", "h_u_buf")
       \o cpu_silu_mult("h_g_buf", "h_u_buf", "h_h_buf")
       \o gemv("down", "h_h_buf", "h_out_buf") \o residual

LayersFrom(c, pos) ==
  LET from[l \in 0..c.layers] ==
        IF l = c.layers THEN Only(c.gpu < c.layers, One("cudaMemcpy", "d_x", "copy", "", <<"h_x_buf">>))
        ELSE Only(l = c.gpu, One("cudaMemcpy", "h_x_buf", "copy", "", <<"d_x">>))
               \o (IF l >= c.gpu THEN forward_layer_cpu(c, l, pos)
                   ELSE QkvGemv(c, l) \o QkFinish(c, l) \o VFinish(c, l) \o LayerAttention(c, l)
                          \o ResidualProduct(c, l, "o", "d_att", "post_attn_norm")
                          \o FeedForward(c, l) \o PerLayer(c, l))
               \o from[l + 1]
  IN from[0]

(***************************************************************************)
(* A token: embed, all layers, and the position of the next one.           *)
(***************************************************************************)
LoadPos(pos) == <<Op("cudaMemcpy", <<Do(X("d_pos"), "copy", "", <<Const(pos)>>)>>)>>
EmbedInto(c, to, tok) ==
  Asked("tt_embed_typed", Product(c, "embd", 1),
        <<Do(to, "embed", "", <<Const(tok)>>)>>)
    \o Only(c.embed_sqrt, k_scale("sqrt_dim", to))

embed_token(c, tok) ==
  LET rows(kernel, f, w, to, of) ==
        <<Op(kernel, [l \in 1..c.layers |-> Do(Row(to, l - 1), f, w, of[l])])>>
      host == [l \in 1..c.layers |-> <<Row("ple_pe", l - 1)>>]
      device == [l \in 1..c.layers |-> <<Row("d_ple_row", l - 1)>>]
  IN EmbedInto(c, X("d_x"), tok)
       \o Only(c.pl,
            LayerGemv(c, "pl_model_proj",
              [l \in 1..c.layers |->
                 Do(Row("d_ple_row", l - 1), "gemv", <<"pl_model_proj", l - 1>>, <<X("d_x")>>)])
            \o rows("cudaMemcpy", "copy", "", "ple_pe", device)
            \o rows("ple_finish_host", "ple_finish", "", "ple_pe",
                    [l \in 1..c.layers |-> <<Row("ple_pe", l - 1), Const(tok)>>])
            \o rows("cudaMemcpy", "copy", "", "d_ple_row", host))

(* The engine on the host: its position, the token sampled and not fed,    *)
(* the key of the converted activations, and the launches so far.          *)
Queue(h, launches) == [h EXCEPT !.launches = @ \o launches]
advance(c, h, tok) ==
  [Queue(h, embed_token(c, tok) \o LayersFrom(c, h.pos) \o LoadPos(h.pos + 1)) EXCEPT !.pos = @ + 1]
AdvanceAll(c, h, toks) ==
  LET after[i \in 0..Len(toks)] == IF i = 0 THEN h ELSE advance(c, after[i - 1], toks[i])
  IN after[Len(toks)]

(***************************************************************************)
(* A chunk of n tokens at once.                                            *)
(***************************************************************************)
pf_batchn_maxn(c) == IF "TT_PF_BATCHN_N=0" \in c.env THEN 0 ELSE 12
pf_minn(c)        == IF "TT_PF_MINN=3" \in c.env THEN 3 ELSE 2
cublas_fp16_wanted(c) == "TT_CUBLAS_FP16" \in c.env
BatchnTakes(c, kind, n) ==
  n <= pf_batchn_maxn(c) /\ tt_gemv_q4_0_batchn(Product(c, kind, n)).rc = 0
(* Shadows are made of Q4_0 weights, as far as memory goes.                *)
Shadowed(c, l, kind)  == c.type[kind] = "q4_0" /\ <<kind, l>> \notin c.unshadowed
Halved(c, l, kind, n) ==
  cublas_fp16_wanted(c) /\ Shadowed(c, l, kind) /\ ~BatchnTakes(c, kind, n)

(* q, k and v share one conversion, known by its layer and length: the key *)
(* once the products `before` are done.  The others convert afresh: their  *)
(* x, in the same buffer, is another vector.                               *)
FpKey(c, l, n, key, before) ==
  IF \E kind \in before : Halved(c, l, kind, n) THEN <<l, n>> ELSE key
k_f32_to_f16(n, x, y) == Batched("k_f32_to_f16", n, y, "copy", "", <<x>>)
cublas_fp16_try(l, kind, x, y, n, key) ==
  LET shared == kind \in {"q", "k", "v"}
      half == IF shared THEN "fp16_xn" ELSE "fp16_x"
  IN Only(~shared \/ key # <<l, n>>, k_f32_to_f16(n, x, half))
       \o Batched("cublas_fp16", n, y, "gemv", <<kind, l>>, <<half>>)

prefill_gemm_dtype(c, l, kind, x, y, b, key) ==
  LET n == b.n
      does == [r \in 1..n |-> Do(Row(y, r - 1), "gemv", <<kind, l>>, <<Row(x, r - 1)>>)]
      p == Product(c, kind, n)
      q4fn == IF n >= 64 /\ ~b.dx THEN "tt_gemm_wmma_q4_0_prefill" ELSE "tt_gemm_q4_0_prefill"
      rows[r \in 0..n] == IF r = n THEN <<>> ELSE LayerGemv(c, kind, <<does[r + 1]>>) \o rows[r + 1]
  IN CASE p.fmt = "q8_0" -> <<Op("tt_gemm_q8_0_prefill", does)>>
       [] p.fmt \notin {"q4_0", "q8_0"} -> rows[0]
       [] p.fmt = "q4_0" ->
            IF BatchnTakes(c, kind, n) THEN <<Op("tt_gemv_q4_0_batchn", does)>>
            ELSE IF Halved(c, l, kind, n) THEN cublas_fp16_try(l, kind, x, y, n, key)
            ELSE IF "TT_CUBLAS_PRE" \in c.env /\ ~cublas_fp16_wanted(c) /\ Shadowed(c, l, kind)
            THEN <<Op("cublas_nt", does)>>
            ELSE <<Op(q4fn, does)>>

BatchedRope(c, l, n, x) ==
  LET base == RopeBase(c, l)
  IN CASE ~c.gptj /\ ~IsFull(c, l) -> k_rope_batched(n, base, x)
       [] ~c.gptj /\ IsFull(c, l)  -> k_rope_ff_batched(n, base, x)
       [] c.gptj /\ ~IsFull(c, l)  -> k_rope_gptj_batched(n, base, x)
       [] c.gptj /\ IsFull(c, l)   -> k_rope_gptj_ff_batched(n, base, x)

(* A chunk is b.n rows from position b.pos on, in buffer b.X; b.dx: those  *)
(* of a verification.                                                      *)
BatchedNorm(b, w, x, y) == k_rmsnorm_batched(b.n, w, x, y)
BatchedResidual(c, b, w) ==
  Only(c.sandwich, BatchedNorm(b, w, "d_Xn", "d_Xn")) \o Batched("k_add", b.n, b.X, "add", "", <<b.X, "d_Xn">>)
BatchedQkv(c, l, b, key) ==
  LET own == ~Shared(c, l)
      gemm(kind, y, before) == prefill_gemm_dtype(c, l, kind, "d_Xn", y, b, FpKey(c, l, b.n, key, before))
      bias(kind, x) == Only(c.bias, k_add_bias_batched(b.n, <<kind, l>>, x))
      headNorm(w, x) == Only(c.qk_norm, k_qk_norm_rms_batched(b.n, <<w, l>>, x))
  IN BatchedNorm(b, <<"attn_norm", l>>, b.X, "d_Xn") \o gemm("q", "d_Q", {})
       \o Only(own, gemm("k", "d_K", {"q"}) \o gemm("v", "d_V", {"q", "k"}))
       \o bias("q", "d_Q") \o Only(own, bias("k", "d_K") \o bias("v", "d_V"))
       \o headNorm("q_norm", "d_Q") \o Only(own, headNorm("k_norm", "d_K"))
       \o BatchedRope(c, l, b.n, "d_Q") \o Only(own, BatchedRope(c, l, b.n, "d_K"))
BatchedAttention(c, l, b) ==
  Only(~Shared(c, l), <<Op("k_kv_scatter_batched",
         [r \in 1..b.n |-> Do(SlabOf(c, l), "kv", c.ctx,
            <<Row("d_K", r - 1), Row("d_V", r - 1), Row("d_pf_pos_batch", r - 1)>>)])>>)
    \o <<Op("k_prefill_flash",
         [r \in 1..b.n |-> Do(Row("d_Att", r - 1), "attn", AttnOf(c, l),
                              <<Row("d_Q", r - 1), Const(b.pos + r - 1)>>)])>>
BatchedFeedForward(c, l, b, key) ==
  LET gemm(kind, x, y) == prefill_gemm_dtype(c, l, kind, x, y, b, key)
  IN gemm("o", "d_Att", "d_Xn") \o BatchedResidual(c, b, <<"post_attn_norm", l>>)
       \o BatchedNorm(b, <<"ffn_norm", l>>, b.X, "d_Xn")
       \o gemm("gate", "d_Xn", "d_G") \o gemm("up", "d_Xn", "d_U")
       \o Batched("k_swiglu_apply", b.n, "d_H", "act", ActOf(c), <<"d_G", "d_U">>)
       \o gemm("down", "d_H", "d_Xn") \o BatchedResidual(c, b, <<"post_ffn_norm", l>>)

BatchedForward(c, h, b, toks) ==
  LET embeds[i \in 0..b.n] == IF i = b.n THEN <<>> ELSE EmbedInto(c, Row(b.X, i), toks[i + 1]) \o embeds[i + 1]
      positions == [i \in 1..b.n |->
                      Do(Row("d_pf_pos_batch", i - 1), "copy", "", <<Const(b.pos + i - 1)>>)]
      after[l \in 0..c.layers] ==
        IF l = 0 THEN Queue(h, <<Op("cudaMemcpy", positions)>> \o embeds[0])
        ELSE LET below == after[l - 1]
                 key == FpKey(c, l - 1, b.n, below.key, {"q", "k", "v"})
             IN [Queue(below, BatchedQkv(c, l - 1, b, below.key) \o BatchedAttention(c, l - 1, b)
                                \o BatchedFeedForward(c, l - 1, b, key))
                 EXCEPT !.key = key]
  IN [Queue(after[c.layers], LoadPos(b.pos + b.n)) EXCEPT !.pos = b.pos + b.n]

prefill_chunk(c, h, toks) ==
  LET n == Len(toks)
  IN Queue(BatchedForward(c, h, [n |-> n, pos |-> h.pos, dx |-> FALSE, X |-> "d_pf_X"], toks),
           <<Op("cudaMemcpyAsync", <<Do(X("d_x"), "copy", "", <<Row("d_pf_X", n - 1)>>)>>)>>)
prefill_batched_gemm_dx(c, h, toks) ==
  BatchedForward(c, h, [n |-> Len(toks), pos |-> h.pos, dx |-> TRUE, X |-> "d_x_batch"], toks)

(***************************************************************************)
(* The API calls.                                                          *)
(***************************************************************************)
FlushPending(c, h) ==
  IF c.graph /\ h.pending # -1 THEN [advance(c, h, h.pending) EXCEPT !.pending = -1] ELSE h
Mirrored(h) == Queue(h, LoadPos(h.pos))
Flush(c, h) == Mirrored(FlushPending(c, h))

(* 512, or 2048 with half-precision shadows: here 3 and 4.                 *)
CHUNK_SIZE(c) == IF cublas_fp16_wanted(c) THEN 4 ELSE 3
PrefillFlushed(c, h, toks) ==
  LET chunks == Ceil(Len(toks), CHUNK_SIZE(c))
      Chunk(i) == SubSeq(toks, (i - 1) * CHUNK_SIZE(c) + 1, Least(Len(toks), i * CHUNK_SIZE(c)))
      after[i \in 0..chunks] ==
        IF i = 0 THEN h
        ELSE IF Len(Chunk(i)) >= pf_minn(c) THEN prefill_chunk(c, after[i - 1], Chunk(i))
        ELSE AdvanceAll(c, after[i - 1], Chunk(i))
  IN IF Len(toks) >= pf_minn(c) /\ ~c.pl /\ ~c.softcap THEN after[chunks] ELSE AdvanceAll(c, h, toks)
qwen2_engine_prefill(c, h, toks) == PrefillFlushed(c, Flush(c, h), toks)

LogitsInto(c, x, xn, to) ==
  <<Op("k_rmsnorm", <<Do(xn, "rmsnorm", "out_norm", <<x>>)>>)>>
    \o Asked("tt_logits_dispatch", Product(c, "out", 1), <<Do(to, "gemv", "out", <<xn>>)>>)
compute_logits_into_d_logits(c) ==
  LogitsInto(c, X("d_x"), X("d_xn"), X("d_logits"))
    \o Only(c.softcap, k_softcap("d_logits"))

VerifyOneByOne(c, h, toks) ==
  LET after[i \in 0..Len(toks)] ==
        IF i = 0 THEN h
        ELSE Queue(advance(c, after[i - 1], toks[i]),
                   compute_logits_into_d_logits(c)
                     \o <<Op("cudaMemcpyAsync", <<Do(Row("out_logits", i - 1), "copy", "", <<X("d_logits")>>)>>)>>)
  IN after[Len(toks)]

VerifyBatched(c, h, toks) ==
  LET n == Len(toks)
      b4 == n = 4 /\ tt_logits_q4_0_batch4(Product(c, "out", 4)).rc = 0 /\ c.type.out = "q4_0"
      norms == [i \in 1..n |-> Op("k_rmsnorm",
                 <<Do(Row("d_xn_batch", i - 1), "rmsnorm", "out_norm", <<Row("d_x_batch", i - 1)>>)>>)]
      heads[i \in 0..n] ==
        IF i = n THEN <<>>
        ELSE Asked("tt_logits_dispatch", Product(c, "out", 1),
                   <<Do(Row("d_logits_batch", i), "gemv", "out", <<Row("d_xn_batch", i)>>)>>)
               \o heads[i + 1]
  IN Queue(prefill_batched_gemm_dx(c, h, toks),
           norms
             \o (IF b4 THEN Batched("k_logits_q4_0_batch4", n, "d_logits_batch", "scrambled", "", <<"d_xn_batch">>)
                 ELSE heads[0])
             \o Batched("cudaMemcpyAsync", n, "out_logits", "copy", "", <<"d_logits_batch">>))

VerifyFlushed(c, h, toks) ==
  IF "TT_SPEC_BATCH=2" \in c.env /\ Len(toks) >= 2 /\ c.gpu = c.layers /\ ~c.pl /\ ~c.softcap
  THEN VerifyBatched(c, h, toks) ELSE VerifyOneByOne(c, h, toks)
qwen2_engine_verify_speculative(c, h, toks) == VerifyFlushed(c, Flush(c, h), toks)

qwen2_engine(c) ==
  LET after[i \in 0..Len(c.script)] ==
        IF i = 0 THEN [pos |-> 0, pending |-> -1, key |-> <<>>, launches |-> <<>>]
        ELSE LET toks == c.script[i].toks
                 h == after[i - 1]
             IN CASE c.script[i].do = "prefill" -> qwen2_engine_prefill(c, h, toks)
                  [] c.script[i].do = "verify"  -> qwen2_engine_verify_speculative(c, h, toks)
                  [] c.script[i].do = "sampled" -> [h EXCEPT !.pending = toks[1]]
  IN [rc |-> 0, launches |-> after[Len(c.script)].launches]
=============================================================================
