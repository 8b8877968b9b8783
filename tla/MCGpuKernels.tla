---------------------------- MODULE MCGpuKernels -----------------------------
(* Every entry point, on the smallest shapes that reach every kernel, both *)
(* parities of a block, a lane's second block, a second CUDA block, partial*)
(* tiles on both sides, and every refusal.                                 *)
EXTENDS GpuKernels

Base == <<4096, 1048576, 2097152>>
Shape(op, fmt, M, K, N) ==
  [op |-> op, fmt |-> fmt, W |-> SubSeq(Base, 1, Len(M)), M |-> M, K |-> K, N |-> N,
   tok |-> 0, env |-> {}]
With(c, e) == [c EXCEPT !.env = {e}]

Gemvs ==
  {Shape("tt_gemv_q4_0_dispatch", "q4_0", <<M>>, 64, 1) : M \in {34, 128}}
  \cup {Shape("tt_gemv_q4_0_dispatch", "q4_0", <<2>>, 1088, 1),
        With(Shape("tt_gemv_q4_0_dispatch", "q4_0", <<128>>, 64, 1), "TT_Q4_DP"),
        Shape("tt_gemv_q4_0_r8", "q4_0", <<40>>, 64, 1),
        Shape("tt_gemv_q4_0_v4_res", "q4_0", <<128>>, 64, 1),
        Shape("tt_gemv_q4_1_v4_res", "q4_1", <<128>>, 96, 1),
        Shape("tt_ffn_q4_0", "q4_0", <<4, 4>>, 64, 1),
        Shape("tt_gemv_q4_0_qkv", "q4_0", <<24, 8, 4>>, 64, 1),
        Shape("rmsnorm_qkv", "q4_0", <<12, 6, 6>>, 64, 1),
        Shape("rmsnorm_qkv", "q8_0", <<12, 6, 6>>, 64, 1),
        Shape("tt_logits_q4_0_batch4", "q4_0", <<8>>, 64, 4)}
  \cup {Shape("tt_logits_dispatch", "q4_0", <<M>>, K, 1) : <<M, K>> \in {<<8, 64>>, <<6, 64>>, <<3, 96>>}}
  \cup {Shape("tt_logits_dispatch", "q8_0", <<M>>, 64, 1) : M \in {6, 8}}
  \cup {Shape("tt_logits_dispatch", "q6_K", <<3>>, 256, 1)}

Typed ==
  {Shape("tt_gemv_typed", f, <<3>>, 96, 1) : f \in {"q4_1", "q5_0", "q5_1", "q8_0"}}
  \cup {Shape("tt_gemv_typed", f, <<M>>, 512, 1) : f \in KQuants, M \in {1, 2}}
  \cup {Shape("tt_gemv_typed", f, <<M>>, K, 1) :
          f \in {"f16", "bf16", "f32"}, <<M, K>> \in {<<2, 136>>, <<3, 66>>}}
  \cup {Shape("tt_gemv_typed", "q5_K", <<2>>, 128, 1),
        Shape("tt_gemv_typed", "q4_0", <<2>>, 64, 1),
        With(Shape("tt_gemv_typed", "q4_0", <<32>>, 64, 1), "TT_USE_WMMA"),
        With(Shape("tt_gemv_typed", "q6_K", <<2>>, 256, 1), "TT_DISABLE_Q6_V2"),
        Shape("tt_gemv_typed", "q8_0", <<256>>, 64, 1)}

Embeds ==
  {[Shape("tt_embed_typed", f, <<3>>, IF f \in KQuants THEN 512 ELSE 288, 1) EXCEPT !.tok = 1]
     : f \in DOMAIN BlockBytes}
  \cup {Shape("tt_embed_typed", "q2_K", <<3>>, 128, 1)}

Batches ==
  {Shape("tt_gemv_q4_0_batch4", "q4_0", <<M>>, K, 4) : <<M, K>> \in {<<68, 64>>, <<4, 96>>}}
  \cup {Shape("tt_gemv_q8_0_batch4", "q8_0", <<M>>, 64, 4) : M \in {8, 6}}
  \cup {Shape("tt_gemv_q4_0_batch4_kt2", "q4_0", <<4>>, K, 4) : K \in {64, 128}}
  \cup {Shape("tt_gemv_q4_0_batchn", "q4_0", <<4>>, K, N) : <<K, N>> \in {<<64, 7>>, <<64, 1>>, <<96, 2>>}}
  \cup {Shape("tt_gemm_batched", f, <<9>>, K, N) :
          <<f, K, N>> \in {<<"q4_0", 64, 3>>, <<"q4_0", 64, 17>>, <<"q4_0", 80, 1>>, <<"q8_0", 64, 1>>}}
  \cup {Shape("tt_gemm_q4_0_prefill", "q4_0", <<M>>, 64, N) : <<M, N>> \in {<<66, 2>>, <<4, 33>>}}
  \cup {Shape("tt_gemm_q8_0_prefill", "q8_0", <<M>>, 64, N) : <<M, N>> \in {<<66, 2>>, <<4, 33>>}}
  \cup {Shape("tt_gemm_wmma_q4_0_prefill", "q4_0", <<M>>, 64, N) : <<M, N>> \in {<<144, 2>>, <<16, 33>>}}

(***************************************************************************)
(* Attention: slices and parts with nothing in them, a second tile, a      *)
(* window that starts inside a tile, prompts of several query tiles, and   *)
(* two K/V heads wherever the order of the slab matters.                   *)
(***************************************************************************)
Layer(op, fmt, H, KV, HD, pos, n, window) ==
  [op |-> op, fmt |-> fmt, quant |-> fmt # "f32", late |-> FALSE,
   W |-> <<65536, 4194304>> \o (IF fmt = "f32" THEN <<>> ELSE <<8388608, 12582912>>),
   H |-> H, KV |-> KV, HD |-> HD, cap |-> pos + n + 1, pos |-> pos, n |-> n,
   window |-> window, S |-> 3, env |-> {}]
Decoded(fmt, H, KV, HD, pos, window) == Layer("forward_layers", fmt, H, KV, HD, pos, 1, window)
Prompt(fmt, H, KV, HD, pos, n, window) == Layer("prefill_batched_gemm", fmt, H, KV, HD, pos, n, window)

Floating ==
  {Decoded("f32", 4, 2, 32, pos, 0) : pos \in {0, 7, 64}}
  \cup {Decoded("f32", 2, 1, 64, 20, 7), Decoded("f32", 2, 1, 128, 100, 2),
        Decoded("f32", 2, 1, 256, 70, 0), [Decoded("q8", 4, 2, 64, 3, 0) EXCEPT !.quant = FALSE]}
Quantised ==
  {Decoded("q8", 4, 2, 64, 5, 0), Decoded("q8", 8, 2, 128, 2, 0), Decoded("q8", 8, 8, 32, 257, 0),
   With(Decoded("q8", 4, 2, 64, 9, 0), "TT_NO_FUSED_ATTN"),
   With(Decoded("q8", 1, 1, 64, 257, 0), "TT_NO_FUSED_ATTN"),
   With(Decoded("q8", 2, 2, 64, 128, 0), "TT_NO_UNFUSED"), Decoded("q8", 2, 1, 128, 200, 3),
   Decoded("q4", 4, 2, 64, 5, 0), Decoded("q4", 2, 2, 32, 257, 0),
   With(Decoded("q4", 2, 2, 64, 128, 0), "TT_NO_FUSED_Q4"), Decoded("q4", 2, 1, 128, 200, 3),
   [Decoded("q8", 4, 2, 64, 20, 0) EXCEPT !.late = TRUE],
   [Decoded("q4", 4, 2, 64, 20, 0) EXCEPT !.late = TRUE],
   Layer("tt_flash_gqa_q8_0", "q8", 4, 2, 64, 9, 1, 4),
   Layer("tt_flash_gqa_q8_0", "q8", 2, 1, 128, 9, 1, 0), Layer("tt_flash_gqa", "f32", 4, 2, 64, 6, 1, 4),
   Layer("tt_flash_gqa_splitk", "q8", 4, 2, 64, 4, 1, 0), Layer("tt_flash_gqa_splitk", "q4", 4, 2, 64, 7, 1, 3)}
Prompts ==
  {Prompt("f32", 4, 2, 64, 0, 10, 4), Prompt("q4", 2, 1, 64, 60, 9, 0),
   With(Prompt("f32", 2, 2, 32, 33, 34, 0), "TT_FLASH_FP16"),
   With(Prompt("f32", 2, 1, 64, 0, 34, 5), "TT_FLASH_FP16"),
   With(Prompt("f32", 2, 1, 128, 0, 18, 0), "TT_FLASH_FP16"),
   With(Prompt("q8", 4, 2, 64, 60, 10, 0), "TT_Q8_PREFILL_FLASH"),
   With(Prompt("f32", 1, 1, 64, 0, 66, 0), "TT_FA2_PRE=0"),
   Prompt("f32", 4, 2, 64, 5, 66, 0), Prompt("f32", 2, 1, 64, 0, 66, 20),
   Prompt("f32", 2, 2, 128, 0, 66, 20), Prompt("f32", 9, 1, 64, 0, 66, 0),
   Prompt("f32", 2, 1, 256, 4, 3, 5)}

(***************************************************************************)
(* Whole prompts through two layers, as each family of models has them.    *)
(***************************************************************************)
Kinds == {"q", "k", "v", "o", "gate", "up", "down", "out", "embd", "inp_gate", "pl_proj", "pl_model_proj"}
Bare(fmt, dim) ==
  [op |-> "qwen2_engine", W |-> <<>>, env |-> {}, layers |-> 2, gpu |-> 2, dim |-> dim, hidden |-> dim,
   H |-> dim \div 32, KV |-> 1, HD |-> 32, ctx |-> 8, vocab |-> 8, pl_dim |-> 32,
   type |-> [k \in Kinds |-> fmt], bias |-> FALSE, qk_norm |-> FALSE, gptj |-> FALSE, gelu |-> FALSE,
   sandwich |-> FALSE, softcap |-> FALSE, embed_sqrt |-> FALSE, scale_one |-> FALSE, pl |-> FALSE,
   out_scale |-> FALSE, src |-> [l \in 0..1 |-> -1], window |-> [l \in 0..1 |-> 0],
   unshadowed |-> {}, graph |-> FALSE, script |-> <<>>]
Prompted(n) == [do |-> "prefill", toks |-> [i \in 1..n |-> i]]
More(n)     == [do |-> "prefill", toks |-> [i \in 1..n |-> 10 + i]]
Sampled     == [do |-> "sampled", toks |-> <<7>>]
Verify(n)   == [do |-> "verify", toks |-> [i \in 1..n |-> 20 + i]]
Plays(c, script)   == [c EXCEPT !.script = script]
Under(c, env)      == [c EXCEPT !.env = env]

Qwen(fmt, dim) == [Bare(fmt, dim) EXCEPT !.bias = TRUE, !.graph = TRUE]
Qwen3(fmt)     == [Bare(fmt, 64) EXCEPT !.qk_norm = TRUE]
Llama(fmt)     == [Bare(fmt, 128) EXCEPT !.gptj = TRUE]
Gemma2         == [Bare("q4_1", 128) EXCEPT !.gelu = TRUE, !.sandwich = TRUE, !.softcap = TRUE,
                                             !.embed_sqrt = TRUE, !.window = [l \in 0..1 |-> 2]]
Gemma4(fmt, shared) ==
  [Bare("q8_0", 64) EXCEPT !.pl = TRUE, !.gelu = TRUE, !.sandwich = TRUE, !.embed_sqrt = TRUE, !.qk_norm = TRUE,
     !.scale_one = TRUE, !.out_scale = TRUE, !.window = [l \in 0..1 |-> IF l = 0 THEN 2 ELSE 0],
     !.src = [l \in 0..1 |-> IF shared /\ l = 1 THEN 0 ELSE -1],
     !.type = [k \in Kinds |-> IF k \in {"inp_gate", "pl_proj"} THEN fmt ELSE "q8_0"]]

Decoding ==
  {Plays(Qwen("q4_0", 128), <<Prompted(1), Sampled, More(1)>>),
   Plays(Under(Qwen("q4_0", 64), {"TT_QKV4_OFF", "TT_NO_RESADD"}), <<Prompted(1), More(1)>>),
   Plays(Under(Llama("q8_0"), {"TT_NO_ROPEQK"}), <<Prompted(1), More(1)>>),
   Plays(Under(Qwen3("q8_0"), {"TT_NO_FUSE"}), <<Prompted(1), More(1)>>),
   Plays(Bare("q4_0", 96), <<Prompted(1), More(1)>>),
   Plays(Gemma2, <<Prompted(3)>>),
   Plays(Gemma4("f32", TRUE), <<Prompted(2)>>), Plays(Gemma4("q8_0", FALSE), <<Prompted(2)>>)}
  \cup {Plays([Bare("q4_0", 64) EXCEPT !.gpu = g], <<Prompted(1), More(1)>>) : g \in {0, 1}}
Chunked ==
  {Plays(Qwen("q4_0", 128), <<Prompted(4)>>),
   Plays(Qwen3("q8_0"), <<Prompted(3), Sampled>>),
   Plays(Llama("f32"), <<Prompted(2), More(1)>>),
   Plays(Bare("q4_0", 96), <<Prompted(3)>>),
   Plays([Gemma2 EXCEPT !.softcap = FALSE], <<Prompted(3)>>),
   Plays(Under(Bare("q4_0", 64), {"TT_PF_MINN=3"}), <<Prompted(2), More(3)>>),
   Plays(Under(Bare("q4_0", 64), {"TT_PF_BATCHN_N=0", "TT_CUBLAS_PRE"}), <<Prompted(2)>>),
   Plays([Under(Bare("q4_0", 64), {"TT_PF_BATCHN_N=0", "TT_CUBLAS_FP16"})
            EXCEPT !.unshadowed = {<<"q", 0>>, <<"v", 1>>}], <<Prompted(2), More(2)>>),
   Plays(Under(Bare("q4_0", 64), {"TT_PF_BATCHN_N=0", "TT_CUBLAS_FP16"}), <<Prompted(6)>>),
   Plays([Bare("q4_K", 256) EXCEPT !.type.v = "q6_K", !.type.down = "q6_K", !.type.out = "q6_K"], <<Prompted(2)>>)}
Verifying ==
  {Plays(Qwen("q4_0", 64), <<Prompted(1), Sampled, Verify(2)>>),
   Plays(Under(Qwen("q4_0", 64), {"TT_SPEC_BATCH=2"}), <<Prompted(1), Sampled, Verify(2)>>),
   Plays(Under(Qwen3("q8_0"), {"TT_SPEC_BATCH=2"}), <<Prompted(2), Verify(3)>>),
   Plays(Under(Gemma2, {"TT_SPEC_BATCH=2"}), <<Prompted(1), Verify(2)>>)}

MCFlow == Decoding \cup Chunked \cup Verifying
MCCalls == MCFlow \cup Gemvs \cup Typed \cup Embeds \cup Batches \cup Floating \cup Quantised \cup Prompts
=============================================================================
