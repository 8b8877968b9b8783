------------------------------ MODULE MatLaunch ------------------------------
(***************************************************************************)
(* The entry points of the matrix kernels: which kernels a call launches,  *)
(* with how many blocks and warps, or why it is refused.                   *)
(*                                                                         *)
(* A call is [op, fmt, W, M, K, N, tok, env]: W and M give each matrix's   *)
(* address and rows, N the columns of x, env the environment variables set.*)
(***************************************************************************)
EXTENDS TileKernels, TypedKernels

Refuse(code) == [rc |-> code, launches |-> <<>>]
Launch(c, kernel, warps, blocks) ==
  [kernel |-> kernel, fmt |-> c.fmt, W |-> c.W, M |-> c.M, K |-> c.K, N |-> c.N,
   tok |-> c.tok, res |-> FALSE, col0 |-> 0, warps |-> warps, grid |-> <<blocks, 1>>]
Run(l) == [rc |-> 0, launches |-> <<l>>]
Rows(c) == c.M[1]
EvenBlocks(c) == c.K % 32 = 0 /\ (c.K \div 32) % 2 = 0

(* The grids of one, two and four rows per warp.                           *)
gemv_dims(c, kernel)  == Run(Launch(c, kernel, 16, Ceil(Rows(c), 16)))
gemv_dims2(c, kernel) == Run(Launch(c, kernel, 16, Ceil(Rows(c), 32)))
v4_dims(c, kernel)    == Run(Launch(c, kernel, 8, Ceil(Rows(c), 32)))

tt_gemv_wmma_q4_0(c) == IF Rows(c) <= 0 \/ c.K <= 0 \/ c.K % 16 # 0 THEN Refuse(-50)
                        ELSE Run(Launch(c, "k_gemv_wmma_q4_0", 1, Ceil(Rows(c), 16)))
tt_gemv_q4_0(c)      == gemv_dims2(c, "k_gemv_q4_0")
tt_gemv_q8_0(c)      == gemv_dims2(c, "k_gemv_q8_0")
tt_ffn_q4_0(c)       == gemv_dims2(c, "k_fused_swiglu_q4_0")
tt_gemv_q4_0_r8(c)   == Run(Launch(c, "k_gemv_q4_0_r8", 4, Ceil(Rows(c), 32)))
tt_gemv_q4_0_qkv(c)  ==
  LET warps == c.M[1] \div 4 + c.M[2] \div 4 + c.M[3] \div 4
  IN Run(Launch(c, "k_gemv_q4_0_qkv", 8, (warps + 7) \div 8))

NormQkvKernel == [q4_0 |-> "k_rmsnorm_qkv_q4_0", q8_0 |-> "k_rmsnorm_qkv_q8_0"]
rmsnorm_qkv(c)       ==
  LET npair == c.M[1] \div 2 + c.M[2] \div 2 + c.M[3] \div 2
  IN Run(Launch(c, NormQkvKernel[c.fmt], 8, (npair + 7) \div 8))

(* The residual versions are called where the _ok predicate holds.         *)
tt_gemv_q4_0_v4_ok(c) == EvenBlocks(c) /\ Rows(c) % 4 = 0 /\ Rows(c) >= 128
tt_gemv_q4_1_v4_ok(c) == c.K % 32 = 0 /\ Rows(c) % 4 = 0 /\ Rows(c) >= 128
WithResidual(r) == [r EXCEPT !.launches[1].res = TRUE]
tt_gemv_q4_0_v4_res(c) == WithResidual(v4_dims(c, "k_gemv_q4_0_v4"))
tt_gemv_q4_1_v4_res(c) == WithResidual(v4_dims(c, "k_gemv_q4_1_v4"))

tt_gemv_q4_0_dispatch(c) ==
  IF ~tt_gemv_q4_0_v4_ok(c) THEN gemv_dims2(c, "k_gemv_q4_0")
  ELSE IF "TT_Q4_DP" \notin c.env THEN v4_dims(c, "k_gemv_q4_0_v4")
  ELSE [rc |-> 0, launches |->
          <<Launch(c, "k_q4dp_quant_x", 8, Ceil(c.K \div 32, 256)),
            Launch(c, "k_gemv_q4_0_dp", 8, Ceil(Rows(c), 32))>>]

(* Four candidates at once.                                                *)
Batch4Dims(c, kernel, ok) ==
  IF ok /\ Rows(c) > 0 /\ Rows(c) % 4 = 0 THEN Run(Launch(c, kernel, 16, Ceil(Rows(c), 64)))
  ELSE Refuse(-1)
tt_gemv_q4_0_batch4(c)   == Batch4Dims(c, "k_gemv_q4_0_batch4", EvenBlocks(c))
tt_gemv_q8_0_batch4(c)   == Batch4Dims(c, "k_gemv_q8_0_batch4", EvenBlocks(c))
tt_logits_q4_0_batch4(c) == Batch4Dims(c, "k_logits_q4_0_batch4", EvenBlocks(c))
tt_gemv_q4_0_batch4_kt2(c) == Batch4Dims(c, "k_gemv_q4_0_batch4_kt2", c.K % 128 = 0)

(* Any number of columns, four, two or one per launch.                     *)
tt_gemv_q4_0_batchn(c) ==
  LET chunks[done \in 0..c.N] ==
        IF done = c.N THEN <<>>
        ELSE LET rem == c.N - done
                 nr == IF rem >= 4 THEN 4 ELSE IF rem = 3 THEN 2 ELSE rem
             IN <<[Launch(c, "k_gemv_q4_0_batchn", 8, (Rows(c) + 31) \div 32)
                     EXCEPT !.N = nr, !.col0 = done]>> \o chunks[done + nr]
  IN IF c.N <= 0 \/ ~EvenBlocks(c) \/ Rows(c) % 4 # 0 \/ Rows(c) <= 0 THEN Refuse(-1)
     ELSE [rc |-> 0, launches |-> chunks[0]]

(* The prefill products: a block per tile of rows and 32 tokens.           *)
PrefillDims(c, kernel, rows) ==
  Run([Launch(c, kernel, 8, 0) EXCEPT !.grid = <<Ceil(Rows(c), rows), Ceil(c.N, 32)>>])
tt_gemm_q4_0_prefill(c)      == PrefillDims(c, "k_gemm_q4_0_prefill", 64)
tt_gemm_q8_0_prefill(c)      == PrefillDims(c, "k_gemm_q8_0_prefill", 64)
tt_gemm_wmma_q4_0_prefill(c) == PrefillDims(c, "k_gemm_wmma_q4_0_prefill", 128)
tt_gemm_batched(c) ==
  CASE Rows(c) <= 0 \/ c.N <= 0 \/ c.N > 16 -> Refuse(-50)
    [] Rows(c) > 0 /\ c.N \in 1..16 /\ c.fmt # "q4_0" -> Refuse(-100)
    [] Rows(c) > 0 /\ c.N \in 1..16 /\ c.fmt = "q4_0" ->
         IF c.K <= 0 \/ c.K % 32 # 0 THEN Refuse(-101)
         ELSE Run([Launch(c, "k_gemm_batched_q4_0", 8, 0)
                     EXCEPT !.grid = <<Ceil(Rows(c), 8), Ceil(c.N, 16)>>])

(* One x, any format.                                                      *)
KQuants == {"q2_K", "q3_K", "q4_K", "q5_K", "q6_K"}
kquant_aligned(c) == c.fmt \in KQuants => c.K % 256 = 0
tt_gemv_typed(c) ==
  CASE c.fmt = "q4_0" ->
         IF "TT_USE_WMMA" \in c.env /\ Rows(c) >= 16 /\ c.K % 16 = 0
         THEN tt_gemv_wmma_q4_0(c) ELSE tt_gemv_q4_0(c)
    [] c.fmt = "q4_1" -> gemv_dims(c, "k_gemv_q4_1")
    [] c.fmt = "q5_0" -> gemv_dims(c, "k_gemv_q5_0")
    [] c.fmt = "q5_1" -> gemv_dims(c, "k_gemv_q5_1")
    [] c.fmt = "q8_0" -> IF EvenBlocks(c) /\ Rows(c) >= 256 THEN tt_gemv_q8_0(c)
                         ELSE gemv_dims(c, "k_gemv_q8_0_scalar")
    [] ~kquant_aligned(c) -> Refuse(-101)
    [] c.fmt = "q2_K" /\ c.K % 256 = 0 ->
         IF Rows(c) >= 2 THEN gemv_dims2(c, "k_gemv_q2_K_v2") ELSE gemv_dims(c, "k_gemv_q2_K")
    [] c.fmt = "q3_K" /\ c.K % 256 = 0 ->
         IF Rows(c) >= 2 THEN gemv_dims2(c, "k_gemv_q3_K_v2") ELSE gemv_dims(c, "k_gemv_q3_K")
    [] c.fmt = "q4_K" /\ c.K % 256 = 0 ->
         IF Rows(c) >= 2 THEN gemv_dims2(c, "k_gemv_q4_K_v2") ELSE gemv_dims(c, "k_gemv_q4_K")
    [] c.fmt = "q5_K" /\ c.K % 256 = 0 ->
         IF Rows(c) >= 2 THEN gemv_dims2(c, "k_gemv_q5_K_v2") ELSE gemv_dims(c, "k_gemv_q5_K")
    [] c.fmt = "q6_K" /\ c.K % 256 = 0 ->
         IF Rows(c) >= 2 /\ Rows(c) % 2 = 0 /\ "TT_DISABLE_Q6_V2" \notin c.env
         THEN gemv_dims2(c, "k_gemv_q6_K_v2") ELSE gemv_dims(c, "k_gemv_q6_K")
    [] c.fmt = "f16" -> IF Rows(c) >= 2 /\ c.K % 4 = 0 THEN gemv_dims2(c, "k_gemv_f16")
                        ELSE gemv_dims(c, "k_gemv_f16_scalar")
    [] c.fmt = "bf16" -> IF Rows(c) >= 2 /\ c.K % 4 = 0 THEN gemv_dims2(c, "k_gemv_bf16_v2")
                         ELSE gemv_dims(c, "k_gemv_bf16")
    [] c.fmt = "f32" -> gemv_dims(c, "k_gemv_f32")

(* The LM head.                                                            *)
tt_logits_dispatch(c) ==
  CASE c.fmt \notin {"q4_0", "q8_0"} -> tt_gemv_typed(c)
    [] c.fmt = "q8_0" ->
         IF Rows(c) % 4 = 0 /\ c.K % 32 = 0
         THEN Run(Launch(c, "k_logits_q8_0_v4", 1, Ceil(Rows(c), 4)))
         ELSE Run(Launch(c, "k_logits_q8_0", 1, Rows(c)))
    [] c.fmt = "q4_0" ->
         IF EvenBlocks(c) /\ Rows(c) % 4 = 0 THEN v4_dims(c, "k_logits_q4_0_v4")
         ELSE IF EvenBlocks(c) THEN gemv_dims2(c, "k_logits_q4_0_v2")
         ELSE gemv_dims(c, "k_logits_q4_0")

(* The embedding row of a token: 256 threads a block, one unit each.       *)
EmbedUnit == [q2_K |-> 16, q3_K |-> 16, q4_K |-> 32, q5_K |-> 32, q6_K |-> 32,
              q4_0 |-> 32, q4_1 |-> 32, q5_0 |-> 32, q5_1 |-> 32, q8_0 |-> 32,
              f16 |-> 1, bf16 |-> 1, f32 |-> 1]
EmbedKernel == [q2_K |-> "k_embed_q2_K", q3_K |-> "k_embed_q3_K", q4_K |-> "k_embed_q4_K",
                q5_K |-> "k_embed_q5_K", q6_K |-> "k_embed_q6_K", q4_0 |-> "k_embed_q4_0",
                q4_1 |-> "k_embed_q4_1", q5_0 |-> "k_embed_q5_0", q5_1 |-> "k_embed_q5_1",
                q8_0 |-> "k_embed_q8_0", f16 |-> "k_embed_f16", bf16 |-> "k_embed_bf16",
                f32 |-> "k_embed_f32"]
tt_embed_typed(c) ==
  IF ~kquant_aligned(c) THEN Refuse(-101)
  ELSE Run(Launch(c, EmbedKernel[c.fmt], 8, Ceil(c.K \div EmbedUnit[c.fmt], 256)))
=============================================================================
