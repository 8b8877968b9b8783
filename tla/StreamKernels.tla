---------------------------- MODULE StreamKernels ----------------------------
(***************************************************************************)
(* The matrix-vector kernels of kernels/gemv_q4_cuda.cu that stream a row  *)
(* as 32-bit words.  A warp owns R rows; its lanes share the blocks of a   *)
(* row; block payloads of q4_0 and q8_0 start two bytes into a block, so   *)
(* for every other block each word is put together from two aligned ones.  *)
(*                                                                         *)
(* An effect is what the threads of one CUDA block do between two barriers:*)
(* the bytes of weights they load, the cells of memory they put and get,   *)
(* and the products they add to each output <<matrix, column, row>>.  A    *)
(* product is <<lane, <<column, i>>, weight>>, x number i of that column   *)
(* times the weight.                                                       *)
(***************************************************************************)
EXTENDS QuantFormats, FiniteSets

Quiet == [loads |-> {}, put |-> {}, get |-> {}, mac |-> <<>>]

(* A cell nobody wrote holds garbage; staged zeros are Zero.               *)
Garbage == <<-1, -1>>
Zero    == <<-1, 0>>
At(mem, cell) == IF cell \in DOMAIN mem THEN mem[cell] ELSE Garbage

(* The residual enters the sum as one more product, by weight one.         *)
Residual(row) == <<0, <<-2, row>>, Scaled(<<>>, 0, -1)>>

(* for (b = lane; b < below; b += 32)                                      *)
LaneBlocks(below) == {p \in (0..31) \X (0..(below - 1)) : p[2] % 32 = p[1]}

Ceil(a, b) == (a + b - 1) \div b
Least(a, b) == IF a < b THEN a ELSE b

And2(n) == 2 * ((n \div 2) % 2)

(***************************************************************************)
(* Word k of block b: where its bytes start, which words are loaded for    *)
(* it, and the weights it yields with their places among the block's 32.   *)
(***************************************************************************)
Words(t) == IF t = "q8_0" THEN 0..7 ELSE 0..3

Shift(t, b) == IF t = "q4_1" THEN 0 ELSE And2(BlockBytes[t] * b + 2)
Payload(t, b) == IF t = "q4_1" THEN 5 * b + 1 ELSE (BlockBytes[t] * b + 2) \div 4
WordAt(t, row, b, k) == row + 4 * (Payload(t, b) + k) + Shift(t, b)
ScaleAt(t, row, b) == IF t = "q4_1" THEN row + 4 * (5 * b)
  ELSE row + 4 * ((BlockBytes[t] * b) \div 4) + And2(BlockBytes[t] * b)

StreamLoads_mergesAlways(t, row, nb) ==
  {<<row + 4 * ((BlockBytes[t] * b) \div 4), 4>> : b \in 0..(nb - 1)}
    \cup {<<row + 4 * (Payload(t, b) + k + d), 4>> :
            b \in 0..(nb - 1), k \in Words(t), d \in {0, 1}}
StreamLoads(t, row, nb) ==
  {<<row + 4 * ((BlockBytes[t] * b) \div 4), 4>> : b \in 0..(nb - 1)}
    \cup {<<row + 4 * (Payload(t, b) + k), 4>> : b \in 0..(nb - 1), k \in Words(t)}
    \cup {<<row + 4 * (Payload(t, b) + k + 1), 4>> :
            b \in {c \in 0..(nb - 1) : Shift(t, c) # 0}, k \in Words(t)}

Nibble_adjacent(k, n) == 8 * k + n
Nibble(k, n) == 4 * k + n \div 2 + (IF n % 2 = 0 THEN 0 ELSE 16)

WordWeights(t, word, scale, k) ==
  CASE t = "q4_0" -> {<<Nibble(k, n), Scaled(<<Bits(word, 4 * n, 4)>>, 8, scale)>> : n \in 0..7}
    [] t = "q4_1" -> {<<Nibble(k, n), Weight(<<Bits(word, 4 * n, 4)>>, 0, <<>>, scale,
                                              <<>>, scale + 2)>> : n \in 0..7}
    [] t = "q8_0" -> {<<4 * k + n, Scaled(<<Bits(word, 8 * n, 8)>>, 0, scale)>> : n \in 0..3}

Dot(t, row, nb, X(_)) ==
  UNION {UNION {{<<p[1], X(32 * p[2] + e[1]), e[2]>> :
                   e \in WordWeights(t, WordAt(t, row, p[2], k), ScaleAt(t, row, p[2]), k)}
                : k \in Words(t)} : p \in LaneBlocks(nb)}

(***************************************************************************)
(* R rows per warp, one lane 0 storing what the warp summed.  Rows past M  *)
(* are read but not stored.                                                *)
(***************************************************************************)
FirstRows(l, blk, R) ==
  {r \in {(blk * l.warps + w) * R : w \in 0..(l.warps - 1)} : r < l.M[1]}
RowsFrom(first, R) == {r + i : r \in first, i \in 0..(R - 1)}
RowAt(l, m, r) == l.W[m] + r * RowBytes(l.fmt, l.K)

StreamRows(l, blk, R, columns, X(_, _)) ==
  LET rows == RowsFrom(FirstRows(l, blk, R), R)
      nb == l.K \div 32
  IN [Quiet EXCEPT
        !.loads = UNION {StreamLoads(l.fmt, RowAt(l, m, r), nb) : m \in DOMAIN l.W, r \in rows},
        !.mac = [y \in (DOMAIN l.W) \X columns \X {r \in rows : r < l.M[1]} |->
                   Dot(l.fmt, RowAt(l, y[1], y[3]), nb, LAMBDA i : X(y[2], i))
                     \cup (IF l.res THEN {Residual(y[3])} ELSE {})]]

XGlobal(c, i) == <<c, i>>

k_gemv_q4_0(l, blk)         == StreamRows(l, blk, 2, {0}, XGlobal)
k_fused_swiglu_q4_0(l, blk) == StreamRows(l, blk, 2, {0}, XGlobal)
k_logits_q4_0_v2(l, blk)    == StreamRows(l, blk, 2, {0}, XGlobal)
k_logits_q4_0_v4(l, blk)    == StreamRows(l, blk, 4, {0}, XGlobal)
k_gemv_q4_0_v4(l, blk)      == StreamRows(l, blk, 4, {0}, XGlobal)
k_gemv_q4_0_r8(l, blk)      == StreamRows(l, blk, 8, {0}, XGlobal)
k_logits_q8_0(l, blk)       == StreamRows(l, blk, 1, {0}, XGlobal)
k_logits_q8_0_v4(l, blk)    == StreamRows(l, blk, 4, {0}, XGlobal)
k_gemv_q8_0(l, blk)         == StreamRows(l, blk, 2, {0}, XGlobal)
k_gemv_q4_1_v4(l, blk)      == StreamRows(l, blk, 4, {0}, XGlobal)
(* Registers hold N sums per row; the columns follow column l.col0.        *)
k_gemv_q4_0_batchn(l, blk) ==
  StreamRows(l, blk, 4, l.col0..(l.col0 + l.N - 1), XGlobal)
(* One row per warp, block by block through the struct.                    *)
k_logits_q4_0(l, blk) ==
  LET rows == FirstRows(l, blk, 1)
      block(r, b) == RowAt(l, 1, r) + 18 * b
  IN [Quiet EXCEPT
        !.loads = UNION {{<<block(r, b), 2>>} \cup {<<block(r, b) + 2 + i, 1>> : i \in 0..15}
                           : r \in rows, b \in 0..(l.K \div 32 - 1)},
        !.mac = [y \in {1} \X {0} \X rows |->
          UNION {UNION {
            {<<p[1], XGlobal(0, 32 * p[2] + i),
               Scaled(<<Low(block(y[3], p[2]) + 2 + i)>>, 8, block(y[3], p[2]))>>,
             <<p[1], XGlobal(0, 32 * p[2] + i + 16),
               Scaled(<<High(block(y[3], p[2]) + 2 + i)>>, 8, block(y[3], p[2]))>>}
            : i \in 0..15} : p \in LaneBlocks(l.K \div 32)}]]

(* Three matrices of different heights in one launch: the warps are dealt  *)
(* out over them, R rows each.                                             *)
QkvRows(l, blk, R, X(_)) ==
  LET n(m) == l.M[m] \div R
      warps == {blk * l.warps + w : w \in 0..(l.warps - 1)}
      mine == [m \in 1..3 |-> {w - (IF m > 1 THEN n(1) ELSE 0) - (IF m > 2 THEN n(2) ELSE 0)
                                  : w \in warps} \cap 0..(n(m) - 1)]
      out == UNION {{<<m, 0, R * w + i>> : w \in mine[m], i \in 0..(R - 1)} : m \in 1..3}
      nb == l.K \div 32
  IN [Quiet EXCEPT
        !.loads = UNION {StreamLoads(l.fmt, RowAt(l, y[1], y[3]), nb) : y \in out},
        !.mac = [y \in out |-> Dot(l.fmt, RowAt(l, y[1], y[3]), nb, X)]]
k_gemv_q4_0_qkv(l, blk) == QkvRows(l, blk, 4, LAMBDA i : XGlobal(0, i))

(* Every block normalises all of x for itself, and leaves it in d_xn too.  *)
NormThenQkv(l, blk, step, mem) ==
  LET D == 0..(l.K - 1)
  IN IF step = 0
     THEN [Quiet EXCEPT !.put = {<<<<where, i>>, <<0, i>>>> : where \in {"sx", "xn"}, i \in D}]
     ELSE [QkvRows(l, blk, 2, LAMBDA i : At(mem, <<"sx", i>>))
             EXCEPT !.get = {<<"sx", i>> : i \in D}]
k_rmsnorm_qkv_q4_0(l, blk, step, mem) == NormThenQkv(l, blk, step, mem)
k_rmsnorm_qkv_q8_0(l, blk, step, mem) == NormThenQkv(l, blk, step, mem)

(***************************************************************************)
(* x in eight bits: a thread per block of 32 gives the quants, their scale *)
(* and their sum; the dot products are taken on the quants, the offset 8   *)
(* of the nibbles being taken off as 8 times the sum of the block.         *)
(***************************************************************************)
k_q4dp_quant_x(l, blk) ==
  LET mine == {b \in (256 * blk)..(256 * blk + 255) : b < l.K \div 32}
  IN [Quiet EXCEPT
        !.put = {<<<<"xs", b>>, <<0, b>>>> : b \in mine}
          \cup {<<<<"xsum", b>>, <<0, b>>>> : b \in mine}
          \cup {<<<<"xq", b, i>>, <<0, 32 * b + i>>>> : b \in mine, i \in 0..31}]

k_gemv_q4_0_dp(l, blk, mem) ==
  LET quant(c, i) == LET b == i \div 32 IN
        IF At(mem, <<"xs", b>>) = <<0, b>> /\ At(mem, <<"xsum", b>>) = <<0, b>>
        THEN At(mem, <<"xq", b, i % 32>>) ELSE Garbage
  IN [StreamRows(l, blk, 4, {0}, quant) EXCEPT
        !.get = {<<a, b>> : a \in {"xs", "xsum"}, b \in 0..(l.K \div 32 - 1)}
          \cup {<<"xq", b, i>> : b \in 0..(l.K \div 32 - 1), i \in 0..31}]

(***************************************************************************)
(* Four columns at once, their x staged in shared memory by float4s: cell  *)
(* <<"sx", j>> holds the four floats from the named one on.                *)
(***************************************************************************)
Four(v, n) == IF v[1] < 0 THEN v ELSE <<v[1], v[2] + n>>
Staged(mem, j) == Four(At(mem, <<"sx", j \div 4>>), j % 4)

(* Every warp copies all of X before the barrier; only then do the warps   *)
(* beyond the last row leave.                                              *)
StageAll(l) ==
  [Quiet EXCEPT !.put = {<<<<"sx", i>>, <<(4 * i) \div l.K, (4 * i) % l.K>>>> : i \in 0..(l.K - 1)}]
Batch4_unsynced(l, blk, step, mem) ==
  [StreamRows(l, blk, 4, 0..3, LAMBDA c, i : Staged(mem, c * l.K + i))
     EXCEPT !.put = StageAll(l).put, !.get = {<<"sx", i>> : i \in 0..(l.K - 1)}]
Batch4(l, blk, step, mem) ==
  IF step = 0 THEN StageAll(l)
  ELSE [StreamRows(l, blk, 4, 0..3, LAMBDA c, i : Staged(mem, c * l.K + i))
          EXCEPT !.get = {<<"sx", i>> : i \in 0..(l.K - 1)}]

k_gemv_q4_0_batch4(l, blk, step, mem) == Batch4(l, blk, step, mem)
k_gemv_q8_0_batch4(l, blk, step, mem) == Batch4(l, blk, step, mem)

(* The LM head's version: warps beyond the last row leave before copying   *)
(* their share, and the copy is read as if it held block 0 only.           *)
k_logits_q4_0_batch4(l, blk, step, mem) ==
  IF step = 0
  THEN LET here == {w \in 0..(l.warps - 1) : (blk * l.warps + w) * 4 < l.M[1]}
       IN [StageAll(l) EXCEPT !.put = {p \in @ : (p[1][2] % (32 * l.warps)) \div 32 \in here}]
  ELSE [StreamRows(l, blk, 4, 0..3, LAMBDA c, i : Staged(mem, c * l.K + (i % 32)))
          EXCEPT !.get = {<<"sx", i>> : i \in 0..(l.K - 1)}]

(* X staged half a row at a time, cell by cell: steps 0 and 2 copy, 1 and 3 *)
(* take the products of the blocks of that half (which starts on a word, K  *)
(* being a multiple of 128).                                               *)
k_gemv_q4_0_batch4_kt2(l, blk, step, mem) ==
  LET KT == l.K \div 2   nb2 == (l.K \div 32) \div 2   t == step \div 2
  IN IF step % 2 = 0
     THEN [Quiet EXCEPT !.put = {<<<<"sx", i>>, <<i \div KT, t * KT + (i % KT)>>>>
                                   : i \in 0..(4 * KT - 1)}]
     ELSE LET half == [l EXCEPT !.W = <<l.W[1] + 18 * t * nb2>>]
              rows == RowsFrom(FirstRows(l, blk, 4), 4)
          IN [Quiet EXCEPT
                !.get = {<<"sx", i>> : i \in 0..(4 * KT - 1)},
                !.loads = UNION {StreamLoads("q4_0", RowAt(half, 1, r), nb2) : r \in rows},
                !.mac = [y \in {1} \X (0..3) \X {r \in rows : r < l.M[1]} |->
                           Dot("q4_0", RowAt(half, 1, y[3]), nb2,
                               LAMBDA i : At(mem, <<"sx", y[2] * KT + i>>))]]

(* A row of the embedding: a thread writes out one block.                  *)
Unit == <<-3, 0>>
k_embed_q4_0(l, blk) ==
  LET mine == {b \in (256 * blk)..(256 * blk + 255) : b < l.K \div 32}
      block(b) == l.W[1] + (l.tok * (l.K \div 32) + b) * 18
      value(b, i) == IF i < 16 THEN Low(block(b) + 2 + i) ELSE High(block(b) + 2 + i - 16)
  IN [Quiet EXCEPT
        !.loads = UNION {{<<block(b), 2>>} \cup {<<block(b) + 2 + i, 1>> : i \in 0..15} : b \in mine},
        !.mac = [y \in {<<1, 0, 32 * b + i>> : b \in mine, i \in 0..31} |->
                   {<<b, Unit, Scaled(<<value(b, y[3] - 32 * b)>>, 8, block(b))>>
                      : b \in {c \in mine : y[3] \in (32 * c)..(32 * c + 31)}}]]
=============================================================================
