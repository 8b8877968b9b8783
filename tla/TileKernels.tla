----------------------------- MODULE TileKernels -----------------------------
(***************************************************************************)
(* The tiled matrix-matrix kernels of kernels/gemv_q4_cuda.cu: per tile of *)
(* 32 (or 16) along K the threads of a block stage x and weights in shared *)
(* memory, meet at a barrier, and accumulate from there.  Even steps stage *)
(* tile number step \div 2, odd ones use it.                               *)
(***************************************************************************)
EXTENDS StreamKernels

BlockX(l, blk) == blk % l.grid[1]
BlockY(l, blk) == blk \div l.grid[1]

(* x tile: 256 threads, a float4 each; tokens past N are staged as zero.   *)
StageX(l, blk, t) ==
  {<<<<"sX", n, kv>>, IF BlockY(l, blk) * 32 + n < l.N
                      THEN <<BlockY(l, blk) * 32 + n, 32 * t + 4 * kv>> ELSE Zero>>
     : n \in 0..31, kv \in 0..7}
XTile(mem, n, i) == Four(At(mem, <<"sX", n, i \div 4>>), i % 4)

(* 64 threads stage a row each: block t, as its scale and payload words.   *)
TileRows(l, blk, size) ==
  {r \in 0..(size - 1) : BlockX(l, blk) * size + r < l.M[1]}
TileOutputs(l, blk, size) ==
  {1} \X {c \in (BlockY(l, blk) * 32)..(BlockY(l, blk) * 32 + 31) : c < l.N}
      \X {BlockX(l, blk) * size + r : r \in TileRows(l, blk, size)}

StageW(l, blk, rows, words, wordAt(_, _), scaleAt(_)) ==
  {<<<<"sW_d", r>>, <<IF r \in rows THEN scaleAt(r) ELSE -1>>>> : r \in 0..63}
    \cup {<<<<"sW_v", r, k>>, <<IF r \in rows THEN wordAt(r, k) ELSE -1>>>>
            : r \in 0..63, k \in words}

(* Four rows and two tokens per thread, from the staged words.             *)
UseTile(l, blk, t, mem) ==
  [Quiet EXCEPT
     !.get = {<<"sX", n, kv>> : n \in 0..31, kv \in 0..7}
       \cup {<<"sW_d", r>> : r \in 0..63} \cup {<<"sW_v", r, k>> : r \in 0..63, k \in Words(l.fmt)},
     !.mac = [y \in TileOutputs(l, blk, 64) |->
       LET r == y[3] - BlockX(l, blk) * 64   n == y[2] - BlockY(l, blk) * 32
           scale == At(mem, <<"sW_d", r>>)[1]
       IN UNION {{<<t, XTile(mem, n, e[1]), e[2]>> :
                    e \in WordWeights(l.fmt, At(mem, <<"sW_v", r, k>>)[1], scale, k)}
                 : k \in Words(l.fmt)}]]

k_gemm_q4_0_prefill(l, blk, step, mem) ==
  LET t == step \div 2   rows == TileRows(l, blk, 64)
      row(r) == RowAt(l, 1, BlockX(l, blk) * 64 + r)
      next(k) == IF Shift("q4_0", t) # 0
                 THEN {<<row(r) + 4 * (Payload("q4_0", t) + k + 1), 4>> : r \in rows} ELSE {}
  IN IF step % 2 = 1 THEN UseTile(l, blk, t, mem)
     ELSE [Quiet EXCEPT
       !.loads = {<<row(r) + 4 * ((18 * t) \div 4), 4>> : r \in rows}
         \cup {<<row(r) + 4 * (Payload("q4_0", t) + k), 4>> : r \in rows, k \in 0..3}
         \cup UNION {next(k) : k \in 0..3},
       !.put = StageX(l, blk, t) \cup
         StageW(l, blk, rows, 0..3, LAMBDA r, k : WordAt("q4_0", row(r), t, k),
                LAMBDA r : ScaleAt("q4_0", row(r), t))]

(* q8_0 is copied byte by byte, so nothing has to be aligned.              *)
k_gemm_q8_0_prefill(l, blk, step, mem) ==
  LET t == step \div 2   rows == TileRows(l, blk, 64)
      block(r) == RowAt(l, 1, BlockX(l, blk) * 64 + r) + 34 * t
  IN IF step % 2 = 1 THEN UseTile(l, blk, t, mem)
     ELSE [Quiet EXCEPT
       !.loads = {<<block(r), 2>> : r \in rows}
         \cup {<<block(r) + 2 + j, 1>> : r \in rows, j \in 0..31},
       !.put = StageX(l, blk, t) \cup
         StageW(l, blk, rows, 0..7, LAMBDA r, k : block(r) + 2 + 4 * k, LAMBDA r : block(r))]

(***************************************************************************)
(* Tensor cores.  A warp multiplies 16 x 16 fragments; a staged half row   *)
(* <<"s_W", row, half>> stands for its 16 dequantised weights.             *)
(***************************************************************************)
HalfRow(b, h, j) == Scaled(<<IF h = 0 THEN Low(b + 2 + j) ELSE High(b + 2 + j)>>, 8, b)

(* What the 8 warps of a 128 x 32 tile store: whole fragments where the    *)
(* warp's 16 tokens are all there, single floats otherwise.                *)
WmmaStored(l, blk) ==
  LET m0 == BlockX(l, blk) * 128   n0 == BlockY(l, blk) * 32
      whole(n) == n0 + 16 * n + 15 < l.N
      fragments == {<<n, m>> \in (0..1) \X (0..7) : whole(n) /\ m0 + 16 * m + 15 < l.M[1]}
      (* The second fragment of a warp is stored within the test of the first. *)
      alone == {<<n, m>> \in (0..1) \X (0..7) : ~whole(n)}
  IN UNION {{<<1, n0 + 16 * f[1] + i, m0 + 16 * f[2] + j>> : i \in 0..15, j \in 0..15}
              : f \in fragments}
     \cup {y \in UNION {{<<1, n0 + 16 * f[1] + i, m0 + 16 * f[2] + j>> : i \in 0..15, j \in 0..15}
                          : f \in alone} : y[2] < l.N /\ y[3] < l.M[1]}

k_gemm_wmma_q4_0_prefill(l, blk, step, mem) ==
  LET t == step \div 2   rows == TileRows(l, blk, 128)
      m0 == BlockX(l, blk) * 128   n0 == BlockY(l, blk) * 32
      block(r) == RowAt(l, 1, m0 + r) + 18 * t
  IN IF step % 2 = 0
     THEN [Quiet EXCEPT
       !.loads = {<<block(r), 2>> : r \in rows}
         \cup {<<block(r) + 2 + j, 1>> : r \in rows, j \in 0..15},
       !.put = StageX(l, blk, t)
         \cup {<<<<"s_W", r, h>>, <<IF r \in rows THEN block(r) ELSE -1, h>>>>
                 : r \in 0..127, h \in 0..1}]
     ELSE [Quiet EXCEPT
       !.get = {<<"sX", n, kv>> : n \in 0..31, kv \in 0..7}
         \cup {<<"s_W", r, h>> : r \in 0..127, h \in 0..1},
       !.mac = [y \in WmmaStored(l, blk) |->
         LET cell(h) == At(mem, <<"s_W", y[3] - m0, h>>)
         IN {<<t, XTile(mem, y[2] - n0, 16 * h + j), HalfRow(cell(h)[1], cell(h)[2], j)>>
               : h \in 0..1, j \in 0..15}]]

(* One warp, 16 rows, one column repeated 16 times.  Step 0 stages x; then *)
(* three steps per tile of 16 stage the weights, the column, and multiply. *)
k_gemv_wmma_q4_0(l, blk, step, mem) ==
  LET t == (step - 1) \div 3   k0 == 16 * t   row0 == 16 * blk
      block(r) == RowAt(l, 1, row0 + r) + 18 * (k0 \div 32)
  IN CASE step = 0 -> [Quiet EXCEPT !.put = {<<<<"sx", i>>, <<0, i>>>> : i \in 0..(l.K - 1)}]
       [] step > 0 /\ step % 3 = 1 -> [Quiet EXCEPT
            !.loads = {<<block(r), 2>> : r \in 0..15}
              \cup {<<block(r) + 2 + i, 1>> : r \in 0..15, i \in 0..15},
            !.put = {<<<<"sW", r, j>>, <<block(r), (k0 + j) % 32>>>> : r \in 0..15, j \in 0..15}]
       [] step > 0 /\ step % 3 = 2 -> [Quiet EXCEPT
            !.get = {<<"sx", k0 + k>> : k \in 0..15},
            !.put = {<<<<"sB", k, n>>, At(mem, <<"sx", k0 + k>>)>> : k \in 0..15, n \in 0..15}]
       [] step > 0 /\ step % 3 = 0 -> [Quiet EXCEPT
            !.get = {<<"sW", r, j>> : r \in 0..15, j \in 0..15}
              \cup {<<"sB", k, n>> : k \in 0..15, n \in 0..15},
            !.mac = [y \in {1} \X {0} \X (row0..(row0 + 15)) |->
              {LET w == At(mem, <<"sW", y[3] - row0, j>>)
               IN <<t, At(mem, <<"sB", j, 0>>), HalfRow(w[1], w[2] \div 16, w[2] % 16)>>
                 : j \in 0..15}]]
=============================================================================
