---------------------------- MODULE TypedKernels -----------------------------
(***************************************************************************)
(* kernels/gemv_typed.cu: matrix-vector products and embedding rows for    *)
(* the other formats.  A row is cut into units (blocks, sub-blocks, groups *)
(* of four or single weights), the lanes of a warp sharing the units.      *)
(*                                                                         *)
(* The decoders below say, for unit u of the row at byte address `row`,    *)
(* which weight meets which x of the row: a set of <<i, weight>>.          *)
(***************************************************************************)
EXTENDS StreamKernels

(* Bit n of the little-endian word at address a.                           *)
WordBit(a, n) == <<8 * a + n, 1>>
Pairs(lo(_), hi(_), u) == UNION {{<<32 * u + j, lo(j)>>, <<32 * u + j + 16, hi(j)>>} : j \in 0..15}

unit_q4_0(row, u) ==
  LET b == row + 18 * u
  IN Pairs(LAMBDA j : Scaled(<<Low(b + 2 + j)>>, 8, b),
           LAMBDA j : Scaled(<<High(b + 2 + j)>>, 8, b), u)
unit_q4_1(row, u) ==
  LET b == row + 20 * u
  IN Pairs(LAMBDA j : Weight(<<Low(b + 4 + j)>>, 0, <<>>, b, <<>>, b + 2),
           LAMBDA j : Weight(<<High(b + 4 + j)>>, 0, <<>>, b, <<>>, b + 2), u)
(* Bit 4 of ((qh >> j) << 4), then of (qh >> (j + 12)).                    *)
unit_q5_0(row, u) ==
  LET b == row + 22 * u
  IN Pairs(LAMBDA j : Scaled(<<Low(b + 6 + j), WordBit(b + 2, j)>>, 16, b),
           LAMBDA j : Scaled(<<High(b + 6 + j), WordBit(b + 2, j + 12 + 4)>>, 16, b), u)
unit_q5_1(row, u) ==
  LET b == row + 24 * u
  IN Pairs(LAMBDA j : Weight(<<Low(b + 8 + j), WordBit(b + 4, j)>>, 0, <<>>, b, <<>>, b + 2),
           LAMBDA j : Weight(<<High(b + 8 + j), WordBit(b + 4, j + 12 + 4)>>, 0, <<>>, b,
                             <<>>, b + 2), u)
unit_q8_0(row, u) ==
  LET b == row + 34 * u
  IN {<<32 * u + j, Scaled(<<Byte(b + 2 + j)>>, 0, b)>> : j \in 0..31}

(* Sixteen weights with one scale: sub-block `is` of super-block sb.       *)
unit_q2_K(row, u) ==
  LET sb == u \div 16   is == u % 16
      shift == 2 * ((is % 8) \div 2)
      b == row + 84 * sb
      q == b + 16 + 32 * (is \div 8) + 16 * (is % 2)
  IN {<<256 * sb + 16 * is + i,
        Weight(<<Bits(q + i, shift, 2)>>, 0, <<Low(b + is)>>, b + 80, <<High(b + is)>>, b + 82)>>
        : i \in 0..15}
unit_q3_K(row, u) ==
  LET sb == u \div 16   is == u % 16
      n == is \div 8   j == (is % 8) \div 2
      b == row + 110 * sb
      sc == b + 96
      us == IF is < 4 THEN <<Low(sc + is), Bits(sc + is + 8, 0, 2)>>
            ELSE IF is < 8 THEN <<Low(sc + is), Bits(sc + is + 4, 2, 2)>>
            ELSE IF is < 12 THEN <<High(sc + is - 8), Bits(sc + is, 4, 2)>>
            ELSE <<High(sc + is - 8), Bits(sc + is - 4, 6, 2)>>
      q == b + 32 + 32 * n + 16 * (is % 2)
      hm == b + 16 * (is % 2)
  IN {<<256 * sb + 16 * is + i,
        Weight(<<Bits(q + i, 2 * j, 2), Bits(hm + i, 4 * n + j, 1)>>, 4, us, b + 108, <<>>, -1)>>
        : i \in 0..15}

k4_scale(j, q) == IF j < 4 THEN <<Bits(q + j, 0, 6)>> ELSE <<Low(q + j + 4), Bits(q + j - 4, 6, 2)>>
k4_min(j, q)   == IF j < 4 THEN <<Bits(q + j + 4, 0, 6)>> ELSE <<High(q + j + 4), Bits(q + j, 6, 2)>>
NibbleOf(sub, byte) == IF sub % 2 = 0 THEN Low(byte) ELSE High(byte)

(* Thirty-two weights with one scale and minimum.                          *)
unit_q4_K(row, u) ==
  LET sb == u \div 8   sub == u % 8   b == row + 144 * sb
  IN {<<256 * sb + 32 * sub + i,
        Weight(<<NibbleOf(sub, b + 16 + 32 * (sub \div 2) + i)>>, 0,
               k4_scale(sub, b + 4), b, k4_min(sub, b + 4), b + 2)>> : i \in 0..31}
unit_q5_K(row, u) ==
  LET sb == u \div 8   sub == u % 8   b == row + 176 * sb
  IN {<<256 * sb + 32 * sub + i,
        Weight(<<NibbleOf(sub, b + 48 + 32 * (sub \div 2) + i), Bits(b + 16 + i, sub, 1)>>, 0,
               k4_scale(sub, b + 4), b, k4_min(sub, b + 4), b + 2)>> : i \in 0..31}
q6(b, q, s) == Weight(q, 32, <<Byte(b + 192 + s)>>, b + 208, <<>>, -1)
unit_q6_K(row, u) ==
  LET sb == u \div 8   sub == u % 8   b == row + 210 * sb
      weight(n) == LET c == n \div 128   r == n % 128   ql == b + 64 * c + (r % 64)
                   IN q6(b, <<IF r < 64 THEN Low(ql) ELSE High(ql),
                              Bits(b + 128 + 32 * c + (r % 32), 2 * (r \div 32), 2)>>,
                         8 * c + r \div 16)
  IN {<<256 * sb + n, weight(n)>> : n \in (32 * sub)..(32 * sub + 31)}

(* A bf16 is moved to the upper half of a float.                           *)
Plain(a, width, shift) == Weight(<<Bits(a, 0, width)>>, shift, <<>>, -1, <<>>, -1)
unit_f16(row, u)  == {<<u, Plain(row + 2 * u, 16, 0)>>}
unit_bf16(row, u) == {<<u, Plain(row + 2 * u, 16, -16)>>}
unit_f32(row, u)  == {<<u, Plain(row + 4 * u, 32, 0)>>}
unit_f16x4(row, u)  == {<<4 * u + i, Plain(row + 8 * u + 2 * i, 16, 0)>> : i \in 0..3}
unit_bf16x4(row, u) == {<<4 * u + i, Plain(row + 8 * u + 2 * i, 16, -16)>> : i \in 0..3}

(***************************************************************************)
(* The loads of a unit: byte by byte unless said otherwise, the scales as  *)
(* half words.                                                             *)
(***************************************************************************)
Ranged(f) == <<f[1] \div 8, (f[2] + 7) \div 8>>
ScaleLoads(w) == {<<a, 2>> : a \in {w.d, w.m} \ {-1}}
Bytewise(unit) ==
  UNION {ScaleLoads(e[2])
           \cup {Ranged(e[2].q[k]) : k \in DOMAIN e[2].q}
           \cup {Ranged(e[2].sc[k]) : k \in DOMAIN e[2].sc}
           \cup {Ranged(e[2].msc[k]) : k \in DOMAIN e[2].msc} : e \in unit}

(* `rows` rows per warp, `units` units shared by the lanes in turn.        *)
UnitRows(l, blk, R, units, D(_, _), L(_, _)) ==
  LET rows == RowsFrom(FirstRows(l, blk, R), R)
  IN [Quiet EXCEPT
        !.loads = UNION {L(RowAt(l, 1, r), u) : r \in rows, u \in 0..(units - 1)},
        !.mac = [y \in {1} \X {0} \X {r \in rows : r < l.M[1]} |->
          UNION {{<<p[1], <<0, e[1]>>, e[2]>> : e \in D(RowAt(l, 1, y[3]), p[2])}
                   : p \in LaneBlocks(units)}]]
ByteRows(l, blk, R, units, D(_, _)) ==
  UnitRows(l, blk, R, units, D, LAMBDA row, u : Bytewise(D(row, u)))

k_gemv_q4_1(l, blk)        == ByteRows(l, blk, 1, l.K \div 32, unit_q4_1)
k_gemv_q5_0(l, blk)        == ByteRows(l, blk, 1, l.K \div 32, unit_q5_0)
k_gemv_q5_1(l, blk)        == ByteRows(l, blk, 1, l.K \div 32, unit_q5_1)
k_gemv_q8_0_scalar(l, blk) == ByteRows(l, blk, 1, l.K \div 32, unit_q8_0)
k_gemv_q2_K(l, blk)        == ByteRows(l, blk, 1, 16 * (l.K \div 256), unit_q2_K)
k_gemv_q3_K(l, blk)        == ByteRows(l, blk, 1, 16 * (l.K \div 256), unit_q3_K)
k_gemv_q4_K(l, blk)        == ByteRows(l, blk, 1, 8 * (l.K \div 256), unit_q4_K)
k_gemv_q5_K(l, blk)        == ByteRows(l, blk, 1, 8 * (l.K \div 256), unit_q5_K)
k_gemv_q6_K(l, blk)        == ByteRows(l, blk, 1, 8 * (l.K \div 256), unit_q6_K)
k_gemv_q2_K_v2(l, blk)     == ByteRows(l, blk, 2, 16 * (l.K \div 256), unit_q2_K)
k_gemv_q3_K_v2(l, blk)     == ByteRows(l, blk, 2, 16 * (l.K \div 256), unit_q3_K)

(* Eight payload bytes at a time; for q5_K eight bytes of fifth bits too.  *)
Longs(from) == {<<from + 8 * q, 8>> : q \in 0..3}
k_gemv_q4_K_v2(l, blk) ==
  UnitRows(l, blk, 2, 8 * (l.K \div 256), unit_q4_K, LAMBDA row, u :
    LET b == row + 144 * (u \div 8)
    IN {<<b, 2>>, <<b + 2, 2>>} \cup Longs(b + 16 + 32 * ((u % 8) \div 2)))
k_gemv_q5_K_v2(l, blk) ==
  UnitRows(l, blk, 2, 8 * (l.K \div 256), unit_q5_K, LAMBDA row, u :
    LET b == row + 176 * (u \div 8)
    IN {<<b, 2>>, <<b + 2, 2>>} \cup Longs(b + 48 + 32 * ((u % 8) \div 2)) \cup Longs(b + 16))

(* Here the lanes share each half of a super-block, four weights each.     *)
q6_K_lane(row, sb, c, lane) ==
  LET b == row + 210 * sb   ql == b + 64 * c   qh == b + 128 + 32 * c + lane
      is == 8 * c + lane \div 16
      x(k) == 256 * sb + 128 * c + lane + 32 * k
  IN {<<x(0), q6(b, <<Low(ql + lane), Bits(qh, 0, 2)>>, is)>>,
      <<x(1), q6(b, <<Low(ql + lane + 32), Bits(qh, 2, 2)>>, is + 2)>>,
      <<x(2), q6(b, <<High(ql + lane), Bits(qh, 4, 2)>>, is + 4)>>,
      <<x(3), q6(b, <<High(ql + lane + 32), Bits(qh, 6, 2)>>, is + 6)>>}
k_gemv_q6_K_v2(l, blk) ==
  LET part(row, v) == q6_K_lane(row, v \div 64, (v % 64) \div 32, v % 32)
  IN ByteRows(l, blk, 2, 64 * (l.K \div 256), part)

HalfPairs(row, u) == {<<row + 8 * u, 4>>, <<row + 8 * u + 4, 4>>}
k_gemv_f16(l, blk)        == UnitRows(l, blk, 2, l.K \div 4, unit_f16x4, HalfPairs)
k_gemv_bf16_v2(l, blk)    == UnitRows(l, blk, 2, l.K \div 4, unit_bf16x4, HalfPairs)
k_gemv_f16_scalar(l, blk) == ByteRows(l, blk, 1, l.K, unit_f16)
k_gemv_bf16(l, blk)       == ByteRows(l, blk, 1, l.K, unit_bf16)
k_gemv_f32(l, blk)        == ByteRows(l, blk, 1, l.K, unit_f32)

(***************************************************************************)
(* Up to 16 columns at once, x stored position by position: the flat index *)
(* i * N + column.                                                         *)
(***************************************************************************)
k_gemm_batched_q4_0(l, blk) ==
  LET bx == blk % l.grid[1]   col0 == 16 * (blk \div l.grid[1])
      columns == {c \in col0..(col0 + 15) : c < l.N}
      x(f) == <<f % l.N, f \div l.N>>
      rows == FirstRows(l, bx, 1)
  IN [Quiet EXCEPT
        !.loads = UNION {Bytewise(unit_q4_0(RowAt(l, 1, r), u)) : r \in rows, u \in 0..(l.K \div 32 - 1)},
        !.mac = [y \in {1} \X columns \X rows |->
          UNION {{<<p[1], x(e[1] * l.N + y[2]), e[2]>> : e \in unit_q4_0(RowAt(l, 1, y[3]), p[2])}
                   : p \in LaneBlocks(l.K \div 32)}]]

(***************************************************************************)
(* A row of the embedding: one thread per unit.                            *)
(***************************************************************************)
EmbedUnits(l, blk, units, D(_, _)) ==
  LET mine == {u \in (256 * blk)..(256 * blk + 255) : u < units}
      row == RowAt(l, 1, l.tok)
      all == UNION {{<<e[1], u, e[2]>> : e \in D(row, u)} : u \in mine}
  IN [Quiet EXCEPT
        !.loads = UNION {Bytewise(D(row, u)) : u \in mine},
        !.mac = [y \in {<<1, 0, p[1]>> : p \in all} |->
                   {<<p[2], Unit, p[3]>> : p \in {q \in all : q[1] = y[3]}}]]

k_embed_q4_1(l, blk) == EmbedUnits(l, blk, l.K \div 32, unit_q4_1)
k_embed_q5_0(l, blk) == EmbedUnits(l, blk, l.K \div 32, unit_q5_0)
k_embed_q5_1(l, blk) == EmbedUnits(l, blk, l.K \div 32, unit_q5_1)
k_embed_q8_0(l, blk) == EmbedUnits(l, blk, l.K \div 32, unit_q8_0)
k_embed_q2_K(l, blk) == EmbedUnits(l, blk, 16 * (l.K \div 256), unit_q2_K)
k_embed_q3_K(l, blk) == EmbedUnits(l, blk, 16 * (l.K \div 256), unit_q3_K)
k_embed_q4_K(l, blk) == EmbedUnits(l, blk, 8 * (l.K \div 256), unit_q4_K)
k_embed_q5_K(l, blk) == EmbedUnits(l, blk, 8 * (l.K \div 256), unit_q5_K)
k_embed_q6_K(l, blk) == EmbedUnits(l, blk, 8 * (l.K \div 256), unit_q6_K)
k_embed_f16(l, blk)  == EmbedUnits(l, blk, l.K, unit_f16)
k_embed_f32(l, blk)  == EmbedUnits(l, blk, l.K, unit_f32)
k_embed_bf16(l, blk) == EmbedUnits(l, blk, l.K, unit_bf16)
=============================================================================
