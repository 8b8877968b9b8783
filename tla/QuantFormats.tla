---------------------------- MODULE QuantFormats ----------------------------
(***************************************************************************)
(* The block formats of the weight matrices, as src/dequant_ref.c reads    *)
(* them: for weight number i of a row, where its bits, its scale and its   *)
(* minimum lie.  The arithmetic on the floats themselves is left out; what *)
(* can be wrong in a kernel is which bits meet which scale and which x.    *)
(*                                                                         *)
(* A field is <<bit address, width>>, a bit address is 8 * byte + bit.  A  *)
(* weight is d * sc * (q - off) with q and sc the concatenations of their  *)
(* fields, least significant first, plus or minus the minimum m * msc.     *)
(***************************************************************************)
EXTENDS Integers, Sequences

Bits(byte, from, width) == <<8 * byte + from, width>>
Low(byte)  == Bits(byte, 0, 4)
High(byte) == Bits(byte, 4, 4)
Byte(byte) == Bits(byte, 0, 8)

Weight(q, off, sc, d, msc, m) ==
  [q |-> q, off |-> off, sc |-> sc, d |-> d, msc |-> msc, m |-> m]
Scaled(q, off, d) == Weight(q, off, <<>>, d, <<>>, -1)

(* Bytes and weights of a block. *)
BlockBytes == [q4_0 |-> 18, q4_1 |-> 20, q5_0 |-> 22, q5_1 |-> 24, q8_0 |-> 34,
               q2_K |-> 84, q3_K |-> 110, q4_K |-> 144, q5_K |-> 176,
               q6_K |-> 210, f16 |-> 2, bf16 |-> 2, f32 |-> 4]
BlockSize  == [q4_0 |-> 32, q4_1 |-> 32, q5_0 |-> 32, q5_1 |-> 32, q8_0 |-> 32,
               q2_K |-> 256, q3_K |-> 256, q4_K |-> 256, q5_K |-> 256,
               q6_K |-> 256, f16 |-> 1, bf16 |-> 1, f32 |-> 1]
RowBytes(t, K) == BlockBytes[t] * (K \div BlockSize[t])

(***************************************************************************)
(* The decoders, one per format: weight j of the block at byte address b.  *)
(***************************************************************************)
Half(b, qs, j) == IF j < 16 THEN Low(b + qs + j) ELSE High(b + qs + j - 16)

dq_q4_0(b, j) == Scaled(<<Half(b, 2, j)>>, 8, b)
dq_q4_1(b, j) == Weight(<<Half(b, 4, j)>>, 0, <<>>, b, <<>>, b + 2)
(* The fifth bits are the bits of the 32-bit word qh, in the order of j.   *)
Fifth(b, qh, j) == Bits(b + qh + j \div 8, j % 8, 1)
dq_q5_0(b, j) == Scaled(<<Half(b, 6, j), Fifth(b, 2, j)>>, 16, b)
dq_q5_1(b, j) == Weight(<<Half(b, 8, j), Fifth(b, 4, j)>>, 0, <<>>, b, <<>>, b + 2)
dq_q8_0(b, j) == Scaled(<<Byte(b + 2 + j)>>, 0, b)

(* Six-bit scale and minimum number i of the 12 bytes at s.                *)
scale_k4(s, i) == IF i < 4 THEN <<Bits(s + i, 0, 6)>>
                  ELSE <<Low(s + i + 4), Bits(s + i - 4, 6, 2)>>
min_k4(s, i)   == IF i < 4 THEN <<Bits(s + i + 4, 0, 6)>>
                  ELSE <<High(s + i + 4), Bits(s + i, 6, 2)>>

dq_q2_K(b, j) ==
  LET n == j \div 128   p == (j % 128) \div 32   l == j % 32
      is == b + 8 * n + 2 * p + l \div 16
  IN Weight(<<Bits(b + 16 + 32 * n + l, 2 * p, 2)>>, 0,
            <<Low(is)>>, b + 80, <<High(is)>>, b + 82)

(* The third bit is stored inverted: clear means minus four.               *)
dq_q3_K(b, j) ==
  LET n == j \div 128   p == (j % 128) \div 32   l == j % 32
      is == 8 * n + 2 * p + l \div 16
  IN Weight(<<Bits(b + 32 + 32 * n + l, 2 * p, 2), Bits(b + l, 4 * n + p, 1)>>, 4,
            <<IF is < 8 THEN Low(b + 96 + is) ELSE High(b + 88 + is),
              Bits(b + 104 + (is % 4), 2 * (is \div 4), 2)>>, b + 108, <<>>, -1)

dq_q4_K(b, j) ==
  LET p == j \div 64   l == j % 32   up == (j % 64) \div 32
      byte == b + 16 + 32 * p + l
  IN Weight(<<IF up = 0 THEN Low(byte) ELSE High(byte)>>, 0,
            scale_k4(b + 4, 2 * p + up), b, min_k4(b + 4, 2 * p + up), b + 2)

dq_q5_K(b, j) ==
  LET p == j \div 64   l == j % 32   up == (j % 64) \div 32
      byte == b + 48 + 32 * p + l
  IN Weight(<<IF up = 0 THEN Low(byte) ELSE High(byte),
              Bits(b + 16 + l, 2 * p + up, 1)>>, 0,
            scale_k4(b + 4, 2 * p + up), b, min_k4(b + 4, 2 * p + up), b + 2)

dq_q6_K(b, j) ==
  LET n == j \div 128   p == (j % 128) \div 32   l == j % 32
      byte == b + 64 * n + l + 32 * (p % 2)
  IN Weight(<<IF p < 2 THEN Low(byte) ELSE High(byte),
              Bits(b + 128 + 32 * n + l, 2 * p, 2)>>, 32,
            <<Byte(b + 192 + 8 * n + 2 * p + l \div 16)>>, b + 208, <<>>, -1)

dq_f16(b) == Weight(<<Bits(b, 0, 16)>>, 0, <<>>, -1, <<>>, -1)
dq_f32(b) == Weight(<<Bits(b, 0, 32)>>, 0, <<>>, -1, <<>>, -1)
(* A bf16 is the upper half of a float: its bits end up 16 places up.      *)
dq_bf16(b) == Weight(<<Bits(b, 0, 16)>>, -16, <<>>, -1, <<>>, -1)

(* Weight i of the row that starts at byte address `row`.                  *)
ttq_dequant(t, row, i) ==
  LET b == row + BlockBytes[t] * (i \div BlockSize[t])
      j == i % BlockSize[t]
  IN CASE t = "q4_0" -> dq_q4_0(b, j) [] t = "q4_1" -> dq_q4_1(b, j)
       [] t = "q5_0" -> dq_q5_0(b, j) [] t = "q5_1" -> dq_q5_1(b, j)
       [] t = "q8_0" -> dq_q8_0(b, j) [] t = "q2_K" -> dq_q2_K(b, j)
       [] t = "q3_K" -> dq_q3_K(b, j) [] t = "q4_K" -> dq_q4_K(b, j)
       [] t = "q5_K" -> dq_q5_K(b, j) [] t = "q6_K" -> dq_q6_K(b, j)
       [] t = "f16" -> dq_f16(b) [] t = "f32" -> dq_f32(b) [] t = "bf16" -> dq_bf16(b)
=============================================================================
