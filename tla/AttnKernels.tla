----------------------------- MODULE AttnKernels -----------------------------
(***************************************************************************)
(* The attention kernels of kernels/qwen2_cuda.cu that serve one token, and *)
(* those that write the K/V slabs they read.                               *)
(*                                                                         *)
(* A launch is for the n tokens from position pos on.  Data goes by blocks *)
(* of 32 dimensions: block b of a K (kind 1) or V (kind 2) row is          *)
(* <<kind, position, K/V head, b>>, and lives in the cell of the address   *)
(* it was written to.  A score is <<query, head, position, K/V head>>, got *)
(* only where each dimension of the query meets the same one of a whole K  *)
(* row.  Output <<query, head, b>> sums scores times V blocks, and b = -1  *)
(* stands for the sum of the weights it is divided by.  Exponentials and   *)
(* running maxima are left out.                                            *)
(***************************************************************************)
EXTENDS StreamKernels

Blocks(l)   == l.HD \div 32
Share(l)    == l.H \div l.KV
KvBlocks(l) == l.KV * Blocks(l)

(* Slabs 1 and 2 hold floats, 3 and 4 the quantised rows.                  *)
SlabBlock(fmt, m) == IF m <= 2 THEN 128 ELSE IF fmt = "q8" THEN 36 ELSE 18
BlockAt(l, m, i)  == l.W[m] + SlabBlock(l.fmt, m) * i
Cell(l, m, i)     == <<"kv", BlockAt(l, m, i)>>

(* The two orders of the blocks in a slab.                                 *)
SlotMajor(l, t, kv, b) == (t * l.KV + kv) * Blocks(l) + b
KvMajor(l, t, kv, b)   == (kv * l.cap + t) * Blocks(l) + b

(* A run of accesses of one width: its ends tell whether it is inside.     *)
Span(a, bytes, width) == {<<a, width>>, <<a + bytes - width, width>>}
(* Floats up to four by four, 36-byte blocks by words, 18-byte by bytes.   *)
BlockLoads(l, m, i) ==
  LET a == BlockAt(l, m, i)
  IN IF m <= 2 THEN Span(a, 128, 16)
     ELSE IF l.fmt = "q8" THEN {<<a, 2>>} \cup Span(a + 4, 32, 4)
     ELSE {<<a, 2>>} \cup Span(a + 2, 16, 1)

(***************************************************************************)
(* Writing the slabs: 256 threads a block, each a float or a block of 32.  *)
(***************************************************************************)
Mine(blk, per, total) == {j \in (per * blk)..(per * blk + per - 1) : j < total}
Fresh(l, m, pos, j) == <<m, pos, j \div Blocks(l), j % Blocks(l)>>
KvMajorSlot(l, slot, j) ==
  ((j \div Blocks(l)) * l.cap + slot) * Blocks(l) + (j % Blocks(l))

k_kv_scatter(l, blk) ==
  [Quiet EXCEPT !.put =
     {<<Cell(l, m, (l.pos % l.cap) * KvBlocks(l) + j), Fresh(l, m, l.pos, j)>>
        : m \in 1..2, j \in Mine(blk, 8, KvBlocks(l))}]
k_kv_scatter_q8_0(l, blk) ==
  [Quiet EXCEPT !.put =
     {<<Cell(l, m + 2, KvMajorSlot(l, l.pos % l.cap, j)), Fresh(l, m, l.pos, j)>>
        : m \in 1..2, j \in Mine(blk, 256, KvBlocks(l))}]
k_kv_scatter_q4_0(l, blk) ==
  [Quiet EXCEPT !.put =
     {<<Cell(l, m + 2, (l.pos % l.cap) * KvBlocks(l) + j), Fresh(l, m, l.pos, j)>>
        : m \in 1..2, j \in Mine(blk, 256, KvBlocks(l))}]

(* n tokens at once: token and block from one running index.               *)
Scattered(l, blk, per, to, index(_, _)) ==
  [Quiet EXCEPT !.put =
     {LET tok == j \div KvBlocks(l)   i == j % KvBlocks(l)
      IN <<Cell(l, m + to, index((l.pos + tok) % l.cap, i)), Fresh(l, m, l.pos + tok, i)>>
        : m \in 1..2, j \in Mine(blk, per, l.n * KvBlocks(l))}]
k_kv_scatter_batched(l, blk) ==
  Scattered(l, blk, 8, 0, LAMBDA slot, i : slot * KvBlocks(l) + i)
k_kv_scatter_q8_0_batched(l, blk) ==
  Scattered(l, blk, 256, 2, LAMBDA slot, i : KvMajorSlot(l, slot, i))
k_kv_scatter_q4_0_batched(l, blk) ==
  Scattered(l, blk, 256, 2, LAMBDA slot, i : slot * KvBlocks(l) + i)

(* The first n slots of the float slabs, quantised where they are.         *)
Backfilled(l, blk, mem, index(_, _)) ==
  LET mine == Mine(blk, 256, l.n * KvBlocks(l))
  IN [Quiet EXCEPT
        !.loads = UNION {BlockLoads(l, m, j) : m \in 1..2, j \in mine},
        !.get = {Cell(l, m, j) : m \in 1..2, j \in mine},
        !.put = {<<Cell(l, m + 2, index(j \div KvBlocks(l), j % KvBlocks(l))),
                   At(mem, Cell(l, m, j))>> : m \in 1..2, j \in mine}]
k_kv_backfill_q8_0(l, blk, mem) ==
  Backfilled(l, blk, mem, LAMBDA slot, i : KvMajorSlot(l, slot, i))
k_kv_backfill_q4_0(l, blk, mem) ==
  Backfilled(l, blk, mem, LAMBDA slot, i : slot * KvBlocks(l) + i)

(***************************************************************************)
(* Reading them.  A row is <<position, K/V head>> if its blocks are there. *)
(***************************************************************************)
RowIn(mem, kind, bph, cell(_)) ==
  LET c == At(mem, cell(0))
  IN IF c # Garbage /\ \A b \in 0..(bph - 1) : At(mem, cell(b)) = <<kind, c[2], c[3], b>>
     THEN <<c[2], c[3]>> ELSE Garbage
BlockIn(mem, cell) ==
  LET c == At(mem, cell)
  IN IF c # Garbage /\ c[1] = 2 THEN <<c[2], c[3], c[4]>> ELSE Garbage

(* A lane has HD / 32 consecutive dimensions of the query (no more than    *)
(* its registers hold) and reads element Elem(lane, i) of block            *)
(* lane * HD / 32 \div 32 for the i-th: right if it is the same dimension. *)
LaneBlock(l, lane) == (lane * Blocks(l)) \div 32
Straight(l, registers, Elem(_, _)) ==
  /\ Blocks(l) <= registers
  /\ \A lane \in 0..31, i \in 0..(Blocks(l) - 1) :
       32 * LaneBlock(l, lane) + Elem(lane, i) = lane * Blocks(l) + i
InOrder(l, lane, i) == (lane * Blocks(l) + i) % 32

Score(straight, query, row) ==
  IF straight /\ row # Garbage THEN query \o row ELSE Garbage

(* What is summed for queries `rows`, each over its slots T(r).            *)
Attend(l, rows, key(_), T(_), K(_, _), V(_, _, _)) ==
  [y \in {key(r) \o <<b>> : r \in rows, b \in -1..(Blocks(l) - 1)} |->
     LET r == CHOOSE x \in rows : key(x) = <<y[1], y[2]>>
     IN {<<t, K(r, t), IF y[3] = -1 THEN <<>> ELSE V(r, t, y[3])>> : t \in T(r)}]

(* A partial result is kept by its index until the parts are combined.     *)
Partial(index) == <<-1, index>>
PartOf(mem, index, b) ==
  IF <<"part", index, b>> \in DOMAIN mem THEN mem[<<"part", index, b>>]
  ELSE {<<0, <<0, Garbage, Garbage>>>>}

Oldest(l) == IF l.window > 0 /\ l.pos >= l.window THEN l.pos - l.window + 1 ELSE 0

(***************************************************************************)
(* One warp per head, straight from the slabs.                             *)
(***************************************************************************)
KvOf(l, h) == h \div Share(l)
Slots(l)   == Oldest(l)..l.pos
(* Slice s of S equal slices of the slots, some of them empty.             *)
Slice(l, s) ==
  LET chunk == Ceil(l.pos - Oldest(l) + 1, l.S)
  IN (Oldest(l) + s * chunk)..(Least(l.pos + 1, Oldest(l) + (s + 1) * chunk) - 1)

Direct(l, mem, h, key, T, slab, straight, index(_, _)) ==
  LET cell(m, t, b) == Cell(l, m, index(t, b))
  IN [Quiet EXCEPT
        !.loads = UNION {BlockLoads(l, m, index(t, b)) :
                           m \in {slab, slab + 1}, t \in T, b \in 0..(Blocks(l) - 1)},
        !.get = {cell(m, t, b) : m \in {slab, slab + 1}, t \in T, b \in 0..(Blocks(l) - 1)},
        !.mac = Attend(l, {<<l.q0, h>>}, LAMBDA r : key, LAMBDA r : T,
                  LAMBDA r, t : Score(straight, <<l.q0, h>>,
                                  RowIn(mem, 1, Blocks(l), LAMBDA b : cell(slab, t, b))),
                  LAMBDA r, t, b : BlockIn(mem, cell(slab + 1, t, b)))]

k_flash_gqa(l, blk, mem) ==
  Direct(l, mem, blk, <<l.q0, blk>>, Slots(l), 1,
         Straight(l, 16, LAMBDA lane, i : InOrder(l, lane, i)),
         LAMBDA t, b : SlotMajor(l, t, KvOf(l, blk), b))

k_flash_gqa_splitk(l, blk, mem) ==
  LET h == blk % l.grid[1]   s == blk \div l.grid[1]
  IN Direct(l, mem, h, Partial(s * l.H + h), Slice(l, s), 1,
            Straight(l, 16, LAMBDA lane, i : InOrder(l, lane, i)),
            LAMBDA t, b : SlotMajor(l, t, KvOf(l, h), b))

(* By words: word k of the block, and of it bytes the lane shifts out.     *)
k_flash_gqa_q8_0(l, blk, mem) ==
  LET first(lane) == (lane * Blocks(l)) % 32
      byte(lane, i) == CASE Blocks(l) = 4 -> i
                         [] Blocks(l) = 2 -> 2 * ((first(lane) \div 2) % 2) + i
                         [] Blocks(l) \notin {2, 4} -> (first(lane) + i) % 4
  IN Direct(l, mem, blk, <<l.q0, blk>>, Slots(l), 3,
            Straight(l, 16, LAMBDA lane, i : 4 * (first(lane) \div 4) + byte(lane, i)),
            LAMBDA t, b : KvMajor(l, t, KvOf(l, blk), b))

(***************************************************************************)
(* Parts put together: those that saw no slot are skipped, or weigh zero.  *)
(***************************************************************************)
Combined(l, mem, h, parts, index(_), skip) ==
  LET here == {p \in parts : ~skip \/ PartOf(mem, index(p), -1) # {}}
  IN [Quiet EXCEPT
        !.get = {<<"part", index(p), b>> : p \in parts, b \in -1..(Blocks(l) - 1)},
        !.mac = [y \in {0} \X {h} \X (-1..(Blocks(l) - 1)) |->
          UNION {{<<<<p, q[1], q[2][1]>>, q[2][2], q[2][3]>> : q \in PartOf(mem, index(p), y[3])}
                   : p \in here}]]
k_flash_gqa_combine(l, blk, mem) ==
  Combined(l, mem, blk, 0..(l.S - 1), LAMBDA s : s * l.H + blk, TRUE)
k_fa2_combine(l, blk, mem) ==
  Combined(l, mem, blk, 0..(l.S - 1), LAMBDA s : s * l.H + blk, TRUE)
k_unf_combine(l, blk, mem) ==
  LET g == blk % l.grid[1]   kv == blk \div l.grid[1]
  IN Combined(l, mem, kv * Share(l) + g, 0..(l.S - 1),
              LAMBDA pp : (kv * l.S + pp) * Share(l) + g, FALSE)

(***************************************************************************)
(* A warp per head of the group, the rows staged tile by tile: even steps  *)
(* stage, odd ones sum.                                                    *)
(***************************************************************************)
Stage(l, mem, kinds, toks, base, slab, index(_, _)) ==
  [Quiet EXCEPT
     !.loads = UNION {BlockLoads(l, slab + m - 1, index(t, b)) :
                        m \in kinds, t \in toks, b \in 0..(Blocks(l) - 1)},
     !.get = {Cell(l, slab + m - 1, index(t, b)) :
                m \in kinds, t \in toks, b \in 0..(Blocks(l) - 1)},
     !.put = {<<<<"s", m, t - base, b>>, At(mem, Cell(l, slab + m - 1, index(t, b)))>> :
                m \in kinds, t \in toks, b \in 0..(Blocks(l) - 1)}]
StagedCells(l, kinds, toks, base) ==
  {<<"s", m, t - base, b>> : m \in kinds, t \in toks, b \in 0..(Blocks(l) - 1)}
StagedRow(l, mem, tt)      == RowIn(mem, 1, Blocks(l), LAMBDA b : <<"s", 1, tt, b>>)
StagedBlock(mem, tt, b)    == BlockIn(mem, <<"s", 2, tt, b>>)

HeadsOf(l, kv) == (kv * Share(l))..(kv * Share(l) + Share(l) - 1)

Split(l, blk, step, mem, size, slab, straight, index(_, _, _)) ==
  LET s == blk % l.grid[1]   kv == blk \div l.grid[1]
      T == Slice(l, s)
      rows == {0} \X HeadsOf(l, kv)
      base == Oldest(l) + s * Ceil(l.pos - Oldest(l) + 1, l.S) + size * (step \div 2)
      toks == {t \in base..(base + size - 1) : t \in T}
  IN IF step % 2 = 0 /\ T # {}
     THEN Stage(l, mem, {1, 2}, toks, base, slab, LAMBDA t, b : index(t, kv, b))
     ELSE [Quiet EXCEPT
       !.get = StagedCells(l, {1, 2}, toks, base),
       !.mac = Attend(l, rows, LAMBDA r : Partial(s * l.H + r[2]), LAMBDA r : toks,
                 LAMBDA r, t : Score(straight, r, StagedRow(l, mem, t - base)),
                 LAMBDA r, t, b : StagedBlock(mem, t - base, b))]

k_fa2_fp32_split(l, blk, step, mem) ==
  Split(l, blk, step, mem, 32, 1, Straight(l, 4, LAMBDA lane, i : InOrder(l, lane, i)),
        LAMBDA t, kv, b : SlotMajor(l, t, kv, b))
k_fa2_q8_split(l, blk, step, mem) ==
  Split(l, blk, step, mem, 64, 3, Straight(l, 4, LAMBDA lane, i : InOrder(l, lane, i)),
        LAMBDA t, kv, b : KvMajor(l, t, kv, b))
(* Byte j of a block holds elements j and j + 16.                          *)
k_fa2_q4_split(l, blk, step, mem) ==
  LET element(lane, i) ==
        IF Blocks(l) = 2
        THEN LET v == (lane % 16) * 2 + i IN (v % 16) + (IF v >= 16 THEN 16 ELSE 0)
        ELSE LET sub == lane % 8 IN (sub % 4) * 4 + i + (IF sub >= 4 THEN 16 ELSE 0)
  IN Split(l, blk, step, mem, 64, 3, Straight(l, 4, element),
           LAMBDA t, kv, b : SlotMajor(l, t, kv, b))

-----------------------------------------------------------------------------
(***************************************************************************)
(* The decode kernels over quantised rows in which threads, not warps, own *)
(* the work: a thread per score and slot, then one per head and dimension. *)
(* Block kv * S + pp takes part pp of the slots 0..pos of a K/V head.      *)
(***************************************************************************)

Part(l, pp) == LET n == l.pos + 1   chunk == Ceil(n, l.S)
               IN Least(n, pp * chunk)..(Least(n, Least(n, pp * chunk) + chunk) - 1)
PartFirst(l, pp) == Least(l.pos + 1, pp * Ceil(l.pos + 1, l.S))

(* The group's queries in shared memory, staged with the first tile.       *)
StageQ(l, kv) ==
  {<<<<"sq", g, b>>, <<0, kv * Share(l) + g, b>>>> : g \in 0..(Share(l) - 1), b \in 0..(Blocks(l) - 1)}
QueryCells(l) == {<<"sq", g, b>> : g \in 0..(Share(l) - 1), b \in 0..(Blocks(l) - 1)}
StagedQuery(l, mem, g) ==
  LET c == At(mem, <<"sq", g, 0>>)
  IN IF \A b \in 0..(Blocks(l) - 1) : At(mem, <<"sq", g, b>>) = <<0, c[2], b>>
     THEN <<0, c[2]>> ELSE Garbage
ScoreOf(l, mem, g, tt) ==
  IF StagedQuery(l, mem, g) = Garbage THEN Garbage
  ELSE Score(TRUE, StagedQuery(l, mem, g), StagedRow(l, mem, tt))

(* Three steps a tile: stage, score, sum.  Element(d) is what the thread of *)
(* dimension d of a block reads.                                           *)
Fused(l, blk, step, mem, index(_, _, _), Element(_)) ==
  LET kv == blk \div l.S   pp == blk % l.S
      base == PartFirst(l, pp) + 128 * (step \div 3)
      toks == {t \in base..(base + 127) : t \in Part(l, pp)}
      group == 0..(Share(l) - 1)
      threads == {g \in group : (g + 1) * l.HD <= l.threads}
      straight == \A d \in 0..31 : Element(d) = d
  IN CASE step % 3 = 0 /\ toks # {} ->
            [Stage(l, mem, {1, 2}, toks, base, 3, LAMBDA t, b : index(t, kv, b))
               EXCEPT !.put = @ \cup (IF step = 0 THEN StageQ(l, kv) ELSE {})]
       [] step % 3 = 1 ->
            [Quiet EXCEPT
               !.get = StagedCells(l, {1}, toks, base) \cup QueryCells(l),
               !.put = {<<<<"sP", g, t - base>>, ScoreOf(l, mem, g, t - base)>> :
                          g \in group, t \in toks}]
       [] step % 3 = 2 \/ toks = {} ->
            [Quiet EXCEPT
               !.get = StagedCells(l, {2}, toks, base)
                 \cup {<<"sP", g, t - base>> : g \in group, t \in toks},
               !.mac = Attend(l, threads, LAMBDA g : Partial(blk * Share(l) + g),
                         LAMBDA g : toks, LAMBDA g, t : At(mem, <<"sP", g, t - base>>),
                         LAMBDA g, t, b : IF straight THEN StagedBlock(mem, t - base, b)
                                          ELSE Garbage)]

(* Byte d % 4 of word d \div 4.                                            *)
k_unf_fused(l, blk, step, mem) ==
  Fused(l, blk, step, mem, LAMBDA t, kv, b : KvMajor(l, t, kv, b),
        LAMBDA d : 4 * (d \div 4) + (d % 4))
(* The low or high nibble of byte d % 16.                                  *)
k_q4_fused(l, blk, step, mem) ==
  Fused(l, blk, step, mem, LAMBDA t, kv, b : SlotMajor(l, t, kv, b),
        LAMBDA d : (d % 16) + 16 * (d \div 16))

(***************************************************************************)
(* The same in three launches, with the scores in a buffer.                *)
(***************************************************************************)
ScoreCell(l, h, t) == <<"scores", h * (l.pos + 1) + t>>

k_unf_qk(l, blk, step, mem) ==
  LET kv == blk \div l.S   pp == blk % l.S
      base == PartFirst(l, pp) + 256 * (step \div 2)
      toks == {t \in base..(base + 255) : t \in Part(l, pp)}
  IN IF step % 2 = 0
     THEN [Stage(l, mem, {1}, toks, base, 3, LAMBDA t, b : KvMajor(l, t, kv, b))
             EXCEPT !.put = @ \cup (IF step = 0 THEN StageQ(l, kv) ELSE {})]
     ELSE [Quiet EXCEPT
       !.get = StagedCells(l, {1}, toks, base) \cup QueryCells(l),
       !.put = {<<ScoreCell(l, kv * Share(l) + g, t), ScoreOf(l, mem, g, t - base)>> :
                  g \in 0..(Share(l) - 1), t \in toks}]

(* 256 threads sum (or maximise) over cells <<"sb", thread>> by halves:    *)
(* after step j of the tree, thread i has what i + 256 / 2^j had.          *)
Halves(j) == 256 \div 2^j
TreeStep(mem, j) ==
  [Quiet EXCEPT
     !.get = {<<"sb", i + Halves(j)>> : i \in 0..(Halves(j) - 1)},
     !.put = {<<<<"sb", i>>, At(mem, <<"sb", i>>) \cup At(mem, <<"sb", i + Halves(j)>>)>> :
                i \in 0..(Halves(j) - 1)}]
(* Thread i takes items i, i + 256, ...                                    *)
Dealt(items, Item(_)) ==
  {<<<<"sb", i>>, {Item(t) : t \in {u \in items : u % 256 = i}}>> : i \in 0..255}

(* The maximum in steps 0 to 9, the exponentials and their sum in 10 to 18,*)
(* the division last.  A weight that was divided carries a fifth mark.     *)
k_unf_softmax(l, blk, step, mem) ==
  LET T == 0..l.pos
      at(t) == At(mem, ScoreCell(l, blk, t))
      all == {at(t) : t \in T}
  IN CASE step \in {0, 10} ->
            [Quiet EXCEPT !.put = Dealt(T, at)
               \cup (IF step = 0 THEN {}
                     ELSE {<<ScoreCell(l, blk, t), IF At(mem, <<"m">>) = all THEN at(t) ELSE Garbage>> :
                             t \in T})]
       [] step \in 1..8 -> TreeStep(mem, step)
       [] step = 9 -> [Quiet EXCEPT !.get = {<<"sb", 0>>}, !.put = {<<<<"m">>, At(mem, <<"sb", 0>>)>>}]
       [] step \in 11..18 -> TreeStep(mem, step - 10)
       [] step = 19 ->
            [Quiet EXCEPT
               !.get = {<<"sb", 0>>},
               !.put = {<<ScoreCell(l, blk, t), at(t) \o <<1>>>> : t \in T},
               !.mac = [y \in {<<0, blk, -1>>} |-> {<<0, s, <<>>>> : s \in At(mem, <<"sb", 0>>)}]]

(* Half the dimensions of a head per block (HD a multiple of 64); three    *)
(* steps a tile of 256: stage, fetch the weights, sum.                     *)
k_unf_pv(l, blk, step, mem) ==
  LET kv == blk \div 2   cc == blk % 2
      base == 256 * (step \div 3)
      toks == {t \in base..(base + 255) : t \in 0..l.pos}
      group == 0..(Share(l) - 1)
      half == (cc * (Blocks(l) \div 2))..((cc + 1) * (Blocks(l) \div 2) - 1)
      weight(g, t) == LET p == At(mem, <<"sP", g, t - base>>)
                      IN IF Len(p) = 5 THEN SubSeq(p, 1, 4) ELSE Garbage
  IN CASE step % 3 = 0 -> Stage(l, mem, {2}, toks, base, 3, LAMBDA t, b : KvMajor(l, t, kv, b))
       [] step % 3 = 1 ->
            [Quiet EXCEPT
               !.get = {ScoreCell(l, h, t) : h \in HeadsOf(l, kv), t \in toks},
               !.put = {<<<<"sP", g, t - base>>, At(mem, ScoreCell(l, kv * Share(l) + g, t))>> :
                          g \in group, t \in toks}]
       [] step % 3 = 2 ->
            [Quiet EXCEPT
               !.get = StagedCells(l, {2}, toks, base)
                 \cup {<<"sP", g, t - base>> : g \in group, t \in toks},
               !.mac = [y \in {<<0, kv * Share(l) + g, b>> :
                                 g \in {x \in group : (x + 1) * (l.HD \div 2) <= 256}, b \in half} |->
                 {<<t, weight(y[2] - kv * Share(l), t), StagedBlock(mem, t - base, y[3])>> : t \in toks}]]

(* Barriers a block reaches, counting its end.                             *)
Tiles(T, size) == Ceil(Cardinality(T), size)
AtLeastOne(n)  == IF n = 0 THEN 1 ELSE n
DecodeSteps(l, blk) ==
  LET k == l.kernel IN
  CASE k = "k_fa2_fp32_split" -> AtLeastOne(2 * Tiles(Slice(l, blk % l.grid[1]), 32))
    [] k \in {"k_fa2_q8_split", "k_fa2_q4_split"} -> AtLeastOne(2 * Tiles(Slice(l, blk % l.grid[1]), 64))
    [] k \in {"k_unf_fused", "k_q4_fused"} -> AtLeastOne(3 * Tiles(Part(l, blk % l.S), 128))
    [] k = "k_unf_qk" -> AtLeastOne(2 * Tiles(Part(l, blk % l.S), 256))
    [] k = "k_unf_softmax" -> 20
    [] k = "k_unf_pv" -> 3 * Tiles(0..l.pos, 256)
    [] OTHER -> 1

=============================================================================
