------------------------------ MODULE KvCache -------------------------------
(***************************************************************************)
(* The K/V cache accounting of src/kvcache.c, with the slab its plans are  *)
(* meant for.  The code tracks how many rows of each layer are valid and   *)
(* emits offsets; the caller writes the rows, clears the ranges it is told *)
(* to, dumps and restores the slabs.  There is one flat K slab here (the V *)
(* slab is treated alike), of elements <<token, slot, dimension>>.         *)
(*                                                                         *)
(* ctx is what the caller believes the cache holds: the tokens it appended *)
(* and did not drop since.                                                 *)
(***************************************************************************)
EXTENDS Integers, Sequences

CONSTANTS
  NLayers, MaxRows, HeadDim,
  MaxWidth,  \* bound on kv_width
  Token,
  Burst,     \* bound on the tokens of one append
  W,         \* one more than the largest 32-bit word
  Changes    \* how much a word of a stored image may change by

ASSUME KvCacheAssumption ==
  /\ NLayers \in Nat \ {0} /\ MaxRows \in Nat \ {0} /\ HeadDim \in Nat \ {0}
  /\ MaxWidth \in Nat \ {0} /\ Burst \in Nat \ {0}
  /\ W \in Nat /\ W % 2 = 0
  /\ {NLayers, MaxRows, HeadDim, MaxWidth} \subseteq 0 .. W \div 2 - 1
  /\ Changes \subseteq 1 .. W - 1

Layers == 0 .. NLayers - 1
Zero == <<>>

VARIABLES
  width, src, valid,  \* kv_width, src_layer, valid_len, by layer
  slab,               \* the elements of all layers
  ctx,
  mark,               \* <<>> or the one mark, with the ctx it stands for
  dirty,              \* history: rows from here on were never left behind
  image,              \* <<>> or the stored image, with what it was made of
  last                \* what tt_kv_deserialize returned, and whether it was given
                      \* the image as stored

cache == [width |-> width, src |-> src, valid |-> valid, slab |-> slab, ctx |-> ctx, dirty |-> dirty]
kvVars == <<width, src, valid, slab, ctx, mark, dirty, image, last>>

Least(a, b) == IF a < b THEN a ELSE b
Most(a, b)  == IF a > b THEN a ELSE b

(* The widest layer, in elements; it spaces the slabs of all.              *)
Widest(w) == CHOOSE m \in {w[l] : l \in DOMAIN w} : \A l \in DOMAIN w : w[l] <= m
CachePer(w) == Widest(w) * MaxRows

cfg_sane(w, s) ==
  /\ \A l \in Layers : w[l] > 0 /\ s[l] < NLayers /\ s[l] # l
  /\ Widest(w) % HeadDim = 0
(* The engine's table of sources: they have rows of their own, as wide.    *)
SourcesOwn(w, s) == \A l \in Layers : s[l] >= 0 => s[s[l]] < 0 /\ w[s[l]] = w[l]

Owner(l) == IF src[l] >= 0 THEN src[l] ELSE l

(* Element e: the slab it is in, and its row and dimension there.          *)
LayerOf(e) == e \div CachePer(width)
Inside(e)  == e % CachePer(width)
SlotOf(e)  == Inside(e) \div width[LayerOf(e)]
DimOf(e)   == Inside(e) % width[LayerOf(e)]
Address(l, t, i) == l * CachePer(width) + t * width[l] + i

Other == [rc |-> 1, intact |-> TRUE]  \* any other call

KvCacheInit ==
  /\ width \in [Layers -> 1 .. MaxWidth] /\ src \in [Layers -> -1 .. NLayers - 1]
  /\ cfg_sane(width, src) /\ SourcesOwn(width, src)
  /\ valid = [l \in Layers |-> 0]
  /\ slab = [e \in 0 .. NLayers * CachePer(width) - 1 |-> Zero]
  /\ ctx = <<>> /\ mark = <<>> /\ dirty = 0 /\ image = <<>> /\ last = Other

-----------------------------------------------------------------------------
(* tt_kv_append, after the caller wrote the rows for which there are slots.*)
Grown(n) == [l \in Layers |-> IF src[l] >= 0 THEN valid[l] ELSE Least(valid[l] + n, MaxRows)]
Mirrored_notAtAll(v) == v
Mirrored(v) == [l \in Layers |-> IF src[l] >= 0 /\ src[l] < NLayers THEN v[src[l]] ELSE v[l]]

Written(toks, new) ==
  [e \in DOMAIN slab |->
     LET l == LayerOf(e)   t == SlotOf(e)
     IN IF src[l] < 0 /\ t \in valid[l] .. new[l] - 1
        THEN <<toks[t - valid[l] + 1], t, DimOf(e)>> ELSE slab[e]]

KvAppend ==
  \E n \in 1 .. Burst : \E toks \in [1 .. n -> Token] :
    /\ valid' = Mirrored(Grown(n))
    /\ slab' = Written(toks, Grown(n))
    /\ ctx' = SubSeq(ctx \o toks, 1, Least(Len(ctx) + n, MaxRows))
    /\ last' = Other
    /\ UNCHANGED <<width, src, mark, dirty, image>>

(* tt_kv_mark_create.  The caller keeps one mark at a time.                *)
KvMark ==
  /\ mark' = <<[len |-> valid, ctx |-> ctx]>>
  /\ last' = Other
  /\ UNCHANGED <<width, src, valid, slab, ctx, dirty, image>>

(* tt_kv_restore: the rows behind the mark stay as they are.               *)
KvRestore ==
  /\ mark # <<>>
  /\ valid' = mark[1].len /\ ctx' = mark[1].ctx
  /\ dirty' = Most(dirty, Len(ctx))
  /\ last' = Other
  /\ UNCHANGED <<width, src, slab, mark, image>>

(* tt_kv_truncate.  The caller clears the ranges, if it asked for them, and*)
(* gives up a mark that stands for more than is left.                      *)
Shortened(n) == [l \in Layers |-> Least(n, valid[l])]
ZeroRange_meta(l, new) == [offset |-> new[l] * HeadDim, n |-> (valid[l] - new[l]) * HeadDim]
ZeroRange(l, new) == [offset |-> new[l] * width[l], n |-> (valid[l] - new[l]) * width[l]]
Cleared(new) ==
  [e \in DOMAIN slab |->
     LET z == ZeroRange(LayerOf(e), new)
     IN IF Inside(e) \in z.offset .. z.offset + z.n - 1 THEN Zero ELSE slab[e]]

KvTruncate ==
  \E n \in 0 .. MaxRows, emit_zero \in BOOLEAN :
    /\ valid' = Shortened(n)
    /\ slab' = IF emit_zero THEN Cleared(Shortened(n)) ELSE slab
    /\ ctx' = SubSeq(ctx, 1, Least(n, Len(ctx)))
    /\ dirty' = IF emit_zero THEN dirty ELSE Most(dirty, Len(ctx))
    /\ mark' = IF mark # <<>> /\ n < Len(mark[1].ctx) THEN <<>> ELSE mark
    /\ last' = Other
    /\ UNCHANGED <<width, src, image>>

-----------------------------------------------------------------------------
(* The image, by words of four bytes: a header of 16, three words a layer, *)
(* two of checksum.  A word is <<its value>>.  A 64-bit FNV-1a sum differs *)
(* whenever one byte does; it stands for all that it covers.               *)
HDR == 16
Magic == 5
Version == 1
dtype_size == 4
put_u32(v) == <<v % W>>
put_i64(v) == <<<<v % W>>, <<(v \div W) % W>>>>
Signed(x)  == IF x >= W \div 2 THEN x - W ELSE x
checksum(ws) == <<<<"lo", ws>>, <<"hi", ws>>>>
PerLayer(f) == [k \in 1 .. NLayers |-> put_u32(f[k - 1])]

Covered ==
  <<put_u32(Magic), put_u32(Version), put_u32(0), put_u32(4 * HDR),
    put_u32(NLayers), put_u32(MaxRows), put_u32(HeadDim), put_u32(dtype_size)>>
  \o put_i64(CachePer(width)) \o put_i64(CachePer(width) * NLayers * dtype_size)
  \o [k \in 1 .. 4 |-> put_u32(0)]
  \o PerLayer(width) \o PerLayer(src) \o PerLayer(valid)

(* tt_kv_serialize, and the dump of the slab.                              *)
Save ==
  /\ image' = <<[words |-> Covered \o checksum(Covered), of |-> cache]>>
  /\ last' = Other
  /\ UNCHANGED <<width, src, valid, slab, ctx, mark, dirty>>

(* What is read back: the image as stored, with one byte changed, or       *)
(* without its end.                                                        *)
Damaged(w, d) == IF Len(w) = 1 THEN <<(w[1] + d) % W>> ELSE Append(w, d)
Readings(ws) ==
  {ws} \cup {[ws EXCEPT ![k] = Damaged(@, d)] : k \in DOMAIN ws, d \in Changes}
       \cup {SubSeq(ws, 1, n) : n \in 0 .. Len(ws) - 1}

(* tt_kv_deserialize, in the order of its checks.                          *)
Need(n) == HDR + 3 * n + 2
LayersIn(ws) == ws[5][1]
Column(ws, c) == [l \in 0 .. LayersIn(ws) - 1 |-> ws[HDR + c * LayersIn(ws) + l + 1][1]]
WidthIn(ws) == [l \in DOMAIN Column(ws, 0) |-> Signed(Column(ws, 0)[l])]
SrcIn(ws)   == [l \in DOMAIN Column(ws, 1) |-> Signed(Column(ws, 1)[l])]
ValidIn(ws) == Column(ws, 2)

SumHolds_unasked(ws) == TRUE
SumHolds(ws) ==
  LET n == Need(LayersIn(ws)) IN SubSeq(ws, n - 1, n) = checksum(SubSeq(ws, 1, n - 2))

Deserialized(ws) ==
  CASE Len(ws) < Need(1) -> -4
    [] Len(ws) >= Need(1) /\ (ws[1] # put_u32(Magic) \/ ws[2] # put_u32(Version)) -> -2
    [] OTHER -> IF Len(ws) < Need(LayersIn(ws)) THEN -4
                ELSE IF ~SumHolds(ws) THEN -3
                ELSE IF ~cfg_sane(WidthIn(ws), SrcIn(ws)) THEN -5 ELSE 0

(* A session is resumed where the image is accepted; the dumped slab comes *)
(* back with it, and marks of the old cache are given up.                  *)
Resume(ws) ==
  IF Deserialized(ws) = 0
  THEN /\ width' = WidthIn(ws) /\ src' = SrcIn(ws) /\ valid' = ValidIn(ws)
       /\ slab' = image[1].of.slab /\ ctx' = image[1].of.ctx /\ dirty' = image[1].of.dirty
       /\ mark' = <<>>
  ELSE UNCHANGED <<width, src, valid, slab, ctx, dirty, mark>>
Load ==
  /\ image # <<>>
  /\ \E ws \in Readings(image[1].words) :
       /\ Resume(ws)
       /\ last' = [rc |-> Deserialized(ws), intact |-> ws = image[1].words]
  /\ UNCHANGED image

KvCacheNext == KvAppend \/ KvMark \/ KvRestore \/ KvTruncate \/ Save \/ Load

KvCacheSpec == KvCacheInit /\ [][KvCacheNext]_kvVars

-----------------------------------------------------------------------------
(* Every layer, with rows of its own or a source's, reads exactly the      *)
(* context: after appends past the capacity, rejected drafts, marks and    *)
(* resumed sessions.                                                       *)
LayersReadContext ==
  \A l \in Layers :
    /\ valid[l] = Len(ctx)
    /\ \A t \in 0 .. Len(ctx) - 1, i \in 0 .. width[Owner(l)] - 1 :
         slab[Address(Owner(l), t, i)] = <<ctx[t + 1], t, i>>

(* Rows dropped by a clearing truncation leave nothing behind: beyond the  *)
(* context and the rows dropped without, slabs are zero, whatever the      *)
(* widths of their layers; those of sharing layers are zero all over.      *)
TailsCleared ==
  \A e \in DOMAIN slab :
    src[LayerOf(e)] >= 0 \/ SlotOf(e) >= Most(Len(ctx), dirty) => slab[e] = Zero

(* Each element of the slabs is known: the context's where a layer has it, *)
(* and nothing behind.                                                     *)
SlabExact == LayersReadContext /\ TailsCleared

(* A cache is resumed exactly as it was saved, from an image as it was     *)
(* written and from no other, and a refused image changes nothing.         *)
ResumeExact ==
  [][/\ last'.rc = 0 => last'.intact /\ cache' = image[1].of
     /\ last'.rc < 0 => ~last'.intact /\ UNCHANGED cache]_kvVars

=============================================================================
