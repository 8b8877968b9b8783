----------------------------- MODULE Tokenizer -----------------------------
(***************************************************************************)
(* Encoding and decoding of src/tokenizer_bpe.c.                           *)
(*                                                                         *)
(* A text is a sequence of bytes, each a string of its own: an ASCII       *)
(* character stands for its byte, "C3", "A9", ... for a byte of a longer   *)
(* UTF-8 sequence.  A token is its vocabulary text; where byte-level       *)
(* vocabularies write another character for a byte, that is the byte.      *)
(* A tokenizer t is a record of what bpe_tokenizer_init reads:             *)
(*   sp      SentencePiece vocabulary, as opposed to byte-level BPE        *)
(*   pre     family of the pre-tokenizer (BPE)                             *)
(*   vocab   texts of the tokens; first is that of token 0                 *)
(*   merges  pairs in order of their rank (BPE)                            *)
(*   scores  score of each token, or an empty function if there are none   *)
(*   bos     text of the BOS token, <<>> if there is none                  *)
(*   addBos  whether BPE texts get one                                     *)
(***************************************************************************)
EXTENDS Pretok, FiniteSets
LOCAL INSTANCE SequencesExt
LOCAL INSTANCE FiniteSetsExt

Continuation == {"96", "81", "A9"}
Mark == <<"E2", "96", "81">>  \* the character SentencePiece writes for a space
ByteToken(b) == <<"<0x", b, ">">>
Unk == <<"<unk>">>
UnkPenalty == 10

(* utf8_len_from_byte                                                      *)
Width(b) == IF b = "E2" THEN 3 ELSE IF b = "C3" THEN 2 ELSE 1

(* utf8_dec: the length of the character at i, 0 if it is none.            *)
Decodes(s, i) ==
  LET n == Width(s[i])
  IN IF s[i] \in Continuation \/ i + n - 1 > Len(s) THEN 0
     ELSE IF \A k \in i + 1 .. i + n - 1 : s[k] \in Continuation THEN n ELSE 0

-----------------------------------------------------------------------------
(* Control tokens.                                                         *)

(* looks_like_control_token: by its text alone, wherever its brackets are. *)
IsControl(w) ==
  /\ Len(w) <= 64 /\ {"<", ">"} \subseteq {w[i] : i \in DOMAIN w}
  /\ \A i \in DOMAIN w : w[i] \notin {"E2", "C4"}
Specials(t) == {w \in t.vocab : IsControl(w)}

(* specials_match: the longest one at i.                                   *)
SpecialsAt(t, s, i) ==
  {w \in Specials(t) : i + Len(w) - 1 <= Len(s) /\ SubSeq(s, i, i + Len(w) - 1) = w}
Matched_shortest(t, s, i) ==
  CHOOSE w \in SpecialsAt(t, s, i) : \A v \in SpecialsAt(t, s, i) : Len(w) <= Len(v)
Matched(t, s, i) ==
  CHOOSE w \in SpecialsAt(t, s, i) : \A v \in SpecialsAt(t, s, i) : Len(v) <= Len(w)

-----------------------------------------------------------------------------
(* Byte-level BPE.                                                         *)

(* The rank of two adjacent symbols is looked up by their joint text; of   *)
(* merges with the same text, the last one counts.                         *)
Ranks(t, w) == {r \in DOMAIN t.merges : t.merges[r][1] \o t.merges[r][2] = w}
Ranked(t, syms) == {j \in 1 .. Len(syms) - 1 : Ranks(t, syms[j] \o syms[j + 1]) # {}}
RankAt(t, syms, j) ==
  LET R == Ranks(t, syms[j] \o syms[j + 1]) IN CHOOSE r \in R : \A q \in R : q <= r

(* The pair with the lowest rank, the first of several.                    *)
Best_last(t, syms) ==
  CHOOSE j \in Ranked(t, syms) : \A k \in Ranked(t, syms) :
    RankAt(t, syms, j) < RankAt(t, syms, k) \/ (RankAt(t, syms, j) = RankAt(t, syms, k) /\ k <= j)
Best(t, syms) ==
  CHOOSE j \in Ranked(t, syms) : \A k \in Ranked(t, syms) :
    RankAt(t, syms, j) < RankAt(t, syms, k) \/ (RankAt(t, syms, j) = RankAt(t, syms, k) /\ j <= k)

Joined(syms, j) ==
  SubSeq(syms, 1, j - 1) \o <<syms[j] \o syms[j + 1]>> \o SubSeq(syms, j + 2, Len(syms))

Bytes(w) == [i \in DOMAIN w |-> <<w[i]>>]
Merged(t, w) ==
  LET After[n \in 0 .. Len(w)] ==
        IF n = 0 THEN Bytes(w)
        ELSE IF Ranked(t, After[n - 1]) = {} THEN After[n - 1]
        ELSE Joined(After[n - 1], Best(t, After[n - 1]))
  IN After[Len(w)]

(* A symbol that is no token falls back to tokens of its bytes, as far as  *)
(* there are any.                                                          *)
ByteFallback(t, w) == SelectSeq([i \in DOMAIN w |-> ByteToken(w[i])], LAMBDA b : b \in t.vocab)
EncodeWord(t, w) ==
  IF t.pre = "llama3" /\ Len(w) > 1 /\ w \in t.vocab THEN <<w>>
  ELSE LET syms == Merged(t, w)
       IN FlattenSeq([j \in DOMAIN syms |->
                        IF syms[j] \in t.vocab THEN <<syms[j]>> ELSE ByteFallback(t, syms[j])])

(* encode_bpe_segment: characters, pieces, merges; a byte that is part of  *)
(* no character counts as one.  Characters of several bytes are letters.   *)
CharLens(s) ==
  LET Owner[i \in 0 .. Len(s)] ==   \* the end of the character byte i is in
        IF i = 0 THEN 0 ELSE IF Owner[i - 1] >= i THEN Owner[i - 1]
        ELSE IF Decodes(s, i) = 0 THEN i ELSE i + Decodes(s, i) - 1
  IN SetToSortSeq({Owner[i] : i \in 1 .. Len(s)}, <)
EncodeBpe(t, s) ==
  LET last == CharLens(s)
      Start(k) == IF k = 1 THEN 1 ELSE last[k - 1] + 1
      cps == [k \in DOMAIN last |-> IF Start(k) < last[k] THEN "é"
                                    ELSE IF Decodes(s, last[k]) = 0 THEN "?" ELSE s[last[k]]]
      ends == SetToSortSeq(PieceEnds(t.pre, cps), <)
      From(k) == IF k = 1 THEN 1 ELSE last[ends[k - 1]] + 1
  IN FlattenSeq([k \in DOMAIN ends |-> EncodeWord(t, SubSeq(s, From(k), last[ends[k]]))])

-----------------------------------------------------------------------------
(* SentencePiece: the best path through the vocabulary.                    *)

Score(t, w) == IF w \in DOMAIN t.scores THEN t.scores[w] ELSE 0
Lowest(t) ==
  IF DOMAIN t.scores = {} THEN -10
  ELSE LET S == {t.scores[w] : w \in DOMAIN t.scores} IN CHOOSE x \in S : \A y \in S : x <= y
UnkToken(t) == IF Unk \in t.vocab THEN Unk ELSE t.first

(* What a character stands for that is no token of its own.                *)
Fallback(t, b) ==
  IF ByteToken(b) \in t.vocab THEN [id |-> ByteToken(b), score |-> Score(t, ByteToken(b))]
                              ELSE [id |-> UnkToken(t), score |-> Lowest(t) - UnkPenalty]

(* Where the forward pass stops: at characters as their first byte counts  *)
(* them.  Steps(t, m, i) are the tokens it tries there, by their end.      *)
Starts(m) ==
  LET Next[i \in 0 .. Len(m)] ==   \* the start of the character after byte i
        IF i = 0 THEN 1 ELSE IF Next[i - 1] = i THEN i + Width(m[i]) ELSE Next[i - 1]
  IN {Next[i] : i \in 0 .. Len(m)} \cap 1 .. Len(m)
UnitEnd(m, i) == LET e == i + Width(m[i]) - 1 IN IF e < Len(m) THEN e ELSE Len(m)

Steps_short(t, m, i) ==
  LET found == {e \in i .. Len(m) - 1 : SubSeq(m, i, e) \in t.vocab}
  IN [e \in found \cup {UnitEnd(m, i)} |->
        IF e \in found THEN [id |-> SubSeq(m, i, e), score |-> Score(t, SubSeq(m, i, e))]
                       ELSE Fallback(t, m[i])]
Steps(t, m, i) ==
  LET found == {e \in i .. Len(m) : SubSeq(m, i, e) \in t.vocab}
  IN [e \in found \cup {UnitEnd(m, i)} |->
        IF e \in found THEN [id |-> SubSeq(m, i, e), score |-> Score(t, SubSeq(m, i, e))]
                       ELSE Fallback(t, m[i])]

(* best_score, best_prev, best_id: the best way to the end of each byte.   *)
Unreached == [reached |-> FALSE, score |-> 0, prev |-> 0, id |-> <<>>]
Forward(t, m) ==
  LET Visit(best, i) ==
        IF ~best[i - 1].reached THEN best
        ELSE LET S == Steps(t, m, i)
             IN [e \in 0 .. Len(m) |->
                   IF e \notin DOMAIN S THEN best[e]
                   ELSE LET new == best[i - 1].score + S[e].score
                        IN IF ~best[e].reached \/ new > best[e].score
                             THEN [reached |-> TRUE, score |-> new, prev |-> i - 1, id |-> S[e].id]
                             ELSE best[e]]
  IN FoldLeft(Visit, [e \in 0 .. Len(m) |-> [Unreached EXCEPT !.reached = e = 0]],
              SetToSortSeq(Starts(m), <))

Path(t, m) ==
  LET best == Forward(t, m)
      Back[e \in 0 .. Len(m)] == IF e = 0 THEN <<>> ELSE Append(Back[best[e].prev], best[e].id)
  IN Back[Len(m)]

(* Of consecutive unknowns one is left.                                    *)
OneUnk(t, ids) ==
  LET kept == {k \in DOMAIN ids : ids[k] # UnkToken(t) \/ k = 1 \/ ids[k - 1] # UnkToken(t)}
  IN [n \in 1 .. Cardinality(kept) |-> ids[SetToSortSeq(kept, <)[n]]]

Marked(s, dummy) ==
  (IF dummy THEN Mark ELSE <<>>)
  \o FlattenSeq([i \in DOMAIN s |-> IF s[i] = " " THEN Mark ELSE <<s[i]>>])
EncodeSp(t, s, dummy) ==
  LET m == Marked(s, dummy) IN IF m = <<>> THEN <<>> ELSE OneUnk(t, Path(t, m))

-----------------------------------------------------------------------------
(* Where a BOS goes in front: SentencePiece asks no setting, but looks     *)
(* whether the text has one; BPE does the reverse.                         *)
Prepends_twice(t, s) == t.bos # <<>> /\ IF t.sp THEN s # <<>> ELSE t.addBos
Prepends(t, s) ==
  /\ t.bos # <<>>
  /\ IF t.sp THEN s # <<>> /\ (SpecialsAt(t, s, 1) # {} => Matched(t, s, 1) # t.bos)
             ELSE t.addBos

(* bpe_encode, into a buffer of `max` tokens (two at least): control       *)
(* tokens whole, what is between them by the vocabulary's own rule.  A     *)
(* stretch ends where a control token that begins with "<" matches.        *)
Encode(t, s, max) ==
  LET SegEnd(i) ==
        LET ends == {q \in i .. Len(s) : s[q] = "<" /\ SpecialsAt(t, s, q) # {}}
        IN IF ends = {} THEN Len(s) ELSE (CHOOSE q \in ends : \A r \in ends : q <= r) - 1
      Segment(i, e) == IF t.sp THEN EncodeSp(t, SubSeq(s, i, e), i = 1) ELSE EncodeBpe(t, SubSeq(s, i, e))
      From[i \in 1 .. Len(s) + 1] ==
        IF i > Len(s) THEN <<>>
        ELSE IF SpecialsAt(t, s, i) # {} THEN <<Matched(t, s, i)>> \o From[i + Len(Matched(t, s, i))]
        ELSE Segment(i, SegEnd(i)) \o From[SegEnd(i) + 1]
      all == (IF Prepends(t, s) THEN <<t.bos>> ELSE <<>>) \o From[1]
  IN SubSeq(all, 1, IF max < Len(all) THEN max ELSE Len(all))

(* bpe_decode_token.                                                       *)
DecodeToken(t, w) ==
  IF ~t.sp THEN w
  ELSE IF \E b \in {w[i] : i \in DOMAIN w} : w = ByteToken(b) THEN <<w[2]>>
  ELSE LET At(i) == i >= 1 /\ i + 2 <= Len(w) /\ SubSeq(w, i, i + 2) = Mark
       IN FlattenSeq([i \in DOMAIN w |-> IF At(i) THEN <<" ">>
                                         ELSE IF At(i - 1) \/ At(i - 2) THEN <<>> ELSE <<w[i]>>])
Decode(t, ids) == FlattenSeq([k \in DOMAIN ids |-> DecodeToken(t, ids[k])])

-----------------------------------------------------------------------------
(***************************************************************************)
(* Texts of growing length, and what the algorithms are meant to compute.  *)
(***************************************************************************)
CONSTANT Cases  \* what to tokenize: [tok, bytes, most]

(* Byte-pair encoding proper: a merge applies to its own two symbols.      *)
Places(t, syms, r) ==
  {j \in 1 .. Len(syms) - 1 : t.merges[r] = <<syms[j], syms[j + 1]>>}
PairMerged(t, w) ==
  LET Applicable(syms) == {r \in DOMAIN t.merges : Places(t, syms, r) # {}}
      Round(syms) == IF Applicable(syms) = {} THEN syms
                     ELSE Joined(syms, Min(Places(t, syms, Min(Applicable(syms)))))
      After[n \in 0 .. Len(w)] == IF n = 0 THEN Bytes(w) ELSE Round(After[n - 1])
  IN After[Len(w)]

(* A table as training leaves it: each merge is the last one its own text  *)
(* needs.                                                                  *)
Trained(t) ==
  \A r \in DOMAIN t.merges :
    PairMerged([t EXCEPT !.merges = RemoveAt(@, r)], t.merges[r][1] \o t.merges[r][2]) = t.merges[r]

ASSUME CasesAssumption ==
  \A c \in Cases : c.most \in Nat /\ c.tok.first \in c.tok.vocab /\ Trained(c.tok)

VARIABLES case, text

tokenizingVars == <<case, text>>

TokenizingInit == case \in Cases /\ text = <<>>
Grow ==
  /\ Len(text) < case.most
  /\ \E b \in case.bytes : text' = Append(text, b)
  /\ UNCHANGED case
TokenizingSpec == TokenizingInit /\ [][Grow]_tokenizingVars

tok == case.tok

-----------------------------------------------------------------------------
(* The scanners cut every text where the regular expressions in their      *)
(* comments would, runs of white space and look-ahead included.         *)
PiecesMatchRegex ==
  ~tok.sp => PieceEnds(tok.pre, text) = RegexEnds(tok.pre, text)

(* Although ranks are looked up by the joint text of two symbols, whatever *)
(* two symbols the merge was of, a trained table merges every text as      *)
(* byte-pair encoding does.                                                *)
MergesFollowPairs ==
  ~tok.sp => Merged(tok, text) = PairMerged(tok, text)

(* The forward pass finds the best of all ways to cut the text into tokens *)
(* and, where a character is none, its fallback.                           *)
BestSegmentation ==
  tok.sp /\ text # <<>> =>
    LET m == Marked(text, TRUE)
        To(i, cuts) == Min({c \in cuts \cup {Len(m) + 1} : c > i}) - 1
        Known(i, e) == SubSeq(m, i, e) \in tok.vocab
        Legal(i, e) == Known(i, e) \/ e = UnitEnd(m, i)
        Part(i, e) == IF Known(i, e) THEN [id |-> SubSeq(m, i, e), score |-> Score(tok, SubSeq(m, i, e))]
                                     ELSE Fallback(tok, m[i])
        Parts(cuts) == LET at == SetToSortSeq(cuts \cup {1}, <)
                       IN [k \in DOMAIN at |-> Part(at[k], To(at[k], cuts))]
        Sum(parts) == FoldLeft(LAMBDA a, p : a + p.score, 0, parts)
        ways == {Parts(cuts) : cuts \in {C \in SUBSET (Starts(m) \ {1}) :
                                           \A i \in C \cup {1} : Legal(i, To(i, C))}}
        chosen == Path(tok, m)
        mine == {w \in ways : [k \in DOMAIN w |-> w[k].id] = chosen}
    IN mine # {} /\ \A w \in ways : \E x \in mine : Sum(w) <= Sum(x)

(* Decoding the tokens of a text gives the text back, control tokens in it *)
(* included, behind exactly one BOS where the vocabulary wants one and the *)
(* blank SentencePiece begins with; as long as every character is a token, *)
(* or a single byte that has one.                                          *)
Covered ==
  IF tok.sp
    THEN LET m == Marked(text, TRUE)
         IN /\ Unk \in tok.vocab
            /\ \A i \in Starts(m) : \/ SubSeq(m, i, UnitEnd(m, i)) \in tok.vocab
                                    \/ (Width(m[i]) = 1 /\ ByteToken(m[i]) \in tok.vocab)
    ELSE \A i \in DOMAIN text : <<text[i]>> \in tok.vocab

TextComesBack ==
  Covered =>
    LET control == IF text = <<>> THEN {} ELSE SpecialsAt(tok, text, 1)
        begun == tok.bos \in control /\ \A w \in control : Len(w) <= Len(tok.bos)
        front == IF IF tok.sp THEN text = <<>> \/ begun ELSE ~tok.addBos THEN <<>> ELSE tok.bos
        blank == IF tok.sp /\ text # <<>> /\ control = {} THEN <<" ">> ELSE <<>>
    IN Decode(tok, Encode(tok, text, 64)) = front \o blank \o text

=============================================================================
