------------------------------- MODULE Pretok -------------------------------
(***************************************************************************)
(* The pre-tokenizers of src/tokenizer_bpe.c: hand-written scanners that   *)
(* cut a text into the pieces byte-pair merging is confined to.            *)
(*                                                                         *)
(* A text is a sequence of code points, each a one-character string;       *)
(* `Flags` gives the class the Unicode table has for it.  A scanner is a   *)
(* function of the text and of the first and last position it may look at, *)
(* and returns the end of the first piece: the C loops call it again from  *)
(* there.  Behind the last position there is nothing, which has no flags.  *)
(***************************************************************************)
EXTENDS Integers, Sequences

Letters == {"a", "b", "é", "s", "t", "m", "d", "r", "e", "v", "l", "S", "E"}
Numbers == {"1"}
Spaces == {" ", "\n", "\t"}
Newlines == {"\n"}

(* uni_flags; what is in no table is UNDEFINED, which is no class either.  *)
Flags(c) == IF c \in Letters THEN "letter" ELSE IF c \in Numbers THEN "number"
            ELSE IF c \in Spaces THEN "space" ELSE "other"

Lower(c) == IF c = "S" THEN "s" ELSE IF c = "E" THEN "e" ELSE c

Nothing == "none"
Cpt(s, hi, i) == IF i <= hi THEN s[i] ELSE Nothing
FlagsAt(s, hi, i) == IF i <= hi THEN Flags(s[i]) ELSE Nothing

(* The end of the run of class f that starts at i: i - 1 if there is none. *)
Run(s, hi, i, F) ==
  CHOOSE e \in i - 1 .. hi : /\ \A k \in i .. e : FlagsAt(s, hi, k) \in F
                             /\ FlagsAt(s, hi, e + 1) \notin F

RunOf(s, hi, i, C) ==
  CHOOSE e \in i - 1 .. hi : /\ \A k \in i .. e : s[k] \in C
                             /\ Cpt(s, hi, e + 1) \notin C

Contraction(s, hi, i, lower) ==
  LET C(k) == IF lower THEN Lower(Cpt(s, hi, k)) ELSE Cpt(s, hi, k)
  IN IF Cpt(s, hi, i) # "'" THEN 0
     ELSE IF C(i + 1) \in {"s", "t", "m", "d"} THEN 2
     ELSE IF <<C(i + 1), C(i + 2)>> \in {<<"r", "e">>, <<"v", "e">>, <<"l", "l">>} THEN 3
     ELSE 0

(* The end of a run of white space; one that something follows leaves its  *)
(* last character to what follows.                                         *)
BlankEnd_greedy(s, hi, i) == Run(s, hi, i, {"space"})
BlankEnd(s, hi, i) ==
  LET e == Run(s, hi, i, {"space"}) IN IF e > i /\ e < hi THEN e - 1 ELSE e

-----------------------------------------------------------------------------
(* split_gpt2.                                                             *)
GptEnd(s, hi, i) ==
  LET sp == IF s[i] = " " THEN 1 ELSE 0
      f2 == FlagsAt(s, hi, i + sp)
      k == Contraction(s, hi, i, FALSE)
  IN IF k # 0 THEN i + k - 1
     ELSE IF f2 \in {"letter", "number", "other"} THEN Run(s, hi, i + sp, {f2})
     ELSE BlankEnd(s, hi, i)

(* split_llama3, with groups of `digits` digits at the most.               *)
LlamaEnd(s, hi, i, digits) ==
  LET f == FlagsAt(s, hi, i)
      sp == IF s[i] = " " THEN 1 ELSE 0
      f2 == FlagsAt(s, hi, i + sp)
      k == Contraction(s, hi, i, TRUE)
      e == Run(s, hi, i, {"space"})
      rn == {j \in i .. e : s[j] \in Newlines}
      d == Run(s, hi, i, {"number"})
  IN IF k # 0 THEN i + k - 1
     ELSE IF s[i] \notin Newlines /\ f # "number"
             /\ "letter" \in {f, FlagsAt(s, hi, i + 1)} THEN Run(s, hi, i + 1, {"letter"})
     ELSE IF f = "number" THEN IF d - i + 1 > digits THEN i + digits - 1 ELSE d
     ELSE IF f2 \in {"other", Nothing}
       THEN RunOf(s, hi, Run(s, hi, i + sp, {"other"}) + 1, Newlines)
     ELSE IF rn # {} THEN CHOOSE j \in rn : \A m \in rn : m <= j
     ELSE BlankEnd(s, hi, i)

(* split_ggml.                                                             *)
GgmlEnd(s, hi, i) ==
  LET e == Run(s, hi, i, {"letter", "number"}) IN IF e >= i THEN e ELSE i

(* The first pass of smollm: each digit apart, and the gaps between.       *)
GapEnd(s, i) ==
  IF Flags(s[i]) = "number" THEN i ELSE Run(s, Len(s), i, {"letter", "space", "other"})

-----------------------------------------------------------------------------
(* pretok_split: the ends of all pieces.                                   *)
Families == {"qwen2", "llama3", "smollm", "ggml", "gpt2"}

PieceEnds(fam, s) ==
  LET Gap[i \in 0 .. Len(s)] ==   \* the end of smollm's gap position i is in
        IF i = 0 THEN 0 ELSE IF Gap[i - 1] >= i THEN Gap[i - 1] ELSE GapEnd(s, i)
      EndOf(i) == CASE fam = "qwen2" -> LlamaEnd(s, Len(s), i, 1)
                    [] fam = "llama3" -> LlamaEnd(s, Len(s), i, 3)
                    [] fam = "smollm" -> GptEnd(s, Gap[i], i)
                    [] fam = "ggml" -> GgmlEnd(s, Len(s), i)
                    [] fam = "gpt2" -> GptEnd(s, Len(s), i)
      Last[i \in 0 .. Len(s)] ==  \* the end of the piece position i is in
        IF i = 0 THEN 0 ELSE IF Last[i - 1] >= i THEN Last[i - 1] ELSE EndOf(i)
  IN {Last[i] : i \in 1 .. Len(s)}

-----------------------------------------------------------------------------
(* The regular expressions the scanners stand for, as the comments of      *)
(* src/tokenizer_bpe.c write them: what PieceEnds is compared with.  An    *)
(* alternative is the set of texts it matches (with what follows, for a    *)
(* look-ahead); a match takes the first alternative with a match, and the  *)
(* longest match of that one.                                              *)

LOCAL All(s, F) == \A k \in DOMAIN s : Flags(s[k]) \in F
LOCAL Many(s, f) == s # <<>> /\ All(s, {f})
LOCAL AfterBlank(s) == IF s # <<>> /\ s[1] = " " THEN Tail(s) ELSE s
LOCAL Contractions == {<<"'", "s">>, <<"'", "t">>, <<"'", "r", "e">>, <<"'", "v", "e">>,
                       <<"'", "m">>, <<"'", "l", "l">>, <<"'", "d">>}
LOCAL Lowered(s) == [k \in DOMAIN s |-> Lower(s[k])]

(* \s+(?!\S) and \s+                                                       *)
LOCAL Blanks(s, rest) == Many(s, "space") /\ (rest = <<>> \/ Flags(rest[1]) = "space")
LOCAL SomeBlanks(s, rest) == Many(s, "space")

(* (?i:...)|[^\r\n\p{L}\p{N}]?\p{L}+|\p{N}{1,n}                            *)
(* | ?[^\s\p{L}\p{N}]+[\r\n]*|\s*[\r\n]+                                   *)
LOCAL MatchesLlama(alt, digits, s, rest) ==
  CASE alt = 1 -> Lowered(s) \in Contractions
    [] alt = 2 -> \/ Many(s, "letter")
                  \/ s # <<>> /\ s[1] # "\n" /\ Flags(s[1]) # "number" /\ Many(Tail(s), "letter")
    [] alt = 3 -> Many(s, "number") /\ Len(s) <= digits
    [] alt = 4 -> \E k \in 1 .. Len(s) : /\ Many(AfterBlank(SubSeq(s, 1, k)), "other")
                                         /\ \A j \in k + 1 .. Len(s) : s[j] = "\n"
    [] alt = 5 -> Many(s, "space") /\ s[Len(s)] = "\n"
    [] alt = 6 -> Blanks(s, rest)
    [] alt = 7 -> SomeBlanks(s, rest)

(* 's|'t|'re|'ve|'m|'ll|'d| ?\p{L}+| ?\p{N}+| ?[^\s\p{L}\p{N}]+            *)
LOCAL MatchesGpt(alt, s, rest) ==
  CASE alt = 1 -> s \in Contractions
    [] alt = 2 -> Many(AfterBlank(s), "letter")
    [] alt = 3 -> Many(AfterBlank(s), "number")
    [] alt = 4 -> Many(AfterBlank(s), "other")
    [] alt = 5 -> Blanks(s, rest)
    [] alt = 6 -> SomeBlanks(s, rest)

LOCAL MatchesGgml(alt, s, rest) ==
  IF alt = 1 THEN s # <<>> /\ All(s, {"letter", "number"}) ELSE Len(s) = 1

(* Within the text s, the end of the match at position i.                  *)
LOCAL MatchEnd(fam, s, i) ==
  LET Matches(alt, e) ==
        LET t == SubSeq(s, i, e)
            rest == SubSeq(s, e + 1, Len(s))
        IN CASE fam = "qwen2" -> MatchesLlama(alt, 1, t, rest)
             [] fam = "llama3" -> MatchesLlama(alt, 3, t, rest)
             [] fam = "ggml" -> MatchesGgml(alt, t, rest)
             [] OTHER -> MatchesGpt(alt, t, rest)
      alts == CASE fam \in {"qwen2", "llama3"} -> 1 .. 7
                [] fam = "ggml" -> 1 .. 2
                [] OTHER -> 1 .. 6
      hit == CHOOSE a \in alts : /\ \E e \in i .. Len(s) : Matches(a, e)
                                 /\ \A b \in alts : b < a => \A e \in i .. Len(s) : ~Matches(b, e)
  IN CHOOSE e \in i .. Len(s) : Matches(hit, e) /\ \A g \in e + 1 .. Len(s) : ~Matches(hit, g)

LOCAL EndsOf(fam, s) ==
  LET Last[i \in 0 .. Len(s)] ==
        IF i = 0 THEN 0 ELSE IF Last[i - 1] >= i THEN Last[i - 1] ELSE MatchEnd(fam, s, i)
  IN {Last[i] : i \in 1 .. Len(s)}

(* smollm: first \p{N}, each digit a text of its own, then GPT-2's.        *)
RegexEnds(fam, s) ==
  IF fam # "smollm" THEN EndsOf(fam, s)
  ELSE LET Digit(i) == i \in 1 .. Len(s) /\ Flags(s[i]) = "number"
           starts == {i \in 1 .. Len(s) : i = 1 \/ Digit(i) \/ Digit(i - 1)}
           EndOf(i) == CHOOSE e \in i .. Len(s) :
                         (e = Len(s) \/ e + 1 \in starts) /\ \A j \in i + 1 .. e : j \notin starts
       IN UNION {{i - 1 + e : e \in EndsOf("smollm", SubSeq(s, i, EndOf(i)))} : i \in starts}

=============================================================================
