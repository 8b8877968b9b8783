---------------------------- MODULE MCTokenizer ----------------------------
(* Small vocabularies for Tokenizer: one per family of pre-tokenizers,    *)
(* every trained table of three merges over two letters, and unigram       *)
(* vocabularies with different scores and coverage.                        *)
EXTENDS Tokenizer, TLC

Single(chars) == {<<c>> : c \in chars}
Bos == <<"<", "a", ">">>
Tags == {Bos, <<"<", "a", ">", ">">>, <<">", "<">>}

Bpe(pre, vocab, merges, addBos) ==
  [sp |-> FALSE, pre |-> pre, vocab |-> vocab, first |-> CHOOSE w \in vocab : TRUE,
   merges |-> merges, scores |-> <<>>, bos |-> Bos, addBos |-> addBos]
Sp(vocab, scores) ==
  [sp |-> TRUE, pre |-> "gpt2", vocab |-> vocab, first |-> Unk, merges |-> <<>>,
   scores |-> scores, bos |-> Bos, addBos |-> TRUE]
Case(t, bytes, most) == [tok |-> t, bytes |-> bytes, most |-> most]

(* Pre-tokenizers: contractions, white space, digits.                      *)
Alphabets == {{"'", "r", "e", "s", "S", "l", " "}, {" ", "\n", "a", "1", "."}, {"1", " ", "a"}}
Scanners ==
  {Case(Bpe(f, Single(A), <<>>, FALSE), A, IF "'" \in A THEN 4 ELSE IF "." \in A THEN 5 ELSE 6) :
     f \in Families, A \in Alphabets}

(* Merges.                                                                 *)
Merging == Single({"a", "b"})
Joins(S) == {<<l, r>> : l \in S, r \in S}
Text(p) == p[1] \o p[2]
Tables ==
  UNION {UNION {{<<p, q, r>> : r \in Joins(Merging \cup {Text(p), Text(q)})} :
                  q \in Joins(Merging \cup {Text(p)})} : p \in Joins(Merging)}
Trainees ==
  {Case(Bpe("gpt2", Merging \cup {Text(m[i]) : i \in 1 .. 3}, m, FALSE), {"a", "b"}, 5) : m \in Tables}
Mergers == {c \in Trainees : Trained(c.tok)}

(* Control tokens, bytes of longer characters, and byte fallback in BPE.   *)
Tagged ==
  {Case(Bpe(f, Single({"a", "<", ">", " ", "C3", "A9"}) \cup Tags \cup {<<"a", ">">>, <<"C3", "A9">>},
            <<<<<<"C3">>, <<"A9">>>>, <<<<"a">>, <<">">>>>>>, TRUE),
        {"a", "<", ">", " ", "C3", "A9"}, 4) : f \in {"llama3", "gpt2"}}

(* Unigram vocabularies.                                                   *)
Pieces == {Mark, <<"a">>, <<"b">>, <<"a", "b">>, <<"b", "a">>, Mark \o <<"a">>, <<"a", "b", "a">>}
Unigrams ==
  {Case(Sp(Pieces \cup Tags \cup {Unk}, [w \in Pieces \cup {Unk} |->
             IF w \in heavy THEN -4 ELSE IF Len(w) > 1 THEN -2 ELSE -1]),
        {"a", "b", " "}, 5) : heavy \in SUBSET {<<"a">>, <<"b">>, <<"a", "b">>, <<"b", "a">>}}
Uncovered ==
  {Case(Sp({Mark, <<"a">>, Unk} \cup extra \cup Tags, IF extra = {} THEN <<>> ELSE [w \in {<<"a">>} |-> -1]),
        {"a", "<", ">", "C3", "A9"}, 4) :
     extra \in {{}, {ByteToken("<"), ByteToken(">"), ByteToken("C3")}, Single({"<", ">"}) \cup {<<"C3", "A9">>, ByteToken("A9")}}}

MCCases == Scanners \cup Mergers \cup Tagged \cup Unigrams \cup Uncovered
=============================================================================
