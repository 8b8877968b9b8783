----------------------------- MODULE JsonStream -----------------------------
(***************************************************************************)
(* stream_json of python/tinyinference/model.py, one token per step: the   *)
(* vocabulary is masked with the grammar before every sample.  Which token *)
(* the engine samples is open, within the mask; an empty mask leaves every *)
(* logit at -inf and the sampler with token 0, whatever that is.           *)
(***************************************************************************)
EXTENDS JsonGrammar, FiniteSets

CONSTANTS
  Vocabs,    \* vocabularies: sets of tokens, each the bytes it decodes to
  Eos,       \* the text of the end-of-sequence token, a token of each vocabulary
  Prompts,   \* prompts generate_json is called with
  JsonLimit  \* limit

ASSUME JsonAssumption ==
  /\ \A v \in Vocabs : Eos \in v /\ v \subseteq Seq(STRING)
  /\ Prompts \subseteq Seq(STRING) /\ JsonLimit \in Nat

VARIABLES
  vocab,
  st,      \* cur, the grammar state
  doc,     \* the document so far
  rounds,  \* rounds of the loop left
  why      \* what ended the loop: "none" while it runs

jsonVars == <<vocab, st, doc, rounds, why>>

Bytes == UNION {{t[i] : i \in DOMAIN t} : t \in vocab}

JsonInit ==
  /\ vocab \in Vocabs /\ rounds = JsonLimit /\ why = "none"
  /\ doc \in {FromPrefix(p) : p \in Prompts}
  /\ \A i \in DOMAIN doc : <<doc[i]>> \in vocab  \* it was encoded
  /\ st = Accept(JState("value", <<>>), doc)

Mask ==
  {t \in vocab : t[1] \in AllowedFirst(st, Bytes) /\ Takes(st, t)}
    \cup (IF Complete(st) THEN {Eos} ELSE {})
Sampled == IF Mask = {} THEN vocab ELSE Mask

JsonLoopEnds ==
  /\ why = "none" /\ (Complete(st) \/ rounds = 0)
  /\ why' = IF Complete(st) THEN "complete" ELSE "limit"
  /\ UNCHANGED <<vocab, st, doc, rounds>>

JsonToken(t) ==
  /\ why = "none" /\ ~Complete(st) /\ rounds > 0
  /\ t \in Sampled /\ rounds' = rounds - 1
  /\ \/ t # Eos /\ Takes(st, t) /\ st' = Accept(st, t) /\ doc' = doc \o t /\ UNCHANGED why
     \/ t = Eos /\ why' = "eos" /\ UNCHANGED <<st, doc>>
     \/ t # Eos /\ ~Takes(st, t) /\ why' = "rejected" /\ UNCHANGED <<st, doc>>
  /\ UNCHANGED vocab

JsonNext == JsonLoopEnds \/ \E t \in vocab : JsonToken(t)

JsonSpec == JsonInit /\ [][JsonNext]_jsonVars

-----------------------------------------------------------------------------
(* What a JSON document is (RFC 8259), by splitting a whole text into its  *)
(* parts: the reference the automaton is compared with.                    *)

Blank == {" ", "\n"}
Nines == {"0", "1"}
Cut(s, i) == SubSeq(s, i + 1, Len(s))
Upto(s, i) == SubSeq(s, 1, i - 1)
AllOf(s, S) == \A i \in DOMAIN s : s[i] \in S

Stripped(s) ==
  LET solid == {i \in DOMAIN s : s[i] \notin Blank}
  IN IF solid = {} THEN <<>>
     ELSE SubSeq(s, CHOOSE i \in solid : \A j \in solid : i <= j,
                    CHOOSE i \in solid : \A j \in solid : j <= i)

IsInteger(s) ==
  LET d == IF s # <<>> /\ s[1] = "-" THEN Tail(s) ELSE s
  IN d = <<"0">> \/ (d # <<>> /\ AllOf(d, Nines) /\ d[1] # "0")
IsFraction(s) == s = <<>> \/ (Len(s) > 1 /\ s[1] = "." /\ AllOf(Tail(s), Nines))
IsExponent(s) ==
  \/ s = <<>>
  \/ /\ Len(s) > 1 /\ s[1] \in {"e", "E"}
     /\ LET d == IF s[2] \in {"+", "-"} THEN Cut(s, 2) ELSE Tail(s)
        IN d # <<>> /\ AllOf(d, Nines)
IsNumber(s) ==
  \E i \in 1 .. Len(s) : IsInteger(SubSeq(s, 1, i)) /\
    \E j \in i .. Len(s) : IsFraction(SubSeq(s, i + 1, j)) /\ IsExponent(Cut(s, j))

RECURSIVE AreCharacters(_)
AreCharacters(s) ==
  \/ s = <<>>
  \/ s[1] \notin {"\"", "\\", "\n"} /\ AreCharacters(Tail(s))
  \/ /\ Len(s) > 1 /\ s[1] = "\\" /\ s[2] \in {"\"", "\\", "/", "b", "f", "n", "r", "t"}
     /\ AreCharacters(Cut(s, 2))
  \/ /\ Len(s) > 5 /\ s[1] = "\\" /\ s[2] = "u"
     /\ AllOf(SubSeq(s, 3, 6), {"0", "1", "a", "b", "e", "f"})
     /\ AreCharacters(Cut(s, 6))

Enclosed(s, l, r) == Len(s) > 1 /\ s[1] = l /\ s[Len(s)] = r
Inside(s) == SubSeq(s, 2, Len(s) - 1)
IsString(s) == Enclosed(s, "\"", "\"") /\ AreCharacters(Inside(s))

RECURSIVE IsValue(_), AreItems(_), AreMembers(_)
IsMember(s) ==
  \E i \in DOMAIN s : s[i] = ":" /\ IsString(Stripped(Upto(s, i))) /\ IsValue(Stripped(Cut(s, i)))
AreItems(s) ==
  \/ IsValue(Stripped(s))
  \/ \E i \in DOMAIN s : s[i] = "," /\ IsValue(Stripped(Upto(s, i))) /\ AreItems(Cut(s, i))
AreMembers(s) ==
  \/ IsMember(s)
  \/ \E i \in DOMAIN s : s[i] = "," /\ IsMember(Upto(s, i)) /\ AreMembers(Cut(s, i))
IsValue(s) ==
  \/ s \in {<<"t", "r", "u", "e">>, <<"n", "u", "l", "l">>, <<"f", "a", "l", "s", "e">>}
  \/ IsNumber(s) \/ IsString(s)
  \/ Enclosed(s, "[", "]") /\ (Stripped(Inside(s)) = <<>> \/ AreItems(Inside(s)))
  \/ Enclosed(s, "{", "}") /\ (Stripped(Inside(s)) = <<>> \/ AreMembers(Inside(s)))

IsDocument(s) == IsValue(Stripped(s))

-----------------------------------------------------------------------------
JsonTypeOK ==
  st.mode # "refused" /\ st.unhex \in 0 .. 4 /\ rounds \in 0 .. JsonLimit

(* The automaton says a text is complete exactly when the text is a JSON   *)
(* document by the grammar: neither a truncated nor a malformed one.       *)
(* (Checked with the types.)                                               *)
CompleteMeansDocument == JsonTypeOK /\ (Complete(st) <=> IsDocument(doc))

Exponents(n) == {i \in DOMAIN n : n[i] \in Exponent}

(* Every byte advertised to candidate lookup is accepted, and no accepted  *)
(* byte is left out but the sign of an exponent and a doubled "e".         *)
FirstBytesExact ==
  \A b \in Bytes :
    /\ b \in AllowedFirst(st, Bytes) => Takes(st, <<b>>)
    /\ Takes(st, <<b>>) /\ b \notin AllowedFirst(st, Bytes) =>
         b \in Sign \cup Exponent /\ Exponents(st.num) # {} /\ WantsDigit(st.num)

(* Ways to finish what is open: the token, then the containers.            *)
Closers(stack) == [i \in DOMAIN stack |-> IF stack[Len(stack) + 1 - i] = "obj" THEN "}" ELSE "]"]
Endings(s) ==
  {<<>>, <<"0">>, <<":", "0">>, <<"\"", "\"", ":", "0">>, s.lit}
    \cup {a \o b : a \in {<<>>, <<"n">>, [i \in 1 .. s.unhex |-> "0"]},
                   b \in {<<"\"">>, <<"\"", ":", "0">>}}
Finishable ==
  \E e \in Endings(st) : LET rest == e \o Closers(st.stack)
                         IN Takes(st, rest) /\ IsDocument(doc \o rest)
TwoExponents == \E i, j \in Exponents(st.num) : i # j

(* Whatever the mask let through can still become a document, unless it is *)
(* a fraction with an exponent that was given a second one; and first bytes*)
(* are exact.                                                              *)
OnlySecondExponentSticks ==
  FirstBytesExact /\ (Finishable \/ TwoExponents)

(* A document that is left unfinished ran out of budget, met the end of    *)
(* sequence inside a string, where its text is as good as any, or stuck on *)
(* a second exponent.                                                      *)
UnfinishedOnlyWhen ==
  why # "none" /\ ~IsDocument(doc) =>
    why = "limit" \/ (why = "eos" /\ st.mode = "string") \/ TwoExponents

(* The grammar's only dead end, while a document is made and when it ends. *)
OnlyDeadEnd == OnlySecondExponentSticks /\ UnfinishedOnlyWhen

=============================================================================
