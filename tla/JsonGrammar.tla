---------------------------- MODULE JsonGrammar -----------------------------
(***************************************************************************)
(* JSONState of python/tinyinference/_json.py: a pushdown automaton fed one*)
(* byte at a time.  A byte is a one-character string; digits are "0" and   *)
(* "1" (which stands for 1-9), white space is " " and "\n" (which is also a*)
(* control byte), and every other byte of a string is ordinary.            *)
(* An operator Op_fault is a broken Op, which some property must reject.   *)
(***************************************************************************)
EXTENDS Integers, Sequences, SequencesExt

WS == {" ", "\n"}
Control == {"\n"}
Digit == {"0", "1"}
Hex == Digit \cup {"a", "b", "e", "f"}
Exponent == {"e", "E"}
Sign == {"+", "-"}
Escapes == {"\"", "\\", "/", "b", "f", "n", "r", "t", "u"}
Literal == [t |-> <<"r", "u", "e">>, f |-> <<"a", "l", "s", "e">>, n |-> <<"u", "l", "l">>]
ValueStart == {"{", "[", "\"", "-"} \cup Digit \cup DOMAIN Literal
ValueModes == {"value", "arr_first", "arr_val", "obj_val"}

JState(mode, stack) ==
  [mode |-> mode, stack |-> stack, lit |-> <<>>, unhex |-> 0, num |-> <<>>, key |-> FALSE]
Refused == JState("refused", <<>>)  \* None
Ended(stack) == JState(IF stack = <<>> THEN "done" ELSE "after", stack)
Close(st, kind) ==
  IF st.stack # <<>> /\ Last(st.stack) = kind THEN Ended(Front(st.stack)) ELSE Refused

-----------------------------------------------------------------------------
(* Numbers.  The text so far is kept and examined again at every byte.     *)
First(n, S) == LET at == {i \in DOMAIN n : n[i] \in S}
               IN IF at = {} THEN Len(n) + 1 ELSE CHOOSE i \in at : \A j \in at : i <= j
Before(n, S) == SubSeq(n, 1, First(n, S) - 1)
Beyond(n, S) == SubSeq(n, First(n, S) + 1, Len(n))
Digits(n) == n # <<>> /\ \A i \in DOMAIN n : n[i] \in Digit
Unsigned(n, S) == IF n # <<>> /\ n[1] \in S THEN Tail(n) ELSE n

IntOk(n) == LET d == Unsigned(n, {"-"}) IN Digits(d) /\ (d[1] = "0" => Len(d) = 1)
FracOk(n) == First(n, {"."}) <= Len(n) /\ Digits(Before(Beyond(n, {"."}), Exponent))
NumberOk(n) ==
  LET base == Before(n, Exponent)
  IN /\ First(n, Exponent) <= Len(n) => Digits(Unsigned(Beyond(n, Exponent), Sign))
     /\ IntOk(Before(base, {"."})) /\ (First(base, {"."}) <= Len(base) => FracOk(base))

WantsDigit(n) ==
  \/ n = <<"-">> \/ Last(n) \in Exponent \cup {"."}
  \/ Len(n) > 1 /\ n[Len(n) - 1] \in Exponent /\ Last(n) \in Sign
IsZero(n) == n \in {<<"0">>, <<"-", "0">>}
Grows(n, b) ==
  \/ b \in Digit /\ ~IsZero(n) /\ (Last(n) \in Digit \/ WantsDigit(n))
  \/ b = "." /\ IntOk(n)
  \/ b \in Exponent /\ (IntOk(n) \/ FracOk(n))
  \/ b \in Sign /\ Last(n) \in Exponent

-----------------------------------------------------------------------------
(* One byte.                                                               *)
FeedValue(st, b) ==
  CASE b = "{" -> JState("obj_first", Append(st.stack, "obj"))
    [] b = "[" -> JState("arr_first", Append(st.stack, "arr"))
    [] b = "\"" -> JState("string", st.stack)
    [] b \in Digit \cup {"-"} -> [JState("number", st.stack) EXCEPT !.num = <<b>>]
    [] b \in DOMAIN Literal -> [JState("literal", st.stack) EXCEPT !.lit = Literal[b]]
    [] b = "]" /\ st.mode = "arr_first" -> Close(st, "arr")
    [] OTHER -> Refused

FeedStructure(st, b) ==
  CASE b \in WS -> st
    [] st.mode \in ValueModes /\ b \notin WS -> FeedValue(st, b)
    [] st.mode \in {"obj_first", "obj_key"} /\ b = "\"" ->
         [JState("string", st.stack) EXCEPT !.key = TRUE]
    [] st.mode \in {"obj_first", "obj_comma_or_end"} /\ b = "}" -> Close(st, "obj")
    [] st.mode = "arr_comma_or_end" /\ b = "]" -> Close(st, "arr")
    [] st.mode = "colon" /\ b = ":" -> [st EXCEPT !.mode = "obj_val"]
    [] st.mode = "obj_comma_or_end" /\ b = "," -> [st EXCEPT !.mode = "obj_key"]
    [] st.mode = "arr_comma_or_end" /\ b = "," -> [st EXCEPT !.mode = "arr_val"]
    [] OTHER -> Refused

(* A value has ended; the enclosing container decides what may follow.     *)
FeedEnded(st, b) ==
  IF st.stack # <<>>
    THEN FeedStructure(JState(Last(st.stack) \o "_comma_or_end", st.stack), b)
    ELSE IF b \in WS THEN st ELSE Refused

FeedString(st, b) ==
  CASE b = "\"" -> IF st.key THEN JState("colon", st.stack) ELSE Ended(st.stack)
    [] b = "\\" -> [st EXCEPT !.mode = "escape"]
    [] b \in Control -> Refused
    [] OTHER -> st
FeedEscape_forgetsKey(st, b) ==
  CASE b = "u" -> [st EXCEPT !.mode = "unicode", !.unhex = 4]
    [] b \in Escapes \ {"u"} -> JState("string", st.stack)
    [] OTHER -> Refused
FeedEscape(st, b) ==
  CASE b = "u" -> [st EXCEPT !.mode = "unicode", !.unhex = 4]
    [] b \in Escapes \ {"u"} -> [st EXCEPT !.mode = "string"]
    [] OTHER -> Refused
FeedUnicode(st, b) ==
  IF b \notin Hex THEN Refused
  ELSE [st EXCEPT !.unhex = st.unhex - 1, !.mode = IF st.unhex = 1 THEN "string" ELSE "unicode"]
FeedLiteral(st, b) ==
  IF b # st.lit[1] THEN Refused
  ELSE IF Len(st.lit) > 1 THEN [st EXCEPT !.lit = Tail(st.lit)] ELSE Ended(st.stack)
FeedNumber(st, b) ==
  CASE Grows(st.num, b) -> [st EXCEPT !.num = Append(st.num, b)]
    [] ~Grows(st.num, b) /\ NumberOk(st.num)
         /\ b \notin Digit \cup Exponent \cup Sign \cup {"."} -> FeedEnded(Ended(st.stack), b)
    [] OTHER -> Refused

Feed(st, b) ==
  CASE st.mode = "refused" -> Refused
    [] st.mode = "literal" -> FeedLiteral(st, b)
    [] st.mode = "number" -> FeedNumber(st, b)
    [] st.mode = "string" -> FeedString(st, b)
    [] st.mode = "escape" -> FeedEscape(st, b)
    [] st.mode = "unicode" -> FeedUnicode(st, b)
    [] st.mode \in {"after", "done"} -> FeedEnded(st, b)
    [] OTHER -> FeedStructure(st, b)

Accept(st, data) == FoldLeft(Feed, st, data)
Takes(st, data) == Accept(st, data) # Refused

Complete_anyDepth(st) ==
  IF st.mode = "number" THEN NumberOk(st.num) ELSE st.mode \in {"after", "done"}
Complete(st) ==
  st.stack = <<>> /\ IF st.mode = "number" THEN NumberOk(st.num) ELSE st.mode \in {"after", "done"}

-----------------------------------------------------------------------------
(* The bytes a next token may begin with, out of `bytes`.                  *)
Terminators(stack) ==
  WS \cup (IF stack = <<>> THEN {} ELSE {",", IF Last(stack) = "obj" THEN "}" ELSE "]"})

NumberFirst_noPoint(n, stack) ==
  CASE WantsDigit(n) -> Digit
    [] ~WantsDigit(n) /\ ~NumberOk(n) -> {}
    [] OTHER -> (IF IsZero(n) THEN {} ELSE Digit) \cup Terminators(stack)
NumberFirst(n, stack) ==
  CASE WantsDigit(n) -> Digit
    [] ~WantsDigit(n) /\ ~NumberOk(n) -> {}
    [] OTHER -> (IF IsZero(n) THEN {} ELSE Digit) \cup Terminators(stack)
                \cup (IF IntOk(n) THEN {"."} \cup Exponent ELSE IF FracOk(n) THEN Exponent ELSE {})

AllowedFirst(st, bytes) ==
  CASE st.mode \in ValueModes ->
         WS \cup ValueStart \cup (IF st.mode = "arr_first" THEN {"]"} ELSE {})
    [] st.mode = "obj_first" -> WS \cup {"\"", "}"}
    [] st.mode = "obj_key" -> WS \cup {"\""}
    [] st.mode = "colon" -> WS \cup {":"}
    [] st.mode = "obj_comma_or_end" -> WS \cup {",", "}"}
    [] st.mode = "arr_comma_or_end" -> WS \cup {",", "]"}
    [] st.mode = "done" -> WS
    [] st.mode = "after" -> Terminators(st.stack)
    [] st.mode = "string" -> bytes \ Control
    [] st.mode = "escape" -> Escapes
    [] st.mode = "unicode" -> Hex
    [] st.mode = "number" -> NumberFirst(st.num, st.stack)
    [] st.mode = "literal" -> {st.lit[1]}
    [] OTHER -> {}

(* from_prefix: the longest prefix that is accepted, from the first bracket*)
FromPrefix(prompt) ==
  LET raw == SubSeq(prompt, First(prompt, {"{", "["}), Len(prompt))
      taken == {n \in 0 .. Len(raw) : Takes(JState("value", <<>>), SubSeq(raw, 1, n))}
  IN SubSeq(raw, 1, CHOOSE n \in taken : \A m \in taken : m <= n)

=============================================================================
