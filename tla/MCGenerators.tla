---------------------------- MODULE MCGenerators ----------------------------
(***************************************************************************)
(* Small instances of the two generators: vocabularies for numbers, strings*)
(* and containers, each with an end-of-sequence token "x", and stop strings*)
(* that overlap.  A request uses one generator; the other rests.           *)
(***************************************************************************)
EXTENDS JsonStream, TextStream

MCEos == <<"x">>
Single(chars) == {<<c>> : c \in chars}
Numbers ==
  Single({"-", "+", "0", "1", ".", "e", "[", ",", "]", "x"})
    \cup {<<"e", "-">>, <<"[", "1">>, <<".", "1">>}
Strings ==
  Single({"\"", "\\", "u", "b", "1", "\n", "{", ":", "}", "x"})
    \cup {<<"\\", "u">>, <<"1", "1">>, <<"{", "\"">>, <<"\"", ":">>}
Containers ==
  Single({"{", "}", "[", "]", ",", "\"", ":", " ", "t", "x"})
    \cup {<<"r", "u", "e">>, <<"1", ",">>, <<"\"", "\"", ":">>, <<"}", ",">>}
MCVocabs == {Numbers, Strings, Containers}

MCPrompts == {<<>>, <<"x", "{", "\"", "x", "\"", ":", "1">>, <<"[", "1", "]", "]">>, <<"{", "1">>}
MCPieces == UNION {[1 .. n -> {"a", "b"}] : n \in 1 .. 2}
MCStopSets == {{}, {<<"a", "a", "b">>}, {<<"a", "b", "a">>, <<"b", "b">>},
               {<<"a", "b", "a", "b">>, <<"b", "a", "a">>}}

VARIABLE kind  \* "json" or "text"

genAll == <<kind, jsonVars, textVars>>

GenInit ==
  /\ kind \in {"json", "text"} /\ JsonInit /\ TextInit
  /\ IF kind = "json" THEN stops = {} ELSE doc = <<>> /\ vocab = Numbers

GenNext ==
  \/ kind = "json" /\ JsonNext /\ UNCHANGED <<kind, textVars>>
  \/ kind = "text" /\ TextNext /\ UNCHANGED <<kind, jsonVars>>

GenSpec == GenInit /\ [][GenNext]_genAll
=============================================================================
