---------------------------- MODULE ChatTemplate ----------------------------
(***************************************************************************)
(* src/chat_template.c: how a conversation becomes the text of a prompt.   *)
(* Text is a sequence of symbols; a turn's header ("<|im_start|>user\n",   *)
(* "<start_of_turn>model\n", ...) is one symbol, and so is what closes it. *)
(* Options no program of the repository sets (keep_think, add_empty_think, *)
(* date_string) have their defaults, and content is shorter than the 4096  *)
(* bytes a message may hold.                                               *)
(***************************************************************************)
EXTENDS Integers, SequencesExt

CONSTANT MaxMsgs  \* TT_CHAT_MAX_MSGS

ASSUME TemplateAssumption == MaxMsgs \in Nat \ {0}

Family == {"qwen2", "qwen3", "gemma", "gemma4", "llama3"}

Bos == "<bos>"
End == "<end>"
Space == "_"
OpenThink == "<think>"
CloseThink == "</think>"
Header(role) == CASE role = "system" -> "system:"
                  [] role = "user" -> "user:"
                  [] role = "assistant" -> "assistant:"

TemplateSymbols == {Bos, End, Space, OpenThink, CloseThink,
                    Header("system"), Header("user"), Header("assistant")}

-----------------------------------------------------------------------------
(* trim_span: without white space at either end.                           *)
Trim(s) ==
  LET solid == {i \in 1 .. Len(s) : s[i] # Space}
  IN IF solid = {} THEN <<>>
     ELSE SubSeq(s, CHOOSE i \in solid : \A j \in solid : i <= j,
                    CHOOSE i \in solid : \A j \in solid : j <= i)

(* strip_think: without its think blocks; one left open takes the rest.    *)
Thinks(s, i) ==
  \E j \in 1 .. i : s[j] = OpenThink /\ \A k \in j .. i - 1 : s[k] # CloseThink
StripThink(s) ==
  FlattenSeq([i \in 1 .. Len(s) |-> IF Thinks(s, i) THEN <<>> ELSE <<s[i]>>])

GenerationPrompt(gen) == IF gen THEN <<Header("assistant")>> ELSE <<>>

(* fmt_qwen, a turn: a system message is one only when it comes first.     *)
TurnQwen(msgs, i, strip) ==
  LET role == msgs[i].role
  IN <<Header(IF role = "system" /\ i # 1 THEN "user" ELSE role)>>
     \o (IF strip /\ role = "assistant" THEN StripThink(msgs[i].content) ELSE msgs[i].content)
     \o <<End>>

(* fmt_gemma: a leading system message is folded into the turn after it.   *)
Folded(msgs) == msgs[1].role = "system"
TurnGemma(msgs, i) ==
  IF Folded(msgs) /\ i = 1 THEN <<>>
  ELSE <<Header(msgs[i].role)>>
       \o (IF Folded(msgs) /\ i = 2 THEN msgs[1].content \o <<Space>> ELSE <<>>)
       \o Trim(msgs[i].content) \o <<End>>

TurnLlama3(msgs, i) == <<Header(msgs[i].role)>> \o Trim(msgs[i].content) \o <<End>>

Turn(fam, msgs, i) ==
  CASE fam = "qwen2" -> TurnQwen(msgs, i, FALSE)
    [] fam = "qwen3" -> TurnQwen(msgs, i, TRUE)
    [] fam \in {"gemma", "gemma4"} -> TurnGemma(msgs, i)
    [] fam = "llama3" -> TurnLlama3(msgs, i)

(* tt_chat_history_format, with or without the header of the next answer.  *)
Format(fam, msgs, gen) ==
  (IF fam = "llama3" THEN <<Bos>> ELSE <<>>)
  \o FlattenSeq([i \in 1 .. Len(msgs) |-> Turn(fam, msgs, i)])
  \o GenerationPrompt(gen)

(* tt_chat_history_push: a full table takes no more messages.              *)
Push(msgs, role, content) ==
  IF Len(msgs) >= MaxMsgs THEN msgs
  ELSE Append(msgs, [role |-> role, content |-> content])

=============================================================================
