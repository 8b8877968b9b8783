-------------------------------- MODULE Chat --------------------------------
(***************************************************************************)
(* The terminal chat of examples/chat_llm_gpu.c on top of Engine: the whole*)
(* conversation is rendered each turn and only the part after what was fed *)
(* before is prefilled; the host then samples from the engine's logits and *)
(* replays one token at a time, or, in the eager mode TT_NO_GRAPH selects, *)
(* the engine samples and feeds by itself.                                 *)
(*                                                                         *)
(* A token is the symbol it decodes to.  What the sampler picks is left    *)
(* open within `Spoken`, what the engine's argmax picks within `Guess`.    *)
(* Typed lines that are empty, "/exit" and "quit", the sampler's settings  *)
(* and the timing are left out.                                            *)
(***************************************************************************)
EXTENDS Engine, ChatTemplate

CONSTANTS
  Families,   \* chat families of this instance
  System,     \* SYSTEM_PROMPT
  Inputs,     \* what the user may type
  UserWords,  \* symbols only the user utters
  Spoken,     \* tokens the model may answer with
  Guess,      \* tokens the engine's argmax may return
  Eos,        \* end-of-sequence ids
  Stops,      \* stop strings
  MaxTokens,  \* TT_MAX_TOKENS
  FmtCap,     \* sizeof g_prev_fmt
  PromptCap,  \* prompt_tokens[512]
  TextCap     \* sizeof turn_text

ASSUME ChatAssumption ==
  /\ Families \subseteq Family
  /\ TemplateSymbols \cup Spoken \cup Guess \subseteq Token
  /\ Inputs \subseteq Seq(Token) /\ System \in Seq(Token)
  /\ UserWords \cap (TemplateSymbols \cup Spoken \cup Guess) = {} /\ Eos \subseteq Spoken
  /\ Stops \subseteq Seq(Token) \ {<<>>} /\ Stops # {}
  /\ {MaxTokens, FmtCap, PromptCap} \subseteq Nat \ {0} /\ TextCap \in Nat \ {0, 1}

VARIABLES
  fam,    \* fam
  eager,  \* no_graph of main, as opposed to the engine's
  stage,  \* what the loop does next
  hist,   \* g_hist
  prev,   \* g_prev_fmt[0 .. g_prev_len)
  gen,    \* gen_count
  text,   \* turn_text, which is not cleared between turns
  tl,     \* tl
  shown,  \* how much of turn_text the printer was given
  drawn,  \* history: the context pending_tok was drawn from
  cut     \* history: a prompt was cut off at PromptCap

chatVars == <<fam, eager, stage, hist, prev, gen, text, tl, shown, drawn, cut>>
chatAll == <<vars, chatVars>>

(* The engine as it was created, in either mode.                           *)
ChatInit ==
  /\ fam \in Families /\ eager \in BOOLEAN
  /\ pos = 0 /\ dpos = 0 /\ kv = [s \in Row |-> None] /\ hid = <<>> /\ logits = <<>>
  /\ pending = None /\ graphs = {} /\ ready = FALSE /\ noGraph = eager
  /\ temp = 0 /\ maskOn = FALSE /\ quant = FALSE
  /\ stage = "idle" /\ hist = Push(<<>>, "system", System) /\ prev = <<>>
  /\ gen = 0 /\ text \in {<<>>} \cup {<<t>> : t \in Spoken}
  /\ tl = 0 /\ shown = 0 /\ drawn = <<>> /\ cut = FALSE

-----------------------------------------------------------------------------
(* bpe_encode: tokenizers of these families put a BOS before every text.   *)
AddsBos(f) == f \in {"gemma", "gemma4", "llama3"}
Encoded(f, s) == (IF AddsBos(f) THEN <<Bos>> ELSE <<>>) \o s
Upto(s, n) == SubSeq(s, 1, IF n < Len(s) THEN n ELSE Len(s))

(* A turn begins: render, check that the text extends what was fed, and    *)
(* prefill the rest.  The message stays in the history in any case.        *)
Ask_forgets(u) ==
  LET h == Push(hist, "user", u)
      f == Format(fam, h, TRUE)
      p == Encoded(fam, SubSeq(f, Len(prev) + 1, Len(f)))
      accepted == Len(f) < FmtCap /\ IsPrefix(prev, f) /\ pos + Len(Upto(p, PromptCap)) <= MaxCtx
  IN /\ stage = "idle" /\ hist' = h
     /\ IF accepted
          THEN /\ Prefill(Upto(p, PromptCap))
               /\ stage' = IF eager THEN "answer" ELSE "score"
               /\ gen' = 0 /\ tl' = 0 /\ shown' = 0 /\ cut' = (cut \/ Len(p) > PromptCap)
          ELSE UNCHANGED <<vars, stage, gen, tl, shown, cut>>
     /\ prev' = IF Len(f) < FmtCap THEN f ELSE prev
     /\ UNCHANGED <<fam, eager, text, drawn>>

Ask(u) ==
  LET h == Push(hist, "user", u)
      f == Format(fam, h, TRUE)
      p == Encoded(fam, SubSeq(f, Len(prev) + 1, Len(f)))
      accepted == Len(f) < FmtCap /\ IsPrefix(prev, f) /\ pos + Len(Upto(p, PromptCap)) <= MaxCtx
  IN /\ stage = "idle" /\ hist' = h
     /\ IF accepted
          THEN /\ Prefill(Upto(p, PromptCap)) /\ prev' = f
               /\ stage' = IF eager THEN "answer" ELSE "score"
               /\ gen' = 0 /\ tl' = 0 /\ shown' = 0 /\ cut' = (cut \/ Len(p) > PromptCap)
          ELSE UNCHANGED <<vars, stage, prev, gen, tl, shown, cut>>
     /\ UNCHANGED <<fam, eager, text, drawn>>

(* engine_next returning t: fed already, or kept pending.                  *)
Fed(t) == kv'[(pos' - 1) % MaxCtx] = t
EngineNext(t) ==
  \/ NextEager /\ Fed(t)
  \/ NextReplay /\ pending' = t
  \/ NextSample /\ IF pending' = None THEN Fed(t) ELSE pending' = t

(* engine_next for the logits of the prompt; its choice is not used.       *)
Score_spared ==
  /\ stage = "score" /\ stage' = "answer"
  /\ UNCHANGED <<vars, fam, eager, hist, prev, gen, text, tl, shown, drawn, cut>>

Score_stuck ==
  /\ stage = "score"
  /\ IF pos < MaxCtx - 1
       THEN /\ \E t \in Guess : EngineNext(t)
            /\ drawn' = logits' /\ stage' = "answer"
       ELSE UNCHANGED <<vars, stage, drawn>>
  /\ UNCHANGED <<fam, eager, hist, prev, gen, text, tl, shown, cut>>

Score ==
  /\ stage = "score"
  /\ IF pos < MaxCtx - 1
       THEN /\ \E t \in Guess : EngineNext(t)
            /\ drawn' = logits' /\ stage' = "answer"
       ELSE stage' = "idle" /\ UNCHANGED <<vars, drawn>>
  /\ UNCHANGED <<fam, eager, hist, prev, gen, text, tl, shown, cut>>

-----------------------------------------------------------------------------
(* Stop strings.                                                           *)
At(s, i) == {k \in Stops : i + Len(k) - 1 <= Len(s) /\ SubSeq(s, i, i + Len(k) - 1) = k}
StopStarts(s) == {i \in 1 .. Len(s) : At(s, i) # {}}
Cut(s) == (CHOOSE i \in StopStarts(s) : \A j \in StopStarts(s) : i <= j) - 1

(* chat_holdback_len: the longest end of s that may become a stop string.  *)
Holds(s) == {l \in 1 .. Len(s) : \E k \in Stops :
               l < Len(k) /\ SubSeq(s, Len(s) - l + 1, Len(s)) = SubSeq(k, 1, l)}
Holdback_short(s) ==
  LET H == Holds(s) IN IF H = {} THEN 0 ELSE CHOOSE l \in H : \A m \in H : l <= m
Holdback(s) ==
  LET H == Holds(s) IN IF H = {} THEN 0 ELSE CHOOSE l \in H : \A m \in H : m <= l

(* The token joins the text if there is room, and what is safe is shown.   *)
Answer == Upto(text, tl)
Hear(t) == IF tl + 1 < TextCap THEN text' = Append(Answer, t) /\ tl' = tl + 1
                               ELSE UNCHANGED <<text, tl>>
Beyond(n) == IF n > shown THEN n ELSE shown
Shows(s) == shown' = Beyond(IF StopStarts(s) # {} THEN Cut(s) ELSE Len(s) - Holdback(s))

(* replay_step: the engine's own sample becomes pending, unless it had to  *)
(* step eagerly.                                                           *)
Step(t) ==
  /\ HostReplay(t)
  /\ pending' = pending \/ pending' \in Guess
  /\ drawn' = IF HasGraph(pos) \/ graphs' # graphs THEN logits' ELSE drawn

Goes == gen < MaxTokens /\ pos < MaxCtx - 1

(* The answer ends with an end-of-sequence token, which is fed too.        *)
SayEos ==
  /\ stage = "answer" /\ Goes
  /\ \E t \in Eos : IF eager THEN NextEager /\ Fed(t) /\ UNCHANGED drawn ELSE Step(t)
  /\ stage' = "end"
  /\ UNCHANGED <<fam, eager, hist, prev, gen, text, tl, shown, cut>>

Say ==
  /\ stage = "answer" /\ Goes
  /\ \E t \in Spoken \ Eos :
       /\ Hear(t) /\ Shows(text')
       /\ IF eager THEN NextEager /\ Fed(t) /\ UNCHANGED drawn ELSE Step(t)
  /\ gen' = IF StopStarts(text') = {} THEN gen + 1 ELSE gen
  /\ stage' = IF StopStarts(text') # {} \/ (eager /\ pos' >= MaxCtx - 1)
                THEN "end" ELSE "answer"
  /\ UNCHANGED <<fam, eager, hist, prev, cut>>

AnswerDone ==
  /\ stage = "answer" /\ ~Goes /\ stage' = "end"
  /\ UNCHANGED <<vars, fam, eager, hist, prev, gen, text, tl, shown, drawn, cut>>

(* The turn ends: an eager engine samples and feeds once more, the buffer  *)
(* joins the history (if nothing was answered, what an earlier turn left   *)
(* there), and the cursor moves behind it.                                 *)
EndTurn_promptKept ==
  LET h == Push(hist, "assistant", text)
      f == Format(fam, h, TRUE)
  IN /\ stage = "end" /\ stage' = "idle" /\ hist' = h
     /\ IF eager /\ pos < MaxCtx - 1 THEN NextEager /\ \E t \in Guess : Fed(t)
                                     ELSE UNCHANGED vars
     /\ prev' = IF Len(f) < FmtCap THEN f ELSE prev
     /\ UNCHANGED <<fam, eager, gen, text, tl, shown, drawn, cut>>

EndTurn ==
  LET h == Push(hist, "assistant", text)
      f == Format(fam, h, FALSE)
  IN /\ stage = "end" /\ stage' = "idle" /\ hist' = h
     /\ IF eager /\ pos < MaxCtx - 1 THEN NextEager /\ \E t \in Guess : Fed(t)
                                     ELSE UNCHANGED vars
     /\ prev' = IF Len(f) < FmtCap THEN f ELSE prev
     /\ UNCHANGED <<fam, eager, gen, text, tl, shown, drawn, cut>>

ChatTurn == Score \/ SayEos \/ Say \/ AnswerDone \/ EndTurn
ChatNext == (\E u \in Inputs : Ask(u)) \/ ChatTurn

(* The program goes on by itself; the user need not type.                  *)
ChatSpec == ChatInit /\ [][ChatNext]_chatAll /\ WF_chatAll(ChatTurn)

-----------------------------------------------------------------------------
Message == [role : {"system", "user", "assistant"}, content : Seq(Token)]

ChatTypeOK ==
  /\ TypeOK
  /\ fam \in Families /\ {eager, cut} \subseteq BOOLEAN
  /\ stage \in {"idle", "score", "answer", "end"}
  /\ hist \in Seq(Message) /\ Len(hist) <= MaxMsgs
  /\ prev \in Seq(Token) /\ Len(prev) < FmtCap
  /\ gen \in 0 .. MaxTokens /\ text \in Seq(Token)
  /\ tl \in 0 .. Len(text) /\ shown \in 0 .. tl
  /\ drawn \in Seq(Cell)

InSlab == pos <= MaxCtx

(* Graph mode: what the host samples from are the logits of exactly what   *)
(* the cache holds, and the token a turn leaves pending, which the next    *)
(* prefill feeds, was drawn from all of it.                                *)
DrawnFromContext ==
  /\ ChatTypeOK
  /\ InSlab /\ ~eager /\ stage = "answer" => logits = Context
  /\ InSlab /\ ~eager /\ stage = "idle" /\ pending # None => drawn = Context

Uttered(s) ==
  FlattenSeq([i \in 1 .. Len(s) |-> IF s[i] \in UserWords THEN <<s[i]>> ELSE <<>>])

(* The user's words behind the cursor reached the cache, once and in order,*)
(* whatever was answered, refused or pushed out of a full history; and the *)
(* next rendering extends what was fed.                                    *)
MessagesReachCache ==
  /\ InSlab /\ ~cut => Uttered(Context) = Uttered(prev)
  /\ stage = "idle" /\ pos < MaxCtx - 1 =>
       \A u \in Inputs : LET f == Format(fam, Push(hist, "user", u), TRUE)
                         IN Len(f) < FmtCap => IsPrefix(prev, f)

(* At the end of a turn all text before a stop string was shown, and       *)
(* nothing of one, even if stop strings overlap; without one, all but an   *)
(* end that could have become one.                                         *)
AnswerShown ==
  stage = "end" =>
    IF StopStarts(Answer) # {} THEN shown = Cut(Answer)
    ELSE \E k \in Stops : IsStrictPrefix(SubSeq(Answer, shown + 1, tl), k)

(* Every turn ends, whatever is sampled.                                   *)
TurnEnds == stage # "idle" ~> stage = "idle"

=============================================================================
