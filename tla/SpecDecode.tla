----------------------------- MODULE SpecDecode -----------------------------
(***************************************************************************)
(* Speculative decoding on top of Engine: the carry loop of                *)
(* tools/spec_expA_e2e.c (driver "tool"), which verifies drafts against a  *)
(* carried row of logits and rolls the rejected tail back, and the loop of *)
(* examples/spec_llm_gpu.c (driver "cli"), which verifies the last token   *)
(* and the drafts and keeps everything.  One step per engine call, with    *)
(* the bookkeeping the loop does after it.                                 *)
(*                                                                         *)
(* The model is an unknown function of the last two tokens, `oracle`.  A   *)
(* row of logits is the context it was computed over, its argmax Greedy of *)
(* that.  Printing, timing and MAX_HISTORY (four times the context) are    *)
(* left out.                                                               *)
(***************************************************************************)
EXTENDS Engine

CONSTANTS
  Drivers,   \* programs of this instance: subset of {"tool", "cli"}
  Window,    \* --window
  DraftK,    \* --draft-k, at most JMAX
  NPredict,  \* n_predict
  EosIds     \* end-of-sequence ids; None for a model that never ends

ASSUME SpecAssumption ==
  /\ Drivers \subseteq {"tool", "cli"} /\ EosIds \subseteq Token \cup {None}
  /\ Window \in {2, 3} /\ DraftK \in 1 .. 4 /\ NPredict \in Nat \ {0}

VARIABLES
  oracle,     \* the model
  driver,
  eos,        \* eos_id
  stage,      \* what the loop does next
  history,
  prompted,   \* n_prompt
  carry,      \* tool: the row of logits carried over
  draft,      \* the drafted tokens
  rows,       \* the rows of the last verify
  emitted,    \* emitted, total_emitted
  attempted,  \* cli: total_attempted
  accepted,   \* cli: total_accepted
  full        \* tool: n_full

setup == <<oracle, driver, eos>>
specVars == <<setup, stage, history, prompted, carry, draft, rows,
              emitted, attempted, accepted, full>>
specAll == <<vars, specVars>>
counters == <<emitted, attempted, accepted, full>>

-----------------------------------------------------------------------------
(***************************************************************************)
(* The two n-gram drafters: ngram_lookup_draft over a whole history        *)
(* (src/ngram_lookup.c), and tt_ngram_draft over a ring that keeps its last*)
(* `cap` tokens (src/specdec.c).  Histories are sequences; the ring is     *)
(* addressed by absolute positions from 0.                                 *)
(***************************************************************************)

Least(x, y) == IF x < y THEN x ELSE y
Last(S) == CHOOSE x \in S : \A y \in S : y <= x

(* ngram_lookup_draft: the latest earlier copy of the last w tokens that   *)
(* leaves something between itself and them; at most k tokens of that.     *)
Available(n, w, i) == n - w - (i - 1 + w)
Lookup(h, w, k) ==
  LET n == Len(h)
      Match(i) == \A j \in 0 .. w - 1 : h[i + j] = h[n - w + 1 + j]
      starts == {i \in 1 .. n - w : Match(i) /\ Available(n, w, i) > 0}
      i == Last(starts)
  IN IF n <= w + 1 \/ starts = {} THEN <<>>
     ELSE SubSeq(h, i + w, i + w - 1 + Least(Available(n, w, i), k))

(* tt_ngram: slot p % cap holds the token fed last at such a position p.   *)
Slot(fed, cap, s) == fed[Last({p \in 1 .. Len(fed) : (p - 1) % cap = s})]
Kept(fed, cap) == Least(Len(fed), cap)
Base(fed, cap) == Len(fed) - Kept(fed, cap)
NgAt(fed, cap, i) == Slot(fed, cap, i % cap)

(* tt_ngram_draft: e is where an earlier copy of the window ends.          *)
Ends_fromZero(fed, cap, w) ==
  {e \in w .. Len(fed) - w :
     \A j \in 0 .. w - 1 : NgAt(fed, cap, e - w + j) = NgAt(fed, cap, Len(fed) - w + j)}
Ends(fed, cap, w) ==
  {e \in Base(fed, cap) + w .. Len(fed) - w :
     \A j \in 0 .. w - 1 : NgAt(fed, cap, e - w + j) = NgAt(fed, cap, Len(fed) - w + j)}
RingDraft(fed, cap, w, k) ==
  LET e == Last(Ends(fed, cap, w))
  IN IF Kept(fed, cap) <= w \/ Ends(fed, cap, w) = {} THEN <<>>
     ELSE [j \in 1 .. Least(Len(fed) - e, k) |-> NgAt(fed, cap, e + j - 1)]

-----------------------------------------------------------------------------
(* What a drafter promises over a plain history: the tokens that came after*)
(* the latest copy of the last w tokens that ends before they begin.       *)
Recent(h, n) == SubSeq(h, Len(h) - Least(Len(h), n) + 1, Len(h))
Copies(h, w) == {c \in w .. Len(h) - w : SubSeq(h, c - w + 1, c) = Recent(h, w)}
Continuation(h, w, k) ==
  IF Copies(h, w) = {} THEN <<>>
  ELSE SubSeq(h, Last(Copies(h, w)) + 1, Least(Last(Copies(h, w)) + k, Len(h)))

-----------------------------------------------------------------------------
(* The loops.                                                              *)

Greedy(c) == oracle[<<c[IF Len(c) = 1 THEN 1 ELSE Len(c) - 1], c[Len(c)]>>]

SpecInit ==
  /\ Init /\ quant = FALSE
  /\ oracle \in [Token \X Token -> Token] /\ driver \in Drivers /\ eos \in EosIds
  /\ stage = "prefill" /\ history = <<>> /\ prompted = 0
  /\ carry = <<>> /\ draft = <<>> /\ rows = <<>>
  /\ emitted = 0 /\ attempted = 0 /\ accepted = 0 /\ full = 0

PrefillPrompt(p) ==
  /\ stage = "prefill" /\ Prefill(p)
  /\ history' = p /\ prompted' = Len(p)
  /\ stage' = IF driver = "tool" THEN "init" ELSE "loop"
  /\ UNCHANGED <<setup, carry, draft, rows, counters>>

(* The prompt's last token once more, for a first row.                     *)
InitStep ==
  /\ stage = "init" /\ StepLogits(history[Len(history)])
  /\ carry' = logits' /\ stage' = "loop"
  /\ UNCHANGED <<setup, history, prompted, draft, rows, counters>>

-----------------------------------------------------------------------------
LoopGoesOn == emitted < NPredict /\ pos < MaxCtx - 1
Drafted == Lookup(history, Window, DraftK)
After(t) == IF t = eos THEN "done" ELSE "loop"

Halt == stage' = "done" /\ UNCHANGED <<vars, setup, history, prompted, carry,
                                       draft, rows, counters>>
LoopEnds == stage = "loop" /\ ~LoopGoesOn /\ Halt

(* tool: nothing drafted, or the first draft is not what carry predicts.   *)
StepCarry ==
  LET c == Greedy(carry)
  IN /\ driver = "tool" /\ stage = "loop" /\ LoopGoesOn
     /\ Drafted # <<>> => Drafted[1] # c
     /\ StepLogits(c) /\ carry' = logits'
     /\ history' = Append(history, c) /\ emitted' = emitted + 1
     /\ stage' = After(c)
     /\ UNCHANGED <<setup, prompted, draft, rows, attempted, accepted, full>>

RowsAfter(n) == [i \in 1 .. n |-> View(kv', pos' - n + i)]
VerifyTokens(toks) == Verify(toks) /\ rows' = RowsAfter(Len(toks))

(* tool: verify the drafts alone; an engine that refuses ends the loop.    *)
VerifyDraft ==
  /\ driver = "tool" /\ stage = "loop" /\ LoopGoesOn
  /\ \E d \in {Drafted} :
       /\ d # <<>> /\ d[1] = Greedy(carry)
       /\ \/ VerifyTokens(d) /\ draft' = d /\ stage' = "judge"
             /\ UNCHANGED <<setup, history, prompted, carry, counters>>
          \/ pos + Len(d) > MaxCtx /\ Halt

(* m: drafts[0] matched carry, draft[m] the row after draft[m - 1].        *)
Agrees_anyRow(m) == \A i \in 1 .. m - 1 : Greedy(rows[i + 1]) = draft[i + 1]
Agrees(m) == \A i \in 1 .. m - 1 : Greedy(rows[i]) = draft[i + 1]
Matched == Last({m \in 1 .. Len(draft) : Agrees(m)})

(* tool: all accepted; the bonus token comes from the last row, unfed.     *)
AcceptAll ==
  LET b == Greedy(rows[Len(draft)])
  IN /\ driver = "tool" /\ stage = "judge" /\ Matched = Len(draft)
     /\ carry' = rows[Len(draft)]
     /\ history' = history \o Append(draft, b)
     /\ emitted' = emitted + Len(draft) + 1 /\ full' = full + 1
     /\ stage' = After(b)
     /\ UNCHANGED <<vars, setup, prompted, draft, rows, attempted, accepted>>

(* tool: the rejected tail is rolled back and the correction stepped.      *)
RejectTail_keeps ==
  /\ driver = "tool" /\ stage = "judge" /\ Matched < Len(draft)
  /\ stage' = "correct"
  /\ UNCHANGED <<vars, setup, history, prompted, carry, draft, rows, counters>>
RejectTail_retries ==
  /\ driver = "tool" /\ stage = "judge" /\ Matched < Len(draft)
  /\ Rollback(pos - Len(draft))
  /\ stage' = "loop"
  /\ UNCHANGED <<setup, history, prompted, carry, draft, rows, counters>>
RejectTail ==
  /\ driver = "tool" /\ stage = "judge" /\ Matched < Len(draft)
  /\ Rollback(pos - (Len(draft) - Matched))
  /\ stage' = "correct"
  /\ UNCHANGED <<setup, history, prompted, carry, draft, rows, counters>>

Correct ==
  LET c == Greedy(rows[Matched])
  IN /\ driver = "tool" /\ stage = "correct"
     /\ \/ /\ StepLogits(c) /\ carry' = logits'
           /\ history' = history \o Append(SubSeq(draft, 1, Matched), c)
           /\ emitted' = emitted + Matched + 1 /\ stage' = After(c)
           /\ UNCHANGED <<setup, prompted, draft, rows, attempted, accepted, full>>
        \/ pos >= MaxCtx - 1 /\ Halt

-----------------------------------------------------------------------------
(* cli: a token from engine_next, which ends the loop at an end of sequence*)
(* without appending it.                                                   *)
Samples == logits' # <<>> /\ LET t == Greedy(logits')
                             IN IF noGraph' THEN kv'[pos' - 1] = t ELSE pending' = t
NextToken ==
  /\ driver = "cli" /\ stage = "loop" /\ LoopGoesOn /\ Drafted = <<>>
  /\ (NextEager \/ NextReplay \/ NextSample) /\ Samples
  /\ LET t == Greedy(logits')
     IN IF t = eos THEN stage' = "done" /\ UNCHANGED <<history, emitted>>
        ELSE /\ history' = Append(history, t) /\ emitted' = emitted + 1
             /\ UNCHANGED stage
  /\ UNCHANGED <<setup, prompted, carry, draft, rows, attempted, accepted, full>>

(* cli: the last token and the drafts; a refused verify returns to         *)
(* engine_next in the same round.                                          *)
VerifyWithLast ==
  /\ driver = "cli" /\ stage = "loop" /\ LoopGoesOn
  /\ \E d \in {Drafted} :
       /\ d # <<>> /\ VerifyTokens(<<history[Len(history)]>> \o d)
       /\ draft' = d
  /\ stage' = "judge"
  /\ UNCHANGED <<setup, history, prompted, carry, counters>>

VerifyRefused ==
  /\ driver = "cli" /\ stage = "loop" /\ LoopGoesOn /\ Drafted # <<>>
  /\ pos + 1 + Len(Drafted) > MaxCtx
  /\ (NextEager \/ NextReplay \/ NextSample) /\ Samples
  /\ LET t == Greedy(logits')
     IN IF t = eos THEN stage' = "done" /\ UNCHANGED <<history, emitted>>
        ELSE /\ history' = Append(history, t) /\ emitted' = emitted + 1
             /\ UNCHANGED stage
  /\ UNCHANGED <<setup, prompted, carry, draft, rows, attempted, accepted, full>>

(* cli: row i + 1 (from 0) is compared with draft i (from 0).              *)
CliAccepted == Last({m \in 0 .. Len(draft) : \A i \in 1 .. m : Greedy(rows[i + 1]) = draft[i]})

Accept ==
  LET a == CliAccepted
      c == Greedy(rows[IF a < Len(draft) THEN a + 1 ELSE Len(draft)])
  IN /\ driver = "cli" /\ stage = "judge"
     /\ history' = history \o Append(SubSeq(draft, 1, a), c)
     /\ emitted' = emitted + a + 1
     /\ attempted' = attempted + Len(draft) + 1 /\ accepted' = accepted + a + 1
     /\ stage' = "loop"
     /\ UNCHANGED <<vars, setup, prompted, carry, draft, rows, full>>

SpecNext ==
  \/ \E p \in Prompts : PrefillPrompt(p)
  \/ InitStep \/ LoopEnds
  \/ StepCarry \/ VerifyDraft \/ AcceptAll \/ RejectTail \/ Correct
  \/ NextToken \/ VerifyWithLast \/ VerifyRefused \/ Accept

SpecSpec == SpecInit /\ [][SpecNext]_specAll /\ WF_specAll(SpecNext)

-----------------------------------------------------------------------------
SpecTypeOK ==
  /\ TypeOK
  /\ oracle \in [Token \X Token -> Token] /\ driver \in Drivers /\ eos \in EosIds
  /\ stage \in {"prefill", "init", "loop", "judge", "correct", "done"}
  /\ history \in Seq(Token) /\ draft \in Seq(Token) /\ Len(draft) <= DraftK
  /\ Len(rows) <= DraftK + 1 /\ emitted <= NPredict + DraftK

(* tool: verify, rollback and correction leave the engine holding exactly  *)
(* a greedy continuation of the prompt it was given, and the carried row is*)
(* the one after it: speculation never changes what the model conditions on.*)
ContextStaysGreedy ==
  driver = "tool" /\ stage = "loop" =>
    /\ \A i \in prompted + 2 .. pos : Context[i] = Greedy(SubSeq(Context, 1, i - 1))
    /\ carry = Context

(* tool: the token count the throughput figure is made of is the number of *)
(* tokens decoded, plus one for every fully accepted draft, whose bonus    *)
(* token is emitted from carry once more.                                  *)
EmittedCounted ==
  driver = "tool" /\ stage = "loop" => emitted = pos - prompted - 1 + full

(* cli: the engine runs ahead of the transcript by the rejected tokens, and*)
(* by nothing else, while a flush and a verify still fit the context.      *)
DriftIsRejected ==
  driver = "cli" /\ stage = "loop" /\ pos + DraftK + 2 <= MaxCtx =>
    Len(Transcript) - Len(history) = attempted - accepted

(* What either loop counts is true of the engine, in the types it has.     *)
CountersMean == SpecTypeOK /\ EmittedCounted /\ DriftIsRejected

(* A drafter only proposes what has followed the current window before.    *)
DraftsAreContinuations ==
  \A k \in 1 .. DraftK :
    /\ \A cap \in Window + k + 1 .. MaxCtx :
         RingDraft(history, cap, Window, k) = Continuation(Recent(history, cap), Window, k)
    /\ LET d == Lookup(history, Window, k)
       IN d # <<>> => \E c \in Window .. Len(history) - Window :
            /\ SubSeq(history, c - Window + 1, c) = Recent(history, Window)
            /\ d = SubSeq(history, c + 1, c + Len(d))

(* Decoding ends: at the limit, at an end of sequence or at a full context.*)
DecodingEnds == <>(stage = "done")

=============================================================================
