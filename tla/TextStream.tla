----------------------------- MODULE TextStream -----------------------------
(***************************************************************************)
(* stream_text of python/tinyinference/model.py, one token per step: text  *)
(* is cut where the first stop string begins, and what may still become one*)
(* is held back.  Which token the engine samples is open.  Positions count *)
(* from 0.  Bytes that do not decode are left out, but for a last          *)
(* incomplete character.                                                   *)
(***************************************************************************)
EXTENDS Integers, Sequences

CONSTANTS
  Char,      \* characters
  Pieces,    \* what one token decodes to
  StopSets,  \* stop strings of a request
  TextLimit  \* the most tokens stream_tokens yields

ASSUME TextAssumption ==
  /\ Pieces \subseteq Seq(Char) /\ TextLimit \in Nat
  /\ \A ss \in StopSets : ss \subseteq Seq(Char) \ {<<>>}

VARIABLES
  stops,
  seen,
  out,   \* what was yielded, joined; its length is emitted
  cut,   \* a character is incomplete in the decoder
  left,  \* rounds of the loop left
  over   \* what ended the loop: "no" while it runs

textVars == <<stops, seen, out, cut, left, over>>

(* _find_stop                                                              *)
Found(text, s) == {i \in 0 .. Len(text) - Len(s) : SubSeq(text, i + 1, i + Len(s)) = s}
Hits(text) == UNION {Found(text, s) : s \in stops}
FirstHit(text) == CHOOSE i \in Hits(text) : \A j \in Hits(text) : i <= j

(* _holdback                                                               *)
Ends(text, k, s) == SubSeq(text, Len(text) - k + 1, Len(text)) = SubSeq(s, 1, k)
Holds_shorter(text) == {k \in 1 .. Len(text) : \E s \in stops : k < Len(s) - 1 /\ Ends(text, k, s)}
Holds(text) == {k \in 1 .. Len(text) : \E s \in stops : k < Len(s) /\ Ends(text, k, s)}
Holdback(text) ==
  IF Holds(text) = {} THEN 0 ELSE CHOOSE k \in Holds(text) : \A l \in Holds(text) : l <= k

TextInit ==
  /\ stops \in StopSets /\ left = TextLimit
  /\ seen = <<>> /\ out = <<>> /\ cut = FALSE /\ over = "no"

(* What is safe to show, beyond what was shown.                            *)
Yield(text, upto) ==
  out' = IF upto > Len(out) THEN out \o SubSeq(text, Len(out) + 1, upto) ELSE out

(* A token that completes no character changes nothing but the decoder.    *)
Incomplete ==
  /\ over = "no" /\ left > 0
  /\ left' = left - 1 /\ cut' \in {cut, TRUE}
  /\ UNCHANGED <<stops, seen, out, over>>

TextToken(piece) ==
  /\ over = "no" /\ left > 0 /\ piece # <<>>
  /\ left' = left - 1 /\ cut' \in BOOLEAN
  /\ seen' = seen \o piece
  /\ \/ Hits(seen') # {} /\ Yield(seen', FirstHit(seen')) /\ over' = "stop"
     \/ Hits(seen') = {} /\ Yield(seen', Len(seen') - Holdback(seen')) /\ UNCHANGED over
  /\ UNCHANGED stops

(* The limit or an end of sequence; the decoder gives up what it holds.    *)
TextEnds ==
  /\ over = "no" /\ over' = IF left = 0 THEN "limit" ELSE "eos"
  /\ out' = IF cut THEN Append(out, "replacement") ELSE out
  /\ UNCHANGED <<stops, seen, cut, left>>

TextNext == Incomplete \/ TextEnds \/ \E p \in Pieces : TextToken(p)

TextSpec == TextInit /\ [][TextNext]_textVars

-----------------------------------------------------------------------------
TextTypeOK ==
  /\ seen \in Seq(Char) /\ cut \in BOOLEAN
  /\ left \in 0 .. TextLimit /\ over \in {"no", "stop", "limit", "eos"}

(* Text is cut at the earliest stop string, whatever the tokens it came in;*)
(* without one, all of it is delivered but what was held back at the end.  *)
(* (Checked with the types.)                                               *)
Delivered == IF over \in {"limit", "eos"} /\ cut THEN SubSeq(out, 1, Len(out) - 1) ELSE out
DeliversUpToStop ==
  /\ TextTypeOK
  /\ IF Hits(seen) = {} THEN Delivered = SubSeq(seen, 1, Len(seen) - Holdback(seen))
     ELSE over = "stop" /\ Delivered = SubSeq(seen, 1, FirstHit(seen))

=============================================================================
