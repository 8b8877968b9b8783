------------------------------ MODULE MCEngine ------------------------------
(* Small instances of Engine.                                              *)
EXTENDS Engine, TLC

CONSTANTS
  MaxPrompt,  \* longest prompt
  MaxDraft    \* longest candidate sequence

MCPrompts == UNION {[1 .. n -> Token] : n \in 1 .. MaxPrompt}
MCDrafts == UNION {[1 .. n -> Token] : n \in 1 .. MaxDraft}
(* One dispatch regime below row 2 (FP32) and one above (quantized).       *)
MCDispatch == [p \in 0 .. MaxCtx |-> IF p < 2 THEN "fp32" ELSE "quant"]
=============================================================================
