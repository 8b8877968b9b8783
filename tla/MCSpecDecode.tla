---------------------------- MODULE MCSpecDecode ----------------------------
(* Small instances of SpecDecode: one dispatch regime.                     *)
EXTENDS SpecDecode, TLC

MCDispatch == [p \in 0 .. MaxCtx |-> "any"]
MCPrompts == [1 .. 4 -> Token] \cup [1 .. 5 -> Token]
MCDrafts == UNION {[1 .. n -> Token] : n \in 1 .. DraftK + 1}
=============================================================================
