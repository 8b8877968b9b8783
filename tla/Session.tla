------------------------------ MODULE Session -------------------------------
(***************************************************************************)
(* What a decode session promises its caller: the transcript is exactly the*)
(* prompts submitted and the tokens generated, in that order, and every    *)
(* token is drawn from a distribution over the whole transcript before it. *)
(***************************************************************************)
EXTENDS Sequences

CONSTANTS Token, Prompts

VARIABLES
  transcript,  \* everything submitted and generated since the last clear
  basis        \* the transcript the last token was drawn over

Init == transcript = <<>> /\ basis = <<>>

Submit(p) == transcript' = transcript \o p /\ UNCHANGED basis
Generate(t) == transcript' = Append(transcript, t) /\ basis' = transcript
Clear == transcript' = <<>> /\ UNCHANGED basis

Next ==
  \/ \E p \in Prompts : Submit(p)
  \/ \E t \in Token : Generate(t)
  \/ Clear

Spec == Init /\ [][Next]_<<transcript, basis>>

=============================================================================
