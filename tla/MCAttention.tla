---------------------------- MODULE MCAttention -----------------------------
(* Small instances of Attention: a narrow and a wide layer, tiles scaled   *)
(* down so that every branch and every clamp is met within MaxCtx rows.    *)
EXTENDS Attention, TLC

MCShape == <<[heads |-> 2, kv |-> 1, hd |-> 64, swa |-> 0],
             [heads |-> 2, kv |-> 1, hd |-> 256, swa |-> 0]>>
=============================================================================
