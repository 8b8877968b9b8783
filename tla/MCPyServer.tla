----------------------------- MODULE MCPyServer -----------------------------
(* Small instances of PyServer.                                            *)
EXTENDS PyServer, TLC

CONSTANT PromptLengths  \* of the prompts clients send, each of one repeated token

MCPrompts == {[i \in 1 .. n |-> t] : n \in PromptLengths, t \in Token}
MCDispatch == [p \in 0 .. MaxCtx |-> IF p < 2 THEN "fp32" ELSE "quant"]
=============================================================================
