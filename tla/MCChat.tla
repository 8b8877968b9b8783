------------------------------- MODULE MCChat -------------------------------
EXTENDS Chat, TLC

MCDispatch == [p \in 0 .. MaxCtx |-> IF p < 11 THEN "fp32" ELSE "quant"]
MCToken == TemplateSymbols \cup {"sys", "u", "v", "w", "s", "t", "eos"}
MCSystem == <<"sys">>
MCInputs == {<<"u">>, <<Space, "v", "u", "v">>}
MCStops == {<<"s", "t">>, <<"s", "s", "t">>}
=============================================================================
