--------------------------- MODULE MCAsyncPrinter ---------------------------
(* A turn of five pieces, the last of which do not fit the turn's text, in *)
(* a ring of three slots: it wraps, and a slow worker can be overrun.      *)
EXTENDS AsyncPrinter, TLC

MCPieceLen == <<1, 2, 1, 2, 1>>
=============================================================================
