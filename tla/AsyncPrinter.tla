---------------------------- MODULE AsyncPrinter ----------------------------
(***************************************************************************)
(* src/async_printer.c: the decode loop hands text pieces to a worker      *)
(* thread through a ring, the worker gathers them in a buffer and writes it*)
(* to stdout when the ring runs dry or the buffer is full.  The ring holds *)
(* pointers: the caller (examples/run_llm_gpu.c) copies a piece into the   *)
(* turn's own text first, and passes the decoder's scratch buffer, which   *)
(* the next decode overwrites, once that text is full.                     *)
(*                                                                         *)
(* The queue counters are sequentially consistent atomics, so the threads' *)
(* steps interleave.  An operator Op_fault is a broken Op, which some      *)
(* property must reject.                                                   *)
(***************************************************************************)
EXTENDS Integers, Sequences

CONSTANTS
  QueueCap,  \* ASYNC_QUEUE_CAP
  BufSize,   \* ASYNC_BUF_SIZE
  TurnSize,  \* sizeof turn_text
  PieceLen   \* PieceLen[i]: bytes of the i-th piece of the turn

ASSUME PrinterAssumption ==
  /\ QueueCap \in Nat /\ QueueCap > 1
  /\ TurnSize \in Nat /\ BufSize \in Nat \ {0} /\ TurnSize <= BufSize
  /\ PieceLen \in Seq(Nat \ {0})
  /\ \A i \in DOMAIN PieceLen : PieceLen[i] < BufSize

Piece == DOMAIN PieceLen
Slot == 0 .. QueueCap - 1
Scratch == 0  \* bpe_decode_token's buffer, as a pointer
Torn == -1    \* what copying it while it is rewritten may yield

VARIABLES
  queue,    \* pointer and length of each slot
  ap_head, ap_tail, done,
  decoded,  \* pieces decoded so far; the last one is in the scratch buffer
  turnLen,  \* bytes in the turn's text
  stable,   \* pieces that were copied there (history)
  caller,   \* "decode", "push", "publish", "stopping", "joined"
  worker,   \* "test", "drained", "look", "take", "copy", "exit", "gone"
  taken,    \* pointer and length the worker took
  buf,      \* pieces in the worker's buffer
  bufLen,
  out,      \* pieces written to stdout
  pushed,   \* pieces pushed (history)
  lapped    \* the ring was overrun: a push made it look empty (history)

printerVars == <<queue, ap_head, ap_tail, done, decoded, turnLen, stable, caller, worker,
          taken, buf, bufLen, out, pushed, lapped>>
callerVars == <<decoded, turnLen, stable, caller, ap_tail, queue, done, pushed, lapped>>
workerVars == <<ap_head, worker, taken, buf, bufLen, out>>

Unset == [ptr |-> Scratch, len |-> 0]

PrinterInit ==
  /\ queue = [s \in Slot |-> Unset] /\ ap_head = 0 /\ ap_tail = 0 /\ done = FALSE
  /\ decoded = 0 /\ turnLen = 0 /\ stable = {}
  /\ caller = "decode" /\ worker = "test"
  /\ taken = Unset /\ buf = <<>> /\ bufLen = 0 /\ out = <<>>
  /\ pushed = 0 /\ lapped = FALSE

-----------------------------------------------------------------------------
(* The decode loop.                                                        *)

(* bpe_decode_token fills the scratch buffer; the piece is copied to the   *)
(* turn's text if it still fits.                                           *)
DecodePiece ==
  /\ caller = "decode" /\ decoded < Len(PieceLen)
  /\ decoded' = decoded + 1 /\ caller' = "push"
  /\ IF turnLen + PieceLen[decoded + 1] < TurnSize
       THEN stable' = stable \cup {decoded + 1} /\ turnLen' = turnLen + PieceLen[decoded + 1]
       ELSE UNCHANGED <<stable, turnLen>>
  /\ UNCHANGED <<ap_tail, queue, done, pushed, lapped, workerVars>>

(* async_printer_push: the slot, then the tail, with no test for space.    *)
FillSlot_scratch ==
  /\ caller = "push" /\ caller' = "publish"
  /\ queue' = [queue EXCEPT ![ap_tail] = [ptr |-> Scratch, len |-> PieceLen[decoded]]]
  /\ UNCHANGED <<decoded, turnLen, stable, ap_tail, done, pushed, lapped, workerVars>>

FillSlot ==
  /\ caller = "push" /\ caller' = "publish"
  /\ queue' = [queue EXCEPT ![ap_tail] =
       [ptr |-> IF decoded \in stable THEN decoded ELSE Scratch,
        len |-> PieceLen[decoded]]]
  /\ UNCHANGED <<decoded, turnLen, stable, ap_tail, done, pushed, lapped, workerVars>>

MoveTail ==
  /\ caller = "publish" /\ caller' = "decode"
  /\ ap_tail' = (ap_tail + 1) % QueueCap
  /\ pushed' = pushed + 1
  /\ lapped' = (lapped \/ ap_tail' = ap_head)
  /\ UNCHANGED <<decoded, turnLen, stable, queue, done, workerVars>>

(* async_printer_stop_and_flush, at the end of the turn or earlier.        *)
Stop_silent ==
  /\ caller = "decode" /\ caller' = "stopping"
  /\ UNCHANGED <<decoded, turnLen, stable, ap_tail, queue, done, pushed, lapped, workerVars>>

Stop ==
  /\ caller = "decode" /\ caller' = "stopping" /\ done' = TRUE
  /\ UNCHANGED <<decoded, turnLen, stable, ap_tail, queue, pushed, lapped, workerVars>>

Join ==
  /\ caller = "stopping" /\ worker = "gone" /\ caller' = "joined"
  /\ UNCHANGED <<decoded, turnLen, stable, ap_tail, queue, done, pushed, lapped, workerVars>>

-----------------------------------------------------------------------------
(* async_printer_worker.  Reading `done` and comparing head with tail are  *)
(* separate steps, in that order.                                          *)

TestDone_only ==
  /\ worker = "test"
  /\ worker' = IF done THEN "exit" ELSE "look"
  /\ UNCHANGED <<ap_head, taken, buf, bufLen, out, callerVars>>

TestDone ==
  /\ worker = "test"
  /\ worker' = IF done THEN "drained" ELSE "look"
  /\ UNCHANGED <<ap_head, taken, buf, bufLen, out, callerVars>>

TestDrained ==
  /\ worker = "drained"
  /\ worker' = IF ap_head = ap_tail THEN "exit" ELSE "look"
  /\ UNCHANGED <<ap_head, taken, buf, bufLen, out, callerVars>>

Flush == out' = out \o buf /\ buf' = <<>> /\ bufLen' = 0

(* The ring is dry: write what was gathered, sleep, test again.            *)
Idle ==
  /\ worker = "look" /\ ap_head = ap_tail
  /\ Flush
  /\ worker' = "test"
  /\ UNCHANGED <<ap_head, taken, callerVars>>

Look ==
  /\ worker = "look" /\ ap_head # ap_tail
  /\ taken' = queue[ap_head]
  /\ worker' = "take"
  /\ UNCHANGED <<ap_head, buf, bufLen, out, callerVars>>

MoveHead ==
  /\ worker = "take"
  /\ ap_head' = (ap_head + 1) % QueueCap
  /\ worker' = "copy"
  /\ UNCHANGED <<taken, buf, bufLen, out, callerVars>>

Text(ptr) == IF ptr = Scratch THEN {decoded, Torn} ELSE {ptr}

Copy_unchecked ==
  /\ worker = "copy" /\ worker' = "test"
  /\ \E text \in Text(taken.ptr) : buf' = Append(buf, text)
  /\ bufLen' = bufLen + taken.len
  /\ UNCHANGED <<ap_head, taken, out, callerVars>>

Copy ==
  /\ worker = "copy" /\ worker' = "test"
  /\ \E text \in Text(taken.ptr) :
       IF bufLen + taken.len < BufSize
         THEN buf' = Append(buf, text) /\ bufLen' = bufLen + taken.len /\ UNCHANGED out
         ELSE out' = out \o buf /\ buf' = <<text>> /\ bufLen' = taken.len
  /\ UNCHANGED <<ap_head, taken, callerVars>>

Exit ==
  /\ worker = "exit" /\ worker' = "gone"
  /\ Flush
  /\ UNCHANGED <<ap_head, taken, callerVars>>

-----------------------------------------------------------------------------
Caller == DecodePiece \/ FillSlot \/ MoveTail \/ Stop \/ Join
Worker == TestDone \/ TestDrained \/ Idle \/ Look \/ MoveHead \/ Copy \/ Exit

PrinterNext == Caller \/ Worker

(* Both threads are scheduled; the turn is finite.                         *)
PrinterSpec == PrinterInit /\ [][PrinterNext]_printerVars /\ WF_printerVars(Caller) /\ WF_printerVars(Worker)

-----------------------------------------------------------------------------
Pointer == Piece \cup {Scratch}
Taken == [ptr : Pointer, len : Nat]

PrinterTypeOK ==
  /\ queue \in [Slot -> Taken] /\ ap_head \in Slot /\ ap_tail \in Slot
  /\ done \in BOOLEAN /\ lapped \in BOOLEAN
  /\ decoded \in 0 .. Len(PieceLen) /\ stable \subseteq Piece /\ turnLen \in 0 .. TurnSize
  /\ caller \in {"decode", "push", "publish", "stopping", "joined"}
  /\ worker \in {"test", "drained", "look", "take", "copy", "exit", "gone"}
  /\ taken \in Taken /\ pushed \in 0 .. Len(PieceLen)
  /\ bufLen \in Nat
  /\ buf \in Seq(Piece \cup {Torn}) /\ out \in Seq(Piece \cup {Torn})

Gathered == out \o buf

(* As long as the worker is never a whole ring behind, the text gathered   *)
(* for stdout is the turn so far, piece by piece, and every piece that fit *)
(* the turn's text is intact, although the ring carries bare pointers; when*)
(* stop_and_flush returns, everything pushed has been written.             *)
PrintsInOrder ==
  ~lapped =>
    /\ Len(Gathered) <= pushed
    /\ \A i \in DOMAIN Gathered : i \in stable => Gathered[i] = i
    /\ caller = "joined" => Len(out) = pushed

(* The worker's buffer never overflows, and no index leaves its range.     *)
BufferFits == PrinterTypeOK /\ bufLen <= BufSize

(* The text gets out in order through a buffer that holds it.              *)
TextGetsOut == BufferFits /\ PrintsInOrder

(* stop_and_flush returns, overrun or not: the worker always gets out.     *)
StopReturns == <>(caller = "joined")

=============================================================================
