---------------------------- MODULE BoundedQueue ----------------------------
(***************************************************************************)
(* What one direction of the IPC promises: a queue of at most Cap messages *)
(* that hands every message over once, whole, in the order sent.           *)
(***************************************************************************)
EXTENDS Naturals, Sequences

CONSTANTS Cap, Message, Nothing

VARIABLES
  items,  \* sent and not yet received
  last    \* the message received last

Init == items = <<>> /\ last = Nothing

Send(m) == Len(items) < Cap /\ items' = Append(items, m) /\ UNCHANGED last
Receive == items # <<>> /\ last' = Head(items) /\ items' = Tail(items)

Next == Receive \/ \E m \in Message : Send(m)

Spec == Init /\ [][Next]_<<items, last>>

=============================================================================
