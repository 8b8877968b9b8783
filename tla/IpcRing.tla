------------------------------ MODULE IpcRing -------------------------------
(***************************************************************************)
(* The shared-memory IPC of src/tinytorch_ipc.c: a request ring the client *)
(* fills and the server drains, and a response ring the other way, each    *)
(* with 32-bit head and tail counters that are only ever reduced modulo    *)
(* the capacity to find an entry.  Client and server run concurrently; a   *)
(* message is copied in and out of its entry word by word.                 *)
(*                                                                         *)
(* The endpoints are used as tools/bench_ipc_throughput.c does: one thread *)
(* each, every call retried until it succeeds, the server answering each   *)
(* request before it takes the next.  The client keeps up to Window        *)
(* requests unanswered (the tool: 1) and below that insists on sending.    *)
(*                                                                         *)
(* The counters' acquire/release pairs order the copies, so steps of the   *)
(* two threads interleave; a call loads the other side's counter once.     *)
(* An operator Op_fault is a broken Op, which some property must reject.   *)
(***************************************************************************)
EXTENDS Integers, Sequences

CONSTANTS
  Cap,       \* TT_IPC_QUEUE_CAP
  Width,     \* 2^32, the range of head and tail
  Words,     \* words a message is copied in
  Requests,  \* bound: requests the client sends in all
  Window     \* requests the client leaves unanswered at most

(* Width % Cap = 0 keeps entries in order when the counters wrap.          *)
ASSUME IpcAssumption ==
  /\ Cap \in Nat \ {0} /\ Width \in Nat /\ Width > Cap /\ Width % Cap = 0
  /\ Words \in Nat \ {0} /\ Requests \in Nat \ {0}
  /\ Window \in 1 .. 2 * Cap + 1

Queue == {"req", "resp"}
Thread == {"client", "server"}
Entry == 0 .. Cap - 1
Blank == 0

VARIABLES
  head, tail,  \* of each queue
  entries,     \* entries[q][i]: the words of entry i
  pc,          \* step of the call each thread is in
  copied,      \* words of the message copied so far in that call
  msg,         \* the message each thread sends, or has received so far
  sent, got,   \* requests sent and responses received by the client
  returned     \* last message each queue's receiver got (history)

vars == <<head, tail, entries, pc, copied, msg, sent, got, returned>>

Whole(n) == [w \in 1 .. Words |-> n]
NoMessage == Whole(Blank)

Init ==
  /\ head = [q \in Queue |-> 0] /\ tail = [q \in Queue |-> 0]
  /\ entries = [q \in Queue |-> [i \in Entry |-> NoMessage]]
  /\ pc = [t \in Thread |-> IF t = "client" THEN "send" ELSE "receive"]
  /\ copied = [t \in Thread |-> 0]
  /\ msg = [t \in Thread |-> IF t = "client" THEN Whole(1) ELSE NoMessage]
  /\ sent = 0 /\ got = 0
  /\ returned = [q \in Queue |-> NoMessage]

-----------------------------------------------------------------------------
(* tt_ipc_*_send_*: a test, the copy, and the release of the new tail.     *)

Used(q) == (tail[q] - head[q]) % Width
Full_early(q) == Used(q) >= Cap - 1
Full_late(q) == Used(q) > Cap
Full(q) == Used(q) >= Cap

StartSend(t, q) ==
  /\ pc[t] = "send" /\ ~Full(q)
  /\ pc' = [pc EXCEPT ![t] = "write"] /\ copied' = [copied EXCEPT ![t] = 0]
  /\ UNCHANGED <<head, tail, entries, msg, sent, got, returned>>

Write(t, q) ==
  /\ pc[t] = "write" /\ copied[t] < Words
  /\ LET w == copied[t] + 1
     IN /\ entries' = [entries EXCEPT ![q][tail[q] % Cap][w] = msg[t][w]]
        /\ copied' = [copied EXCEPT ![t] = w]
  /\ UNCHANGED <<head, tail, pc, msg, sent, got, returned>>

Bump(n) == (n + 1) % Width

Publish_early(t, q) ==
  /\ pc[t] = "write" /\ copied[t] >= Words - 1
  /\ tail' = [tail EXCEPT ![q] = Bump(@)]

Publish(t, q) ==
  /\ pc[t] = "write" /\ copied[t] = Words
  /\ tail' = [tail EXCEPT ![q] = Bump(@)]

(* tt_ipc_*_recv_*: a test, the copy, and the release of the new head.     *)

StartReceive(t, q) ==
  /\ pc[t] = "receive" /\ head[q] # tail[q]
  /\ pc' = [pc EXCEPT ![t] = "read"] /\ copied' = [copied EXCEPT ![t] = 0]
  /\ UNCHANGED <<head, tail, entries, msg, sent, got, returned>>

Read(t, q) ==
  /\ pc[t] = "read" /\ copied[t] < Words
  /\ LET w == copied[t] + 1
     IN /\ msg' = [msg EXCEPT ![t][w] = entries[q][head[q] % Cap][w]]
        /\ copied' = [copied EXCEPT ![t] = w]
  /\ UNCHANGED <<head, tail, entries, pc, sent, got, returned>>

Consume_early(t, q) ==
  /\ pc[t] = "read" /\ copied[t] >= Words - 1
  /\ head' = [head EXCEPT ![q] = Bump(@)]
  /\ returned' = [returned EXCEPT ![q] = msg[t]]

Consume(t, q) ==
  /\ pc[t] = "read" /\ copied[t] = Words
  /\ head' = [head EXCEPT ![q] = Bump(@)]
  /\ returned' = [returned EXCEPT ![q] = msg[t]]

-----------------------------------------------------------------------------
(* The two loops around the calls.                                         *)

ClientTurn(s, g) ==
  /\ pc' = [pc EXCEPT !["client"] = IF s < Requests /\ s - g < Window
                                      THEN "send" ELSE "receive"]
  /\ msg' = [msg EXCEPT !["client"] = IF s < Requests /\ s - g < Window
                                        THEN Whole(s + 1) ELSE NoMessage]

ClientSent ==
  /\ Publish("client", "req")
  /\ sent' = sent + 1
  /\ ClientTurn(sent + 1, got)
  /\ UNCHANGED <<head, entries, copied, got, returned>>

ClientAnswered ==
  /\ Consume("client", "resp")
  /\ got' = got + 1
  /\ ClientTurn(sent, got + 1)
  /\ UNCHANGED <<tail, entries, copied, sent>>

(* The response carries the request's id.                                  *)
ServerTook ==
  /\ Consume("server", "req")
  /\ pc' = [pc EXCEPT !["server"] = "send"]
  /\ msg' = [msg EXCEPT !["server"] = Whole(msg["server"][1])]
  /\ UNCHANGED <<tail, entries, copied, sent, got>>

ServerAnswered ==
  /\ Publish("server", "resp")
  /\ pc' = [pc EXCEPT !["server"] = "receive"]
  /\ UNCHANGED <<head, entries, copied, msg, sent, got, returned>>

Client ==
  \/ StartSend("client", "req") \/ Write("client", "req") \/ ClientSent
  \/ StartReceive("client", "resp") \/ Read("client", "resp") \/ ClientAnswered

Server ==
  \/ StartReceive("server", "req") \/ Read("server", "req") \/ ServerTook
  \/ StartSend("server", "resp") \/ Write("server", "resp") \/ ServerAnswered

Next == Client \/ Server

(* Both threads keep running.                                              *)
Spec == Init /\ [][Next]_vars /\ WF_vars(Client) /\ WF_vars(Server)

-----------------------------------------------------------------------------
Index == 0 .. Width - 1
Word == 0 .. Requests

(* Counters stay in their 32-bit range, and every field keeps its type.    *)
IpcTypeOK ==
  /\ head \in [Queue -> Index] /\ tail \in [Queue -> Index]
  /\ entries \in [Queue -> [Entry -> [1 .. Words -> Word]]]
  /\ pc \in [Thread -> {"send", "write", "receive", "read"}]
  /\ copied \in [Thread -> 0 .. Words]
  /\ msg \in [Thread -> [1 .. Words -> Word]]
  /\ sent \in 0 .. Requests /\ got \in 0 .. sent
  /\ returned \in [Queue -> [1 .. Words -> Word]]

Items(q) == [i \in 1 .. Used(q) |-> entries[q][((head[q] + i - 1) % Width) % Cap]]
Message == {Whole(n) : n \in 1 .. Requests}

(* Each ring is a bounded queue of whole messages: none lost, duplicated,  *)
(* reordered, torn or overwritten, across any wrap of entries or counters. *)
RequestQueue == INSTANCE BoundedQueue
  WITH items <- Items("req"), last <- returned["req"], Nothing <- NoMessage
ResponseQueue == INSTANCE BoundedQueue
  WITH items <- Items("resp"), last <- returned["resp"], Nothing <- NoMessage
RingsQueue == RequestQueue!Spec /\ ResponseQueue!Spec

(* The n-th response the client gets answers its n-th request, and counters*)
(* and words stay in their range.                                          *)
AnswersInOrder == IpcTypeOK /\ returned["resp"] = Whole(got)

(* Every request is answered: with at most 2 * Cap + 1 of them outstanding *)
(* the two threads never wait on each other's full ring.                   *)
AllAnswered == <>(got = Requests)

=============================================================================
