---------------------------- MODULE RingProofs ------------------------------
(***************************************************************************)
(* Theorems about the two programs that hand things over in a ring:        *)
(* IpcRing, for every capacity, message size, number of requests and       *)
(* window, and every counter width the capacity divides; and AsyncPrinter, *)
(* for every ring, buffer and turn.                                        *)
(***************************************************************************)
EXTENDS IpcRing, AsyncPrinter, ModuloLemmas, SequenceTheorems

-----------------------------------------------------------------------------
(* IpcRing: the answers come back in order, and each ring is a bounded     *)
(* queue.                                                                  *)

(* How many messages went into each ring and came out of it, from the      *)
(* start: what head and tail are the remainders of.  The server has taken  *)
(* the request whose id it returned last, and owes the answer to it while  *)
(* it sends.                                                               *)
Took == returned["req"][1]
Answered == IF pc["server"] \in {"send", "write"} THEN Took - 1 ELSE Took
In(q) == IF q = "req" THEN sent ELSE Answered
Out(q) == IF q = "req" THEN Took ELSE got

Sender(q) == IF q = "req" THEN "client" ELSE "server"
Receiver(q) == IF q = "req" THEN "server" ELSE "client"

(* Requests run ahead of answers, by what the rings hold.                  *)
Counts ==
  /\ Took \in 0 .. Requests /\ Answered \in 0 .. Requests
  /\ got \in 0 .. Answered /\ Took \in 0 .. sent /\ sent \in 0 .. Requests

(* The counters find the messages in flight, in order and whole.           *)
RingOK(q) ==
  /\ In(q) - Out(q) <= Cap
  /\ head[q] = Out(q) % Width /\ tail[q] = In(q) % Width
  /\ returned[q] = Whole(Out(q))
  /\ \A n \in Out(q) + 1 .. In(q) : entries[q][(n - 1) % Cap] = Whole(n)

(* A thread that sends has the next message in hand; while it copies, the  *)
(* entry is free and its first words are written.                          *)
SenderOK(q) ==
  LET t == Sender(q)
  IN /\ pc[t] \in {"send", "write"} => msg[t] = Whole(In(q) + 1) /\ In(q) < Requests
     /\ pc[t] = "write" =>
          /\ In(q) - Out(q) < Cap
          /\ \A w \in 1 .. copied[t] : entries[q][In(q) % Cap][w] = In(q) + 1

(* A thread that receives copies a message that is there.                  *)
ReceiverOK(q) ==
  LET t == Receiver(q)
  IN pc[t] = "read" =>
       /\ Out(q) < In(q)
       /\ \A w \in 1 .. copied[t] : msg[t][w] = Out(q) + 1

Exchange(q) == RingOK(q) /\ SenderOK(q) /\ ReceiverOK(q)

(* The inductive invariant.                                                *)
IInv == IpcTypeOK /\ Counts /\ \A q \in Queue : Exchange(q)

-----------------------------------------------------------------------------
(* Counters.                                                               *)

(* The entry a counter names does not change when the counter wraps.       *)
LEMMA SlotOfCounter ==
  ASSUME NEW n \in Nat
  PROVE  (n % Width) % Cap = n % Cap /\ n % Cap \in Entry /\ n % Width \in Index
<1>1. Cap \in Nat \ {0} /\ Width \in Nat \ {0} /\ Width % Cap = 0
  BY IpcAssumption
<1>2. n = Width * (n \div Width) + (n % Width) /\ n % Width \in 0 .. Width - 1
      /\ n \div Width \in Int
  BY <1>1, Division
<1>3. Width = Cap * (Width \div Cap) /\ Width \div Cap \in Int
  BY <1>1, Division
<1> DEFINE k == (Width \div Cap) * (n \div Width)
<1>4. n = (n % Width) + Cap * k /\ k \in Int
  <2>1. \A a, b, c \in Int : (a * b) * c = a * (b * c)
    OBVIOUS
  <2>2. Width * (n \div Width) = Cap * k
    BY <1>1, <1>2, <1>3, <2>1
  <2>3. k \in Int
    BY <1>2, <1>3
  <2> HIDE DEF k
  <2> QED BY <1>1, <1>2, <2>2, <2>3
<1> HIDE DEF k
<1>5. n % Cap = (n % Width) % Cap
  <2>1. ((n % Width) + Cap * k) % Cap = (n % Width) % Cap
    <3>1. Cap \in Nat \ {0} /\ n % Width \in Int /\ k \in Int
      BY <1>1, <1>2, <1>4
    <3> QED BY <3>1, Multiple
  <2> QED BY <2>1, <1>4
<1>6. n % Cap \in 0 .. Cap - 1
  BY <1>1, Division
<1> QED BY <1>2, <1>5, <1>6 DEF Entry, Index

(* Moving a counter on.                                                    *)
LEMMA BumpCounter ==
  ASSUME NEW n \in Nat
  PROVE  Bump(n % Width) = (n + 1) % Width
<1>1. Width \in Nat \ {0} /\ n \in Int /\ 1 \in Int
  BY IpcAssumption
<1> QED BY <1>1, ReducedFirst DEF Bump

LEMMA BumpInRange ==
  ASSUME NEW n \in Index
  PROVE  Bump(n) \in Index
<1>1. Width \in Nat \ {0} /\ n + 1 \in Int
  BY IpcAssumption DEF Index
<1>2. (n + 1) % Width \in 0 .. Width - 1
  BY <1>1, Division
<1> QED BY <1>2 DEF Bump, Index

(* The difference of two counters at most Cap apart is the distance.       *)
LEMMA Distance ==
  ASSUME NEW m \in Nat, NEW n \in Nat, m <= n, n - m <= Cap
  PROVE  ((n % Width) - (m % Width)) % Width = n - m
<1>1. Width \in Nat \ {0} /\ n - m \in 0 .. Width - 1
  BY IpcAssumption
<1>2. /\ n = Width * (n \div Width) + (n % Width)
      /\ m = Width * (m \div Width) + (m % Width)
      /\ n % Width \in Int /\ m % Width \in Int
      /\ n \div Width \in Int /\ m \div Width \in Int
  BY <1>1, Division
<1> DEFINE k == (m \div Width) - (n \div Width)
<1>3. (n % Width) - (m % Width) = (n - m) + Width * k /\ k \in Int
  <2>1. Width * k = Width * (m \div Width) - Width * (n \div Width)
    BY <1>1, <1>2
  <2> QED BY <1>1, <1>2, <2>1
<1> HIDE DEF k
<1>4. ((n - m) + Width * k) % Width = (n - m) % Width
  <2>1. Width \in Nat \ {0} /\ n - m \in Int /\ k \in Int
    BY <1>1, <1>3
  <2> QED BY <2>1, Multiple
<1>5. (n - m) % Width = n - m
  BY <1>1
<1> QED BY <1>3, <1>4, <1>5

-----------------------------------------------------------------------------
(* What the invariant says of one ring.                                    *)

LEMMA Bounds ==
  ASSUME IpcTypeOK, Counts, NEW q \in Queue
  PROVE  In(q) \in 0 .. Requests /\ Out(q) \in 0 .. In(q) /\ In(q) \in Nat /\ Out(q) \in Nat
BY IpcAssumption DEF IpcTypeOK, Counts, In, Out, Queue

(* What the calls compute from the counters.                               *)
LEMMA Occupancy ==
  ASSUME IpcTypeOK, Counts, NEW q \in Queue, RingOK(q)
  PROVE  /\ Used(q) = In(q) - Out(q)
         /\ head[q] % Cap = Out(q) % Cap /\ tail[q] % Cap = In(q) % Cap
         /\ In(q) % Cap \in Entry /\ Out(q) % Cap \in Entry
         /\ head[q] # tail[q] => Out(q) < In(q)
<1>1. In(q) \in Nat /\ Out(q) \in Nat /\ Out(q) <= In(q)
  BY Bounds
<1>2. Used(q) = In(q) - Out(q)
  BY <1>1, Distance DEF RingOK, Used
<1> QED BY <1>1, <1>2, SlotOfCounter DEF RingOK

(* An entry below the tail is not the one the next message goes to.        *)
LEMMA FreeEntry ==
  ASSUME IpcTypeOK, Counts, NEW q \in Queue, In(q) - Out(q) < Cap,
         NEW n \in Out(q) + 1 .. In(q)
  PROVE  (n - 1) % Cap # In(q) % Cap /\ (n - 1) % Cap \in Entry
<1>1. In(q) \in Nat /\ Out(q) \in Nat /\ Out(q) <= In(q)
  BY Bounds
<1>2. n - 1 \in Nat /\ n - 1 < In(q) /\ In(q) - (n - 1) < Cap
  BY <1>1, IpcAssumption
<1>3. Cap \in Nat \ {0} /\ n - 1 \in Int /\ In(q) \in Int
  BY <1>1, <1>2, IpcAssumption
<1>4. (n - 1) % Cap # In(q) % Cap
  BY <1>2, <1>3, Apart
<1>5. (n - 1) % Cap \in Entry
  BY <1>2, SlotOfCounter
<1> QED BY <1>4, <1>5

(* A message is as many words as it has.                                   *)
LEMMA AllWords ==
  ASSUME NEW m \in [1 .. Words -> Word], NEW n \in Nat, \A w \in 1 .. Words : m[w] = n
  PROVE  m = Whole(n)
BY DEF Whole

LEMMA WholeWords ==
  ASSUME NEW n \in 0 .. Requests
  PROVE  Whole(n) \in [1 .. Words -> Word] /\ \A w \in 1 .. Words : Whole(n)[w] = n
BY DEF Whole, Word

-----------------------------------------------------------------------------
(* The invariant is inductive.                                             *)

LEMMA InitIInv == Init => IInv
<1> SUFFICES ASSUME Init PROVE IInv
  OBVIOUS
<1>1. /\ 0 \in 0 .. Requests /\ 0 \in Index /\ 0 \in 0 .. Words /\ Words \in Nat
      /\ 1 \in 1 .. Words
  BY IpcAssumption DEF Index
<1>2. NoMessage \in [1 .. Words -> Word] /\ Whole(0) = NoMessage
  BY <1>1, WholeWords DEF NoMessage, Blank
<1>3. msg["client"] = Whole(1) /\ msg["server"] = NoMessage
  BY DEF Init, Thread
<1>4. returned["req"] = Whole(0) /\ returned["resp"] = Whole(0) /\ Took = 0
  BY <1>1, <1>2 DEF Init, Queue, Took, Whole
<1>5. pc["server"] = "receive" /\ pc["client"] = "send"
  BY DEF Init, Thread
<1>6. \A q \in Queue : In(q) = 0 /\ Out(q) = 0
  BY <1>4, <1>5 DEF In, Out, Answered, Init
<1>7. 0 % Width = 0
  BY IpcAssumption
<1>8. IpcTypeOK
  BY <1>1, <1>2, <1>3, <1>5, WholeWords, IpcAssumption
  DEF Init, IpcTypeOK, Queue, Thread, Entry, Index
<1>9. Counts
  BY <1>1, <1>4, <1>5 DEF Counts, Init, Answered
<1>10. ASSUME NEW q \in Queue PROVE RingOK(q)
  BY <1>4, <1>6, <1>7, IpcAssumption DEF RingOK, Init, Queue
<1>11. ASSUME NEW q \in Queue PROVE SenderOK(q)
  BY <1>3, <1>5, <1>6, IpcAssumption DEF SenderOK, Sender, Queue
<1>12. ASSUME NEW q \in Queue PROVE ReceiverOK(q)
  BY <1>5 DEF ReceiverOK, Receiver, Queue
<1> QED BY <1>8, <1>9, <1>10, <1>11, <1>12 DEF IInv, Exchange

(* A step that copies nothing over and moves no counter leaves the counts. *)
LEMMA CountsKept ==
  ASSUME Counts, UNCHANGED <<sent, got, returned>>,
         (pc'["server"] \in {"send", "write"}) = (pc["server"] \in {"send", "write"})
  PROVE  Counts' /\ \A q \in Queue : In(q)' = In(q) /\ Out(q)' = Out(q)
<1>1. Took' = Took
  BY DEF Took
<1>2. Answered' = Answered
  BY <1>1 DEF Answered
<1> QED BY <1>1, <1>2 DEF Counts, In, Out

(* The other ring, of which this thread is at the other end.               *)
LEMMA Ends ==
  ASSUME NEW q \in Queue, NEW p \in Queue, p # q
  PROVE  /\ Sender(p) = Receiver(q) /\ Receiver(p) = Sender(q) /\ Sender(q) # Receiver(q)
         /\ Sender(q) \in Thread /\ Receiver(q) \in Thread
BY DEF Queue, Sender, Receiver, Thread

(* What thread t does in a call on q leaves the other ring as it is, and   *)
(* t, busy in the call, is in no call on that one.                         *)
LEMMA Bystander ==
  ASSUME NEW q \in Queue, NEW p \in Queue, p # q, NEW t \in {Sender(q), Receiver(q)}, Exchange(p),
         pc'[t] = IF t = Sender(q) THEN "write" ELSE "read",
         \A u \in Thread \ {t} : pc'[u] = pc[u] /\ copied'[u] = copied[u] /\ msg'[u] = msg[u],
         UNCHANGED <<head, tail, returned>>, entries'[p] = entries[p],
         In(p)' = In(p), Out(p)' = Out(p)
  PROVE  Exchange(p)'
<1>1. RingOK(p)'
  BY DEF Exchange, RingOK
<1>2. SenderOK(p)'
  <2>1. CASE t = Sender(q)
    BY <2>1, Ends DEF Exchange, SenderOK
  <2>2. CASE t = Receiver(q)
    BY <2>2, Ends DEF Exchange, SenderOK
  <2> QED BY <2>1, <2>2
<1>3. ReceiverOK(p)'
  <2>1. CASE t = Sender(q)
    BY <2>1, Ends DEF Exchange, ReceiverOK
  <2>2. CASE t = Receiver(q)
    BY <2>2, Ends DEF Exchange, ReceiverOK
  <2> QED BY <2>1, <2>2
<1> QED BY <1>1, <1>2, <1>3 DEF Exchange

LEMMA StartSendIInv ==
  ASSUME IInv, NEW q \in Queue, StartSend(Sender(q), q)
  PROVE  IInv'
<1> DEFINE t == Sender(q)
<1>1. t \in Thread /\ pc \in [Thread -> {"send", "write", "receive", "read"}]
      /\ copied \in [Thread -> 0 .. Words]
  BY DEF IInv, IpcTypeOK, Sender, Thread
<1>2. /\ pc[t] = "send" /\ pc'[t] = "write" /\ copied'[t] = 0 /\ ~Full(q)
      /\ \A u \in Thread \ {t} : pc'[u] = pc[u] /\ copied'[u] = copied[u] /\ msg'[u] = msg[u]
      /\ UNCHANGED <<head, tail, entries, msg, sent, got, returned>>
  BY <1>1 DEF StartSend
<1>3. IpcTypeOK'
  BY <1>1, <1>2, IpcAssumption DEF IInv, IpcTypeOK, StartSend
<1>4. Counts' /\ \A p \in Queue : In(p)' = In(p) /\ Out(p)' = Out(p)
  <2>1. (pc'["server"] \in {"send", "write"}) = (pc["server"] \in {"send", "write"})
    BY <1>1, <1>2 DEF Thread
  <2> QED BY <1>2, <2>1, CountsKept DEF IInv
<1>5. ASSUME NEW p \in Queue, p # q PROVE Exchange(p)'
  BY <1>2, <1>4, <1>5, Bystander DEF IInv
<1>6. Exchange(q)'
  <2>1. In(q) - Out(q) < Cap
    <3>1. Used(q) = In(q) - Out(q)
      BY Occupancy DEF IInv, Exchange
    <3> QED BY <1>2, <3>1, Bounds, IpcAssumption DEF Full, IInv
  <2>2. RingOK(q)'
    BY <1>2, <1>4 DEF IInv, Exchange, RingOK
  <2>3. SenderOK(q)'
    BY <1>2, <1>4, <2>1 DEF IInv, Exchange, SenderOK
  <2>4. ReceiverOK(q)'
    <3>1. Receiver(q) \in Thread \ {t}
      BY DEF Receiver, Sender, Thread, Queue
    <3> QED BY <1>2, <1>4, <3>1 DEF IInv, Exchange, ReceiverOK
  <2> QED BY <2>2, <2>3, <2>4 DEF Exchange
<1> QED BY <1>3, <1>4, <1>5, <1>6 DEF IInv

(* The word goes to the entry at the tail, which no message in flight uses.*)
LEMMA WriteIInv ==
  ASSUME IInv, NEW q \in Queue, Write(Sender(q), q)
  PROVE  IInv'
<1> DEFINE t == Sender(q)
           w == copied[t] + 1
           e == tail[q] % Cap
<1>1. t \in Thread /\ pc \in [Thread -> {"send", "write", "receive", "read"}]
      /\ copied \in [Thread -> 0 .. Words] /\ msg[t] \in [1 .. Words -> Word]
      /\ entries \in [Queue -> [Entry -> [1 .. Words -> Word]]]
  BY DEF IInv, IpcTypeOK, Sender, Thread
<1>2. /\ pc[t] = "write" /\ copied[t] < Words
      /\ entries' = [entries EXCEPT ![q][e][w] = msg[t][w]]
      /\ copied' = [copied EXCEPT ![t] = w]
      /\ UNCHANGED <<head, tail, pc, msg, sent, got, returned>>
  BY DEF Write
<1>3. w \in 1 .. Words /\ w \in 0 .. Words
  BY <1>1, <1>2, IpcAssumption
<1>4. /\ e = In(q) % Cap /\ e \in Entry /\ In(q) \in 0 .. Requests - 1
      /\ msg[t] = Whole(In(q) + 1) /\ msg[t][w] = In(q) + 1 /\ msg[t][w] \in Word
  <2>1. e = In(q) % Cap /\ e \in Entry
    BY Occupancy DEF IInv, Exchange
  <2>2. msg[t] = Whole(In(q) + 1) /\ In(q) < Requests
    BY <1>2 DEF IInv, Exchange, SenderOK
  <2>3. In(q) \in 0 .. Requests - 1
    BY <2>2, Bounds, IpcAssumption DEF IInv
  <2> QED BY <1>1, <1>3, <2>1, <2>2, <2>3 DEF Whole
<1> HIDE DEF e, w
<1>5. IpcTypeOK'
  <2>1. entries' \in [Queue -> [Entry -> [1 .. Words -> Word]]]
    BY <1>1, <1>2, <1>3, <1>4
  <2>2. copied' \in [Thread -> 0 .. Words]
    BY <1>1, <1>2, <1>3
  <2> QED BY <1>2, <2>1, <2>2 DEF IInv, IpcTypeOK
<1>6. Counts' /\ \A p \in Queue : In(p)' = In(p) /\ Out(p)' = Out(p)
  BY <1>2, CountsKept DEF IInv
<1>7. ASSUME NEW p \in Queue, p # q PROVE Exchange(p)'
  <2>1. entries'[p] = entries[p] /\ \A u \in Thread \ {t} : copied'[u] = copied[u]
    BY <1>1, <1>2, <1>7
  <2> QED BY <1>2, <1>6, <1>7, <2>1, Bystander DEF IInv
<1>8. RingOK(q)'
  <2>1. In(q) - Out(q) < Cap
    BY <1>2 DEF IInv, Exchange, SenderOK
  <2>2. ASSUME NEW n \in Out(q) + 1 .. In(q)
        PROVE  entries'[q][(n - 1) % Cap] = Whole(n)
    <3>1. (n - 1) % Cap # e /\ (n - 1) % Cap \in Entry
      BY <2>1, <1>4, FreeEntry DEF IInv
    <3>2. entries'[q][(n - 1) % Cap] = entries[q][(n - 1) % Cap]
      BY <1>1, <1>2, <3>1
    <3> QED BY <3>2 DEF IInv, Exchange, RingOK
  <2> QED BY <1>2, <1>6, <2>2 DEF IInv, Exchange, RingOK
<1>9. SenderOK(q)'
  <2>1. copied'[t] = w
    BY <1>1, <1>2
  <2>2. ASSUME NEW v \in 1 .. w
        PROVE  entries'[q][e][v] = In(q) + 1
    <3>1. v \in 1 .. Words
      BY <1>3, IpcAssumption
    <3> DEFINE old == entries[q][e]
    <3>2. entries'[q][e] = [old EXCEPT ![w] = msg[t][w]] /\ old \in [1 .. Words -> Word]
      BY <1>1, <1>2, <1>4
    <3> HIDE DEF old
    <3>3. CASE v = w
      BY <1>4, <3>1, <3>2, <3>3
    <3>4. CASE v # w
      <4>1. entries'[q][e][v] = entries[q][e][v]
        BY <3>1, <3>2, <3>4 DEF old
      <4>2. v \in 1 .. copied[t]
        BY <1>1, <1>3, <3>4 DEF w
      <4> QED BY <1>2, <1>4, <4>1, <4>2 DEF IInv, Exchange, SenderOK
    <3> QED BY <3>3, <3>4
  <2> QED BY <1>2, <1>4, <1>6, <2>1, <2>2 DEF IInv, Exchange, SenderOK
<1>10. ReceiverOK(q)'
  <2>1. Receiver(q) \in Thread \ {t}
    BY DEF Receiver, Sender, Thread, Queue
  <2>2. copied'[Receiver(q)] = copied[Receiver(q)]
    BY <1>1, <1>2, <2>1
  <2> QED BY <1>2, <1>6, <2>2 DEF IInv, Exchange, ReceiverOK
<1> QED BY <1>5, <1>6, <1>7, <1>8, <1>9, <1>10 DEF IInv, Exchange

LEMMA StartReceiveIInv ==
  ASSUME IInv, NEW q \in Queue, StartReceive(Receiver(q), q)
  PROVE  IInv'
<1> DEFINE t == Receiver(q)
<1>1. t \in Thread /\ pc \in [Thread -> {"send", "write", "receive", "read"}]
      /\ copied \in [Thread -> 0 .. Words]
  BY DEF IInv, IpcTypeOK, Receiver, Thread
<1>2. /\ pc[t] = "receive" /\ pc'[t] = "read" /\ copied'[t] = 0 /\ head[q] # tail[q]
      /\ \A u \in Thread \ {t} : pc'[u] = pc[u] /\ copied'[u] = copied[u] /\ msg'[u] = msg[u]
      /\ UNCHANGED <<head, tail, entries, msg, sent, got, returned>>
  BY <1>1 DEF StartReceive
<1>3. IpcTypeOK'
  BY <1>1, <1>2, IpcAssumption DEF IInv, IpcTypeOK, StartReceive
<1>4. Counts' /\ \A p \in Queue : In(p)' = In(p) /\ Out(p)' = Out(p)
  <2>1. (pc'["server"] \in {"send", "write"}) = (pc["server"] \in {"send", "write"})
    BY <1>1, <1>2 DEF Thread
  <2> QED BY <1>2, <2>1, CountsKept DEF IInv
<1>5. ASSUME NEW p \in Queue, p # q PROVE Exchange(p)'
  <2>1. Receiver(q) # Sender(q)
    BY DEF Receiver, Sender
  <2> QED BY <1>2, <1>4, <1>5, <2>1, Bystander DEF IInv
<1>6. Exchange(q)'
  <2>1. Out(q) < In(q)
    BY <1>2, Occupancy DEF IInv, Exchange
  <2>2. RingOK(q)'
    BY <1>2, <1>4 DEF IInv, Exchange, RingOK
  <2>3. SenderOK(q)'
    <3>1. Sender(q) \in Thread \ {t}
      BY DEF Receiver, Sender, Thread, Queue
    <3> QED BY <1>2, <1>4, <3>1 DEF IInv, Exchange, SenderOK
  <2>4. ReceiverOK(q)'
    BY <1>2, <1>4, <2>1 DEF ReceiverOK
  <2> QED BY <2>2, <2>3, <2>4 DEF Exchange
<1> QED BY <1>3, <1>4, <1>5, <1>6 DEF IInv

(* The word comes from the entry at the head, which holds a whole message. *)
LEMMA ReadIInv ==
  ASSUME IInv, NEW q \in Queue, Read(Receiver(q), q)
  PROVE  IInv'
<1> DEFINE t == Receiver(q)
           w == copied[t] + 1
           e == head[q] % Cap
<1>1. t \in Thread /\ pc \in [Thread -> {"send", "write", "receive", "read"}]
      /\ copied \in [Thread -> 0 .. Words] /\ msg \in [Thread -> [1 .. Words -> Word]]
  BY DEF IInv, IpcTypeOK, Receiver, Thread
<1>2. /\ pc[t] = "read" /\ copied[t] < Words
      /\ msg' = [msg EXCEPT ![t][w] = entries[q][e][w]]
      /\ copied' = [copied EXCEPT ![t] = w]
      /\ UNCHANGED <<head, tail, entries, pc, sent, got, returned>>
  BY DEF Read
<1>3. w \in 1 .. Words /\ w \in 0 .. Words
  BY <1>1, <1>2, IpcAssumption
<1>4. entries[q][e][w] = Out(q) + 1 /\ Out(q) + 1 \in Word
  <2>1. e = Out(q) % Cap
    BY Occupancy DEF IInv, Exchange
  <2>2. /\ Out(q) < In(q) /\ Out(q) \in Nat /\ In(q) \in 0 .. Requests
        /\ Requests \in Nat
    BY <1>2, Bounds, IpcAssumption DEF IInv, Exchange, ReceiverOK
  <2>3. Out(q) + 1 \in Out(q) + 1 .. In(q) /\ (Out(q) + 1) - 1 = Out(q)
    BY <2>2
  <2>4. entries[q][Out(q) % Cap] = Whole(Out(q) + 1)
    BY <2>3 DEF IInv, Exchange, RingOK
  <2>5. Out(q) + 1 \in Word
    BY <2>2 DEF Word
  <2> HIDE DEF e, w
  <2> QED BY <1>3, <2>1, <2>4, <2>5 DEF Whole
<1> HIDE DEF e, w
<1>5. IpcTypeOK'
  <2>1. msg' \in [Thread -> [1 .. Words -> Word]]
    BY <1>1, <1>2, <1>3, <1>4
  <2>2. copied' \in [Thread -> 0 .. Words]
    BY <1>1, <1>2, <1>3
  <2> QED BY <1>2, <2>1, <2>2 DEF IInv, IpcTypeOK
<1>6. Counts' /\ \A p \in Queue : In(p)' = In(p) /\ Out(p)' = Out(p)
  BY <1>2, CountsKept DEF IInv
<1>7. \A u \in Thread \ {t} : pc'[u] = pc[u] /\ copied'[u] = copied[u] /\ msg'[u] = msg[u]
  BY <1>1, <1>2
<1>8. ASSUME NEW p \in Queue, p # q PROVE Exchange(p)'
  <2>1. Receiver(q) # Sender(q)
    BY DEF Receiver, Sender
  <2> QED BY <1>2, <1>6, <1>7, <1>8, <2>1, Bystander DEF IInv
<1>9. RingOK(q)'
  BY <1>2, <1>6 DEF IInv, Exchange, RingOK
<1>10. SenderOK(q)'
  <2>1. Sender(q) \in Thread \ {t}
    BY DEF Receiver, Sender, Thread, Queue
  <2> QED BY <1>2, <1>6, <1>7, <2>1 DEF IInv, Exchange, SenderOK
<1>11. ReceiverOK(q)'
  <2>1. copied'[t] = w
    BY <1>1, <1>2
  <2>2. ASSUME NEW v \in 1 .. w
        PROVE  msg'[t][v] = Out(q) + 1
    <3> DEFINE old == msg[t]
    <3>1. v \in 1 .. Words
      BY <1>3, IpcAssumption
    <3>2. msg'[t] = [old EXCEPT ![w] = entries[q][e][w]] /\ old \in [1 .. Words -> Word]
      BY <1>1, <1>2
    <3> HIDE DEF old
    <3>3. CASE v = w
      BY <1>4, <3>1, <3>2, <3>3
    <3>4. CASE v # w
      <4>1. msg'[t][v] = msg[t][v]
        BY <3>1, <3>2, <3>4 DEF old
      <4>2. v \in 1 .. copied[t]
        BY <1>1, <1>3, <3>4 DEF w
      <4> QED BY <1>2, <4>1, <4>2 DEF IInv, Exchange, ReceiverOK
    <3> QED BY <3>3, <3>4
  <2> QED BY <1>2, <1>6, <2>1, <2>2 DEF IInv, Exchange, ReceiverOK
<1> QED BY <1>5, <1>6, <1>8, <1>9, <1>10, <1>11 DEF IInv, Exchange

-----------------------------------------------------------------------------
(* The last step of a call, with what the thread turns to.                 *)

(* What the client turns to is a message to send only while there is one.  *)
LEMMA TurnIs ==
  ASSUME NEW s \in 0 .. Requests, NEW g \in Nat, ClientTurn(s, g), IpcTypeOK
  PROVE  /\ pc'["client"] \in {"send", "receive"}
         /\ pc'["client"] = "send" => s < Requests /\ msg'["client"] = Whole(s + 1)
         /\ pc'["server"] = pc["server"] /\ msg'["server"] = msg["server"]
         /\ pc' \in [Thread -> {"send", "write", "receive", "read"}]
         /\ msg' \in [Thread -> [1 .. Words -> Word]]
<1> DEFINE more == s < Requests /\ s - g < Window
           hand == IF more THEN Whole(s + 1) ELSE NoMessage
<1>1. /\ pc' = [pc EXCEPT !["client"] = IF more THEN "send" ELSE "receive"]
      /\ msg' = [msg EXCEPT !["client"] = hand]
      /\ pc \in [Thread -> {"send", "write", "receive", "read"}]
      /\ msg \in [Thread -> [1 .. Words -> Word]] /\ "client" \in Thread /\ "server" \in Thread
  BY DEF ClientTurn, IpcTypeOK, Thread
<1>2. hand \in [1 .. Words -> Word]
  <2>1. CASE more
    <3>1. s + 1 \in 0 .. Requests
      BY <2>1, IpcAssumption
    <3> QED BY <2>1, <3>1, WholeWords
  <2>2. CASE ~more
    <3>1. 0 \in 0 .. Requests
      BY IpcAssumption
    <3> QED BY <2>2, <3>1, WholeWords DEF NoMessage, Blank
  <2> QED BY <2>1, <2>2
<1>3. more => s < Requests /\ hand = Whole(s + 1)
  OBVIOUS
<1> HIDE DEF more, hand
<1> QED BY <1>1, <1>2, <1>3

(* A message whose words are all copied in joins those in flight.          *)
LEMMA PublishRing ==
  ASSUME IInv, NEW q \in Queue, Publish(Sender(q), q),
         UNCHANGED <<head, entries, returned>>, In(q)' = In(q) + 1, Out(q)' = Out(q)
  PROVE  RingOK(q)'
<1> DEFINE t == Sender(q)
           m == entries[q][In(q) % Cap]
<1>1. /\ pc[t] = "write" /\ copied[t] = Words /\ In(q) - Out(q) < Cap
      /\ tail' = [tail EXCEPT ![q] = Bump(@)] /\ tail \in [Queue -> Index]
  BY DEF Publish, IInv, Exchange, SenderOK, IpcTypeOK
<1>2. In(q) \in Nat /\ Out(q) \in Nat /\ Out(q) <= In(q) /\ In(q) + 1 \in Nat
  BY Bounds DEF IInv
<1>3. m = Whole(In(q) + 1)
  <2>1. In(q) % Cap \in Entry
    BY <1>2, SlotOfCounter
  <2>2. m \in [1 .. Words -> Word]
    BY <2>1 DEF IInv, IpcTypeOK
  <2>3. \A w \in 1 .. Words : m[w] = In(q) + 1
    BY <1>1 DEF IInv, Exchange, SenderOK
  <2> HIDE DEF m
  <2> QED BY <1>2, <2>2, <2>3, AllWords
<1>4. tail'[q] = (In(q) + 1) % Width
  BY <1>1, <1>2, BumpCounter DEF IInv, Exchange, RingOK
<1>5. In(q)' - Out(q)' <= Cap
  BY <1>1, <1>2, IpcAssumption
<1>6. ASSUME NEW n \in Out(q) + 1 .. In(q) + 1
      PROVE  entries[q][(n - 1) % Cap] = Whole(n)
  <2>1. CASE n = In(q) + 1
    <3>1. n - 1 = In(q)
      BY <1>2, <2>1
    <3> QED BY <1>3, <2>1, <3>1
  <2>2. CASE n # In(q) + 1
    <3>1. n \in Out(q) + 1 .. In(q)
      BY <1>2, <2>2
    <3> QED BY <3>1 DEF IInv, Exchange, RingOK
  <2> QED BY <2>1, <2>2
<1> QED BY <1>4, <1>5, <1>6 DEF IInv, Exchange, RingOK

(* A message whose words are all copied out was the oldest in flight.      *)
LEMMA ConsumeRing ==
  ASSUME IInv, NEW q \in Queue, Consume(Receiver(q), q),
         UNCHANGED <<tail, entries>>, In(q)' = In(q), Out(q)' = Out(q) + 1
  PROVE  RingOK(q)'
<1> DEFINE t == Receiver(q)
<1>1. /\ pc[t] = "read" /\ copied[t] = Words /\ Out(q) < In(q)
      /\ head' = [head EXCEPT ![q] = Bump(@)] /\ head \in [Queue -> Index]
      /\ returned' = [returned EXCEPT ![q] = msg[t]]
      /\ returned \in [Queue -> [1 .. Words -> Word]]
  BY DEF Consume, IInv, Exchange, ReceiverOK, IpcTypeOK
<1>2. In(q) \in Nat /\ Out(q) \in Nat /\ Out(q) + 1 \in Nat
  BY Bounds DEF IInv
<1>3. msg[t] = Whole(Out(q) + 1)
  <2>1. msg[t] \in [1 .. Words -> Word]
    BY DEF IInv, IpcTypeOK, Receiver, Thread
  <2>2. \A w \in 1 .. Words : msg[t][w] = Out(q) + 1
    BY <1>1 DEF IInv, Exchange, ReceiverOK
  <2> QED BY <1>2, <2>1, <2>2, AllWords
<1>4. head'[q] = (Out(q) + 1) % Width
  BY <1>1, <1>2, BumpCounter DEF IInv, Exchange, RingOK
<1>5. In(q)' - Out(q)' <= Cap
  BY <1>2, IpcAssumption DEF IInv, Exchange, RingOK
<1>6. \A n \in Out(q)' + 1 .. In(q)' : n \in Out(q) + 1 .. In(q)
  BY <1>2
<1> QED BY <1>1, <1>3, <1>4, <1>5, <1>6 DEF IInv, Exchange, RingOK

LEMMA Roles ==
  /\ Queue = {"req", "resp"}
  /\ Sender("req") = "client" /\ Receiver("req") = "server"
  /\ Sender("resp") = "server" /\ Receiver("resp") = "client"
  /\ In("req") = sent /\ Out("req") = Took /\ In("resp") = Answered /\ Out("resp") = got
BY DEF Queue, Sender, Receiver, In, Out

LEMMA NewRoles ==
  /\ In("req")' = sent' /\ Out("req")' = Took'
  /\ In("resp")' = Answered' /\ Out("resp")' = got'
BY DEF In, Out

LEMMA ClientSentIInv == IInv /\ ClientSent => IInv'
<1> SUFFICES ASSUME IInv, ClientSent PROVE IInv'
  OBVIOUS
<1>1. /\ Publish("client", "req") /\ ClientTurn(sent + 1, got) /\ sent' = sent + 1
      /\ UNCHANGED <<head, entries, copied, got, returned>>
  BY DEF ClientSent
<1>2. /\ sent \in Nat /\ sent < Requests /\ sent + 1 \in 0 .. Requests /\ got \in Nat
      /\ pc["client"] = "write" /\ sent + 1 \in Nat
  BY <1>1, Roles, IpcAssumption DEF Publish, IInv, Counts, Exchange, SenderOK
<1>3. /\ pc'["client"] \in {"send", "receive"}
      /\ pc'["client"] = "send" => sent' < Requests /\ msg'["client"] = Whole(sent' + 1)
      /\ pc'["server"] = pc["server"] /\ msg'["server"] = msg["server"]
      /\ pc' \in [Thread -> {"send", "write", "receive", "read"}]
      /\ msg' \in [Thread -> [1 .. Words -> Word]]
  BY <1>1, <1>2, TurnIs DEF IInv
<1>4. Took' = Took /\ Answered' = Answered
  BY <1>1, <1>3 DEF Took, Answered
<1>5. Counts'
  BY <1>1, <1>2, <1>4, IpcAssumption DEF IInv, Counts
<1>6. tail' = [tail EXCEPT !["req"] = Bump(@)] /\ tail \in [Queue -> Index]
  BY <1>1 DEF Publish, IInv, IpcTypeOK
<1>7. RingOK("req")'
  BY <1>1, <1>4, Roles, NewRoles, PublishRing
<1>8. IpcTypeOK'
  <2>1. tail' \in [Queue -> Index]
    BY <1>6, BumpInRange
  <2>2. got' \in 0 .. sent'
    BY <1>1, <1>2 DEF IInv, IpcTypeOK
  <2> QED BY <1>1, <1>2, <1>3, <2>1, <2>2 DEF IInv, IpcTypeOK
<1>9. RingOK("resp")'
  <2>1. tail'["resp"] = tail["resp"]
    BY <1>6, Roles
  <2> QED BY <1>1, <1>4, <2>1, Roles, NewRoles DEF IInv, Exchange, RingOK
<1>10. SenderOK("req")' /\ ReceiverOK("resp")'
  BY <1>3, Roles, NewRoles DEF SenderOK, ReceiverOK
<1>11. ReceiverOK("req")'
  <2>1. ReceiverOK("req")
    BY Roles DEF IInv, Exchange
  <2>2. Took \in Nat
    BY IpcAssumption DEF IInv, Counts
  <2> QED BY <1>1, <1>2, <1>3, <1>4, <2>1, <2>2, Roles, NewRoles DEF ReceiverOK
<1>12. SenderOK("resp")'
  BY <1>1, <1>3, <1>4, Roles, NewRoles DEF IInv, Exchange, SenderOK
<1> QED BY <1>5, <1>7, <1>8, <1>9, <1>10, <1>11, <1>12, Roles DEF IInv, Exchange

LEMMA ClientAnsweredIInv == IInv /\ ClientAnswered => IInv'
<1> SUFFICES ASSUME IInv, ClientAnswered PROVE IInv'
  OBVIOUS
<1>1. /\ Consume("client", "resp") /\ ClientTurn(sent, got + 1) /\ got' = got + 1
      /\ UNCHANGED <<tail, entries, copied, sent>>
  BY DEF ClientAnswered
<1>2. /\ sent \in 0 .. Requests /\ got + 1 \in Nat /\ got < Answered /\ got \in Nat
      /\ Answered \in 0 .. Requests /\ Took \in 0 .. sent /\ Answered <= Took
  BY <1>1, Roles, IpcAssumption DEF Consume, IInv, Counts, Exchange, ReceiverOK, Answered
<1>3. /\ pc'["client"] \in {"send", "receive"}
      /\ pc'["client"] = "send" => sent' < Requests /\ msg'["client"] = Whole(sent' + 1)
      /\ pc'["server"] = pc["server"] /\ msg'["server"] = msg["server"]
      /\ pc' \in [Thread -> {"send", "write", "receive", "read"}]
      /\ msg' \in [Thread -> [1 .. Words -> Word]]
  BY <1>1, <1>2, TurnIs DEF IInv
<1>4. /\ head' = [head EXCEPT !["resp"] = Bump(@)] /\ head \in [Queue -> Index]
      /\ returned' = [returned EXCEPT !["resp"] = msg["client"]]
      /\ returned \in [Queue -> [1 .. Words -> Word]]
      /\ msg["client"] \in [1 .. Words -> Word]
  BY <1>1 DEF Consume, IInv, IpcTypeOK, Thread
<1>5. returned'["req"] = returned["req"] /\ head'["req"] = head["req"]
  BY <1>4, Roles
<1>6. Took' = Took /\ Answered' = Answered
  BY <1>3, <1>5 DEF Took, Answered
<1>7. Counts'
  BY <1>1, <1>2, <1>6, IpcAssumption DEF IInv, Counts
<1>8. RingOK("resp")'
  BY <1>1, <1>6, Roles, NewRoles, ConsumeRing
<1>9. IpcTypeOK'
  <2>1. head' \in [Queue -> Index]
    BY <1>4, BumpInRange
  <2>2. returned' \in [Queue -> [1 .. Words -> Word]]
    BY <1>4
  <2>3. got' \in 0 .. sent' /\ sent' \in 0 .. Requests
    BY <1>1, <1>2
  <2> QED BY <1>1, <1>3, <2>1, <2>2, <2>3 DEF IInv, IpcTypeOK
<1>10. RingOK("req")'
  BY <1>1, <1>5, <1>6, Roles, NewRoles DEF IInv, Exchange, RingOK
<1>11. SenderOK("req")' /\ ReceiverOK("resp")'
  BY <1>3, Roles, NewRoles DEF SenderOK, ReceiverOK
<1>12. ReceiverOK("req")'
  BY <1>1, <1>3, <1>6, Roles, NewRoles DEF IInv, Exchange, ReceiverOK
<1>13. SenderOK("resp")'
  <2>1. SenderOK("resp")
    BY Roles DEF IInv, Exchange
  <2>2. Answered - got < Cap => Answered - (got + 1) < Cap
    BY <1>2, IpcAssumption
  <2> QED BY <1>1, <1>3, <1>6, <2>1, <2>2, Roles, NewRoles DEF SenderOK
<1> QED BY <1>7, <1>8, <1>9, <1>10, <1>11, <1>12, <1>13, Roles DEF IInv, Exchange

(* The request taken is the one after the last, and its id goes into the   *)
(* response.                                                               *)
LEMMA ServerTookIInv == IInv /\ ServerTook => IInv'
<1> SUFFICES ASSUME IInv, ServerTook PROVE IInv'
  OBVIOUS
<1>1. /\ Consume("server", "req") /\ pc' = [pc EXCEPT !["server"] = "send"]
      /\ msg' = [msg EXCEPT !["server"] = Whole(msg["server"][1])]
      /\ UNCHANGED <<tail, entries, copied, sent, got>>
  BY DEF ServerTook
<1>2. /\ pc["server"] = "read" /\ copied["server"] = Words
      /\ head' = [head EXCEPT !["req"] = Bump(@)] /\ head \in [Queue -> Index]
      /\ returned' = [returned EXCEPT !["req"] = msg["server"]]
      /\ returned \in [Queue -> [1 .. Words -> Word]]
      /\ msg \in [Thread -> [1 .. Words -> Word]]
      /\ pc \in [Thread -> {"send", "write", "receive", "read"}]
      /\ "client" \in Thread /\ "server" \in Thread /\ 1 \in 1 .. Words
  BY <1>1, IpcAssumption DEF Consume, IInv, IpcTypeOK, Thread
<1>3. /\ Took < sent /\ Took \in Nat /\ sent \in 0 .. Requests /\ Answered = Took
      /\ got \in 0 .. Answered
      /\ \A w \in 1 .. Words : msg["server"][w] = Took + 1
  <2>1. Took < sent /\ \A w \in 1 .. Words : msg["server"][w] = Took + 1
    BY <1>2, Roles DEF IInv, Exchange, ReceiverOK
  <2>2. Took \in 0 .. Requests /\ sent \in 0 .. Requests /\ got \in 0 .. Answered
    BY DEF IInv, Counts
  <2>3. Answered = Took
    BY <1>2 DEF Answered
  <2> QED BY <2>1, <2>2, <2>3, IpcAssumption
<1>4. /\ returned'["req"] = msg["server"] /\ returned'["resp"] = returned["resp"]
      /\ head'["resp"] = head["resp"]
      /\ pc'["server"] = "send" /\ pc'["client"] = pc["client"]
      /\ msg'["client"] = msg["client"] /\ msg'["server"] = Whole(Took + 1)
  BY <1>1, <1>2, <1>3, Roles
<1>5. Took' = Took + 1 /\ Answered' = Took' - 1
  BY <1>2, <1>3, <1>4 DEF Took, Answered
<1>6. Answered' = Answered
  BY <1>3, <1>5
<1>7. Counts'
  BY <1>1, <1>3, <1>5, <1>6, IpcAssumption DEF Counts
<1>8. RingOK("req")'
  BY <1>1, <1>5, Roles, NewRoles, ConsumeRing
<1>9. IpcTypeOK'
  <2>1. head' \in [Queue -> Index]
    BY <1>2, BumpInRange
  <2>2. returned' \in [Queue -> [1 .. Words -> Word]]
    BY <1>2
  <2>3. msg' \in [Thread -> [1 .. Words -> Word]]
    <3>1. Took + 1 \in 0 .. Requests
      BY <1>3, IpcAssumption
    <3>2. Whole(Took + 1) \in [1 .. Words -> Word]
      BY <3>1, WholeWords
    <3> QED BY <1>1, <1>2, <1>3, <3>2
  <2>4. pc' \in [Thread -> {"send", "write", "receive", "read"}]
    BY <1>1, <1>2
  <2> QED BY <1>1, <2>1, <2>2, <2>3, <2>4 DEF IInv, IpcTypeOK
<1>10. RingOK("resp")'
  BY <1>1, <1>4, <1>6, Roles, NewRoles DEF IInv, Exchange, RingOK
<1>11. SenderOK("req")'
  <2>1. SenderOK("req")
    BY Roles DEF IInv, Exchange
  <2>2. sent - Took < Cap => sent - (Took + 1) < Cap
    BY <1>3, IpcAssumption
  <2> QED BY <1>1, <1>4, <1>5, <2>1, <2>2, Roles, NewRoles DEF SenderOK
<1>12. SenderOK("resp")'
  <2>1. Answered < Requests
    BY <1>3, IpcAssumption
  <2> QED BY <1>3, <1>4, <1>6, <2>1, Roles, NewRoles DEF SenderOK
<1>13. ReceiverOK("req")'
  BY <1>4, Roles DEF ReceiverOK
<1>14. ReceiverOK("resp")'
  BY <1>1, <1>4, <1>6, Roles, NewRoles DEF IInv, Exchange, ReceiverOK
<1> QED BY <1>7, <1>8, <1>9, <1>10, <1>11, <1>12, <1>13, <1>14, Roles DEF IInv, Exchange

LEMMA ServerAnsweredIInv == IInv /\ ServerAnswered => IInv'
<1> SUFFICES ASSUME IInv, ServerAnswered PROVE IInv'
  OBVIOUS
<1>1. /\ Publish("server", "resp") /\ pc' = [pc EXCEPT !["server"] = "receive"]
      /\ UNCHANGED <<head, entries, copied, msg, sent, got, returned>>
  BY DEF ServerAnswered
<1>2. /\ pc["server"] = "write"
      /\ tail' = [tail EXCEPT !["resp"] = Bump(@)] /\ tail \in [Queue -> Index]
      /\ pc \in [Thread -> {"send", "write", "receive", "read"}]
      /\ "client" \in Thread /\ "server" \in Thread
  BY <1>1 DEF Publish, IInv, IpcTypeOK, Thread
<1>3. /\ Answered = Took - 1 /\ Took \in 0 .. Requests /\ Answered \in 0 .. Requests
      /\ got \in 0 .. Answered /\ Took \in 0 .. sent
  BY <1>2 DEF IInv, Counts, Answered
<1>4. /\ pc'["server"] = "receive" /\ pc'["client"] = pc["client"]
      /\ tail'["req"] = tail["req"]
  BY <1>1, <1>2, Roles
<1>5. Took' = Took /\ Answered' = Took
  BY <1>1, <1>4 DEF Took, Answered
<1>6. Answered' = Answered + 1
  BY <1>3, <1>5
<1>7. Counts'
  BY <1>1, <1>3, <1>5, <1>6, IpcAssumption DEF IInv, Counts
<1>8. RingOK("resp")'
  BY <1>1, <1>6, Roles, NewRoles, PublishRing
<1>9. IpcTypeOK'
  <2>1. tail' \in [Queue -> Index]
    BY <1>2, BumpInRange
  <2>2. pc' \in [Thread -> {"send", "write", "receive", "read"}]
    BY <1>1, <1>2
  <2> QED BY <1>1, <2>1, <2>2 DEF IInv, IpcTypeOK
<1>10. RingOK("req")'
  BY <1>1, <1>4, <1>5, Roles, NewRoles DEF IInv, Exchange, RingOK
<1>11. SenderOK("req")'
  BY <1>1, <1>4, <1>5, Roles, NewRoles DEF IInv, Exchange, SenderOK
<1>12. SenderOK("resp")' /\ ReceiverOK("req")'
  BY <1>4, Roles DEF SenderOK, ReceiverOK
<1>13. ReceiverOK("resp")'
  <2>1. ReceiverOK("resp")
    BY Roles DEF IInv, Exchange
  <2>2. got < Answered => got < Answered + 1
    BY <1>3, IpcAssumption
  <2> QED BY <1>1, <1>4, <1>6, <2>1, <2>2, Roles, NewRoles DEF ReceiverOK
<1> QED BY <1>7, <1>8, <1>9, <1>10, <1>11, <1>12, <1>13, Roles DEF IInv, Exchange

LEMMA StutterIInv == IInv /\ UNCHANGED vars => IInv'
<1> SUFFICES ASSUME IInv, UNCHANGED vars PROVE IInv'
  OBVIOUS
<1>1. /\ UNCHANGED <<head, tail, entries, pc, copied, msg, sent, got, returned>>
      /\ Took' = Took /\ Answered' = Answered
  BY DEF vars, Took, Answered
<1>2. \A q \in Queue : In(q)' = In(q) /\ Out(q)' = Out(q)
  BY <1>1 DEF In, Out
<1>3. \A q \in Queue : RingOK(q)'
  BY <1>1, <1>2 DEF IInv, Exchange, RingOK
<1>4. \A q \in Queue : SenderOK(q)' /\ ReceiverOK(q)'
  BY <1>1, <1>2 DEF IInv, Exchange, SenderOK, ReceiverOK
<1>5. IpcTypeOK' /\ Counts'
  BY <1>1 DEF IInv, IpcTypeOK, Counts
<1> QED BY <1>3, <1>4, <1>5 DEF IInv, Exchange

LEMMA NextIInv == IInv /\ [Next]_vars => IInv'
<1> SUFFICES ASSUME IInv, [Next]_vars PROVE IInv'
  OBVIOUS
<1>1. CASE Client
  <2>1. CASE StartSend("client", "req")
    BY <2>1, Roles, StartSendIInv
  <2>2. CASE Write("client", "req")
    BY <2>2, Roles, WriteIInv
  <2>3. CASE ClientSent
    BY <2>3, ClientSentIInv
  <2>4. CASE StartReceive("client", "resp")
    BY <2>4, Roles, StartReceiveIInv
  <2>5. CASE Read("client", "resp")
    BY <2>5, Roles, ReadIInv
  <2>6. CASE ClientAnswered
    BY <2>6, ClientAnsweredIInv
  <2> QED BY <1>1, <2>1, <2>2, <2>3, <2>4, <2>5, <2>6 DEF Client
<1>2. CASE Server
  <2>1. CASE StartReceive("server", "req")
    BY <2>1, Roles, StartReceiveIInv
  <2>2. CASE Read("server", "req")
    BY <2>2, Roles, ReadIInv
  <2>3. CASE ServerTook
    BY <2>3, ServerTookIInv
  <2>4. CASE StartSend("server", "resp")
    BY <2>4, Roles, StartSendIInv
  <2>5. CASE Write("server", "resp")
    BY <2>5, Roles, WriteIInv
  <2>6. CASE ServerAnswered
    BY <2>6, ServerAnsweredIInv
  <2> QED BY <1>2, <2>1, <2>2, <2>3, <2>4, <2>5, <2>6 DEF Server
<1>3. CASE UNCHANGED vars
  BY <1>3, StutterIInv
<1> QED BY <1>1, <1>2, <1>3 DEF Next

(* The inductive invariant holds throughout.                               *)
THEOREM Invariant == Spec => []IInv
BY InitIInv, NextIInv, PTL DEF Spec

(* The responses the client gets are whole, and the n-th answers its n-th  *)
(* request; the counters stay 32 bits wide.                                *)
THEOREM InOrder == Spec => []AnswersInOrder
<1>1. IInv => AnswersInOrder
  BY Roles DEF IInv, Exchange, RingOK, AnswersInOrder
<1> QED BY <1>1, Invariant, PTL

-----------------------------------------------------------------------------
(* Each ring is a bounded queue.                                           *)

(* The messages a ring holds: those that went in and have not come out.    *)
Flight(o, n) == [i \in 1 .. n - o |-> Whole(o + i)]
AnyMessage == {Whole(k) : k \in Nat}

LEMMA ItemsInFlight ==
  ASSUME IInv, NEW q \in Queue
  PROVE  Items(q) = Flight(Out(q), In(q))
<1>1. /\ Used(q) = In(q) - Out(q) /\ In(q) \in Nat /\ Out(q) \in Nat
      /\ head[q] = Out(q) % Width
      /\ \A n \in Out(q) + 1 .. In(q) : entries[q][(n - 1) % Cap] = Whole(n)
  BY Occupancy, Bounds DEF IInv, Exchange, RingOK
<1>2. ASSUME NEW i \in 1 .. In(q) - Out(q)
      PROVE  entries[q][((head[q] + i - 1) % Width) % Cap] = Whole(Out(q) + i)
  <2>1. Width \in Nat \ {0} /\ Out(q) \in Int /\ i - 1 \in Int
    BY <1>1, IpcAssumption
  <2>2. ((Out(q) % Width) + (i - 1)) % Width = (Out(q) + (i - 1)) % Width
    BY <2>1, ReducedFirst
  <2>3. /\ head[q] + i - 1 = (Out(q) % Width) + (i - 1)
        /\ Out(q) + (i - 1) \in Nat /\ Out(q) + (i - 1) = (Out(q) + i) - 1
        /\ Out(q) + i \in Out(q) + 1 .. In(q)
    <3>1. Out(q) % Width \in Int
      BY <2>1, Division
    <3> QED BY <1>1, <3>1
  <2>4. ((head[q] + i - 1) % Width) % Cap = ((Out(q) + i) - 1) % Cap
    BY <2>2, <2>3, SlotOfCounter
  <2> QED BY <1>1, <2>3, <2>4
<1> QED BY <1>1, <1>2 DEF Items, Flight

LEMMA FlightIsSeq ==
  ASSUME NEW o \in Nat, NEW n \in Nat, o <= n
  PROVE  /\ Flight(o, n) \in Seq(AnyMessage) /\ Len(Flight(o, n)) = n - o
         /\ \A i \in 1 .. n - o : Flight(o, n)[i] = Whole(o + i)
<1> DEFINE m == n - o
<1>1. m \in Nat
  OBVIOUS
<1>2. \A i \in 1 .. m : Whole(o + i) \in AnyMessage
  <2>1. \A i \in 1 .. m : o + i \in Nat
    BY <1>1
  <2> QED BY <2>1 DEF AnyMessage
<1>3. Flight(o, n) = [i \in 1 .. m |-> Whole(o + i)]
  BY DEF Flight
<1> HIDE DEF m
<1>4. Flight(o, n) \in [1 .. m -> AnyMessage] /\ \A i \in 1 .. m : Flight(o, n)[i] = Whole(o + i)
  BY <1>2, <1>3
<1>5. Flight(o, n) \in Seq(AnyMessage)
  BY <1>1, <1>4, SeqDef
<1>6. Len(Flight(o, n)) = m
  BY <1>1, <1>4, <1>5
<1> QED BY <1>4, <1>5, <1>6 DEF m

(* A message that goes in is the last of those in flight.                  *)
LEMMA FlightAppend ==
  ASSUME NEW o \in Nat, NEW n \in Nat, o <= n
  PROVE  Flight(o, n + 1) = Append(Flight(o, n), Whole(n + 1)) /\ Len(Flight(o, n)) = n - o
<1> DEFINE f == Flight(o, n)
           g == Flight(o, n + 1)
           a == Append(f, Whole(n + 1))
<1>0. n + 1 \in Nat /\ o <= n + 1
  OBVIOUS
<1>1. Whole(n + 1) \in AnyMessage
  BY <1>0 DEF AnyMessage
<1>2. f \in Seq(AnyMessage) /\ Len(f) = n - o /\ \A i \in 1 .. n - o : f[i] = Whole(o + i)
  BY FlightIsSeq
<1>3. g \in Seq(AnyMessage) /\ Len(g) = n + 1 - o /\ \A i \in 1 .. n + 1 - o : g[i] = Whole(o + i)
  BY <1>0, FlightIsSeq
<1> HIDE DEF f, g
<1>4. /\ a \in Seq(AnyMessage) /\ Len(a) = Len(f) + 1 /\ a[Len(f) + 1] = Whole(n + 1)
      /\ \A i \in 1 .. Len(f) : a[i] = f[i]
  BY <1>1, <1>2, AppendProperties
<1> HIDE DEF a
<1>5. ASSUME NEW i \in 1 .. Len(g)
      PROVE  g[i] = a[i]
  <2>1. CASE i = Len(f) + 1
    <3>1. o + i = n + 1
      BY <1>2, <2>1
    <3> QED BY <1>3, <1>4, <2>1, <3>1
  <2>2. CASE i # Len(f) + 1
    <3>1. i \in 1 .. n - o /\ i \in 1 .. Len(f)
      BY <1>2, <1>3, <2>2
    <3> QED BY <1>2, <1>3, <1>4, <3>1
  <2> QED BY <2>1, <2>2
<1>6. Len(g) = Len(a)
  BY <1>2, <1>3, <1>4
<1>7. g = a
  BY <1>3, <1>4, <1>5, <1>6, SeqEqual
<1> QED BY <1>2, <1>7 DEF f, g, a

(* A message that comes out is the first of those in flight.               *)
LEMMA FlightTail ==
  ASSUME NEW o \in Nat, NEW n \in Nat, o < n
  PROVE  /\ Flight(o, n) # <<>> /\ Head(Flight(o, n)) = Whole(o + 1)
         /\ Flight(o + 1, n) = Tail(Flight(o, n))
<1> DEFINE f == Flight(o, n)
           g == Flight(o + 1, n)
<1>0. o <= n /\ o + 1 <= n /\ o + 1 \in Nat
  OBVIOUS
<1>1. f \in Seq(AnyMessage) /\ Len(f) = n - o /\ \A i \in 1 .. n - o : f[i] = Whole(o + i)
  BY <1>0, FlightIsSeq
<1>2. /\ g \in Seq(AnyMessage) /\ Len(g) = n - (o + 1)
      /\ \A i \in 1 .. n - (o + 1) : g[i] = Whole(o + 1 + i)
  BY <1>0, FlightIsSeq
<1> HIDE DEF f, g
<1>3. f # <<>> /\ Head(f) = Whole(o + 1)
  BY <1>1
<1>4. Tail(f) \in Seq(AnyMessage) /\ Len(Tail(f)) = n - (o + 1)
      /\ \A i \in 1 .. n - (o + 1) : Tail(f)[i] = f[i + 1]
  BY <1>1, <1>3, HeadTailProperties
<1>5. ASSUME NEW i \in 1 .. n - (o + 1)
      PROVE  g[i] = Tail(f)[i]
  <2>1. i + 1 \in 1 .. n - o /\ o + 1 + i = o + (i + 1)
    OBVIOUS
  <2> QED BY <1>1, <1>2, <1>4, <2>1
<1>6. g = Tail(f)
  BY <1>2, <1>4, <1>5, SeqEqual
<1> QED BY <1>3, <1>6 DEF f, g

InFlight == \A q \in Queue : Items(q) = Flight(Out(q), In(q))

(* What a step can do to a ring: one message goes in, one comes out, or    *)
(* nothing happens.                                                        *)
Sends(q) ==
  /\ In(q) < Requests /\ In(q) - Out(q) < Cap
  /\ In(q)' = In(q) + 1 /\ Out(q)' = Out(q) /\ returned'[q] = returned[q]
Takes(q) ==
  /\ Out(q) < In(q)
  /\ In(q)' = In(q) /\ Out(q)' = Out(q) + 1 /\ returned'[q] = Whole(Out(q) + 1)
Rests(q) == In(q)' = In(q) /\ Out(q)' = Out(q) /\ returned'[q] = returned[q]

LEMMA RingMoves ==
  ASSUME IInv, [Next]_vars, NEW q \in Queue
  PROVE  Sends(q) \/ Takes(q) \/ Rests(q)
<1>1. /\ pc \in [Thread -> {"send", "write", "receive", "read"}]
      /\ returned \in [Queue -> [1 .. Words -> Word]]
      /\ "client" \in Thread /\ "server" \in Thread
      /\ Took \in Nat /\ Answered \in Nat /\ got \in Nat /\ sent \in Nat
  BY IpcAssumption DEF IInv, IpcTypeOK, Counts, Thread
<1>2. ASSUME UNCHANGED <<sent, got, returned>>,
             (pc'["server"] \in {"send", "write"}) = (pc["server"] \in {"send", "write"})
      PROVE  Rests(q)
  <2>1. In(q)' = In(q) /\ Out(q)' = Out(q)
    BY <1>2, CountsKept DEF IInv
  <2> QED BY <1>2, <2>1 DEF Rests
<1>3. CASE \E t \in Thread, p \in Queue :
             StartSend(t, p) \/ Write(t, p) \/ StartReceive(t, p) \/ Read(t, p)
  BY <1>1, <1>2, <1>3 DEF StartSend, Write, StartReceive, Read, Thread
<1>4. CASE ClientSent
  <2>1. /\ Publish("client", "req") /\ ClientTurn(sent + 1, got) /\ sent' = sent + 1
        /\ UNCHANGED <<got, returned>>
    BY <1>4 DEF ClientSent
  <2>2. pc'["server"] = pc["server"] /\ Took' = Took
    BY <1>1, <2>1 DEF ClientTurn, Took
  <2>3. Answered' = Answered
    BY <2>2 DEF Answered
  <2>4. CASE q = "req"
    <3>1. sent < Requests /\ sent - Took < Cap
      BY <2>1, Roles DEF Publish, IInv, Exchange, SenderOK
    <3> QED BY <2>1, <2>2, <2>4, <3>1, Roles, NewRoles DEF Sends
  <2>5. CASE q = "resp"
    BY <2>1, <2>3, <2>5, Roles, NewRoles DEF Rests
  <2> QED BY <2>4, <2>5 DEF Queue
<1>5. CASE ClientAnswered
  <2>1. /\ Consume("client", "resp") /\ ClientTurn(sent, got + 1) /\ got' = got + 1
        /\ sent' = sent
    BY <1>5 DEF ClientAnswered
  <2>2. /\ pc["client"] = "read" /\ copied["client"] = Words
        /\ returned' = [returned EXCEPT !["resp"] = msg["client"]]
        /\ pc'["server"] = pc["server"]
    BY <1>1, <2>1 DEF Consume, ClientTurn
  <2>3. returned'["req"] = returned["req"] /\ returned'["resp"] = msg["client"]
    BY <1>1, <2>2, Roles
  <2>4. Took' = Took /\ Answered' = Answered
    BY <2>2, <2>3 DEF Took, Answered
  <2>5. CASE q = "resp"
    <3>1. got < Answered /\ \A w \in 1 .. Words : msg["client"][w] = got + 1
      BY <2>2, Roles DEF IInv, Exchange, ReceiverOK
    <3>2. msg["client"] = Whole(got + 1)
      <4>1. msg["client"] \in [1 .. Words -> Word] /\ got + 1 \in Nat
        BY <1>1 DEF IInv, IpcTypeOK
      <4> QED BY <3>1, <4>1, AllWords
    <3> QED BY <2>1, <2>3, <2>4, <2>5, <3>1, <3>2, Roles, NewRoles DEF Takes
  <2>6. CASE q = "req"
    BY <2>1, <2>3, <2>4, <2>6, Roles, NewRoles DEF Rests
  <2> QED BY <2>5, <2>6 DEF Queue
<1>6. CASE ServerTook
  <2>1. /\ Consume("server", "req") /\ pc' = [pc EXCEPT !["server"] = "send"]
        /\ UNCHANGED <<sent, got>>
    BY <1>6 DEF ServerTook
  <2>2. /\ pc["server"] = "read" /\ copied["server"] = Words /\ pc'["server"] = "send"
        /\ returned' = [returned EXCEPT !["req"] = msg["server"]]
    BY <1>1, <2>1 DEF Consume
  <2>3. returned'["resp"] = returned["resp"] /\ returned'["req"] = msg["server"]
    BY <1>1, <2>2, Roles
  <2>4. Took < sent /\ \A w \in 1 .. Words : msg["server"][w] = Took + 1
    BY <2>2, Roles DEF IInv, Exchange, ReceiverOK
  <2>5. Took' = Took + 1
    BY <2>3, <2>4, IpcAssumption DEF Took
  <2>6. Answered' = Answered
    BY <1>1, <2>2, <2>5 DEF Answered
  <2>7. CASE q = "req"
    <3>1. msg["server"] = Whole(Took + 1)
      <4>1. msg["server"] \in [1 .. Words -> Word] /\ Took + 1 \in Nat
        BY <1>1 DEF IInv, IpcTypeOK
      <4> QED BY <2>4, <4>1, AllWords
    <3> QED BY <2>1, <2>3, <2>4, <2>5, <2>7, <3>1, Roles, NewRoles DEF Takes
  <2>8. CASE q = "resp"
    BY <2>1, <2>3, <2>6, <2>8, Roles, NewRoles DEF Rests
  <2> QED BY <2>7, <2>8 DEF Queue
<1>7. CASE ServerAnswered
  <2>1. /\ Publish("server", "resp") /\ pc["server"] = "write" /\ pc'["server"] = "receive"
        /\ UNCHANGED <<sent, got, returned>>
    BY <1>1, <1>7 DEF ServerAnswered, Publish
  <2>2. Took' = Took
    BY <2>1 DEF Took
  <2>3. Answered' = Answered + 1
    BY <1>1, <2>1, <2>2 DEF Answered
  <2>4. CASE q = "resp"
    <3>1. Answered < Requests /\ Answered - got < Cap
      BY <2>1, Roles DEF IInv, Exchange, SenderOK
    <3> QED BY <2>1, <2>3, <2>4, <3>1, Roles, NewRoles DEF Sends
  <2>5. CASE q = "req"
    BY <2>1, <2>2, <2>5, Roles, NewRoles DEF Rests
  <2> QED BY <2>4, <2>5 DEF Queue
<1>8. CASE UNCHANGED vars
  <2>1. UNCHANGED <<sent, got, returned>> /\ pc'["server"] = pc["server"]
    BY <1>8 DEF vars
  <2> QED BY <1>2, <2>1
<1> QED
  BY <1>1, <1>3, <1>4, <1>5, <1>6, <1>7, <1>8, Roles DEF Next, Client, Server

(* In terms of the messages held, that is a step of the queue.             *)
LEMMA QueueMoves ==
  ASSUME IInv, InFlight, InFlight', NEW q \in Queue, Sends(q) \/ Takes(q) \/ Rests(q)
  PROVE  \/ /\ Items(q) # <<>> /\ returned'[q] = Head(Items(q))
            /\ Items(q)' = Tail(Items(q))
         \/ \E m \in Message :
              /\ Len(Items(q)) < Cap /\ Items(q)' = Append(Items(q), m)
              /\ returned'[q] = returned[q]
         \/ Items(q)' = Items(q) /\ returned'[q] = returned[q]
<1>1. /\ In(q) \in Nat /\ Out(q) \in Nat /\ Out(q) <= In(q)
      /\ Items(q) = Flight(Out(q), In(q)) /\ Items(q)' = Flight(Out(q)', In(q)')
  BY Bounds DEF IInv, InFlight, Flight
<1>2. CASE Sends(q)
  <2>1. Items(q)' = Append(Items(q), Whole(In(q) + 1)) /\ Len(Items(q)) < Cap
    BY <1>1, <1>2, FlightAppend DEF Sends
  <2>2. In(q) + 1 \in 1 .. Requests
    BY <1>1, <1>2, IpcAssumption DEF Sends
  <2>3. Whole(In(q) + 1) \in Message
    BY <2>2 DEF Message
  <2> QED BY <1>2, <2>1, <2>3 DEF Sends
<1>3. CASE Takes(q)
  BY <1>1, <1>3, FlightTail DEF Takes
<1>4. CASE Rests(q)
  BY <1>1, <1>4 DEF Rests
<1> QED BY <1>2, <1>3, <1>4

LEMMA QueuesStart == Init => RequestQueue!Init /\ ResponseQueue!Init
<1> SUFFICES ASSUME Init PROVE RequestQueue!Init /\ ResponseQueue!Init
  OBVIOUS
<1>1. ASSUME NEW q \in Queue PROVE Items(q) = <<>> /\ returned[q] = NoMessage
  <2>1. Used(q) = 0
    BY <1>1, IpcAssumption DEF Init, Used
  <2> QED BY <1>1, <2>1 DEF Items, Init
<1> QED BY <1>1 DEF RequestQueue!Init, ResponseQueue!Init, Queue

LEMMA QueuesStep ==
  IInv /\ InFlight /\ InFlight' /\ [Next]_vars =>
    /\ [RequestQueue!Next]_<<Items("req"), returned["req"]>>
    /\ [ResponseQueue!Next]_<<Items("resp"), returned["resp"]>>
<1> SUFFICES ASSUME IInv, InFlight, InFlight', [Next]_vars
             PROVE  /\ [RequestQueue!Next]_<<Items("req"), returned["req"]>>
                    /\ [ResponseQueue!Next]_<<Items("resp"), returned["resp"]>>
  OBVIOUS
<1>1. [RequestQueue!Next]_<<Items("req"), returned["req"]>>
  BY RingMoves, QueueMoves, Roles
  DEF RequestQueue!Next, RequestQueue!Receive, RequestQueue!Send
<1>2. [ResponseQueue!Next]_<<Items("resp"), returned["resp"]>>
  BY RingMoves, QueueMoves, Roles
  DEF ResponseQueue!Next, ResponseQueue!Receive, ResponseQueue!Send
<1> QED BY <1>1, <1>2

(* Each ring implements the bounded queue of whole messages.               *)
THEOREM RingsAreQueues == Spec => RingsQueue
<1>1. IInv => InFlight
  BY ItemsInFlight DEF InFlight
<1> QED
  BY <1>1, Invariant, QueuesStart, QueuesStep, PTL
  DEF Spec, RingsQueue, RequestQueue!Spec, ResponseQueue!Spec

-----------------------------------------------------------------------------
(* AsyncPrinter: the worker has taken `Consumed` pieces off the ring, and  *)
(* what the ring holds between head and tail are the pieces behind them:   *)
(* this is what makes a bare pointer safe to copy, and an empty ring mean  *)
(* that nothing is left.  It holds as long as no push has made a full ring *)
(* look empty.                                                             *)

Consumed == Len(Gathered) + IF worker = "copy" THEN 1 ELSE 0
Item(k) == [ptr |-> IF k \in stable THEN k ELSE Scratch, len |-> PieceLen[k]]

Bounded ==
  /\ PrinterTypeOK
  /\ \A s \in Slot : queue[s].len < BufSize
  /\ taken.len < BufSize /\ bufLen <= BufSize

CallerOK ==
  /\ decoded = pushed + (IF caller \in {"push", "publish"} THEN 1 ELSE 0)
  /\ stable \subseteq 1 .. decoded
  /\ ap_tail = pushed % QueueCap
  /\ done <=> caller \in {"stopping", "joined"}
  /\ lapped => pushed > 0

WorkerOK ==
  /\ worker \in {"take", "copy"} => pushed > 0
  /\ worker \in {"drained", "exit", "gone"} => done
  /\ worker = "gone" => buf = <<>>
  /\ caller = "joined" => worker = "gone"

InStep ==
  /\ Consumed <= pushed /\ pushed - Consumed < QueueCap
  /\ ap_head = Consumed % QueueCap
  /\ \A k \in Consumed + 1 .. pushed : queue[(k - 1) % QueueCap] = Item(k)
  /\ caller = "publish" => queue[ap_tail] = Item(decoded)
  /\ worker = "take" => Consumed < pushed /\ taken = Item(Consumed + 1)
  /\ worker = "copy" => taken = Item(Consumed)
  /\ worker \in {"exit", "gone"} => Consumed = pushed
  /\ \A i \in 1 .. Len(Gathered) : i \in stable => Gathered[i] = i

PrinterInv == Bounded /\ CallerOK /\ WorkerOK /\ (~lapped => InStep)

-----------------------------------------------------------------------------
(* What the constants are.                                                 *)
LEMMA Pieces ==
  /\ Len(PieceLen) \in Nat /\ Piece = 1 .. Len(PieceLen)
  /\ \A i \in Piece : PieceLen[i] \in Nat \ {0} /\ PieceLen[i] < BufSize
  /\ QueueCap \in Nat \ {0} /\ QueueCap > 1 /\ BufSize \in Nat \ {0} /\ TurnSize \in Nat
BY PrinterAssumption DEF Piece

(* Moving a counter of the ring stays within the ring.                     *)
LEMMA NextSlot ==
  ASSUME NEW s \in Slot
  PROVE  (s + 1) % QueueCap \in Slot
<1>1. s + 1 \in Int
  BY Pieces DEF Slot
<1> QED BY <1>1, Pieces, Division DEF Slot

(* The slot behind the n-th is the (n+1)-st.                               *)
LEMMA SlotBehind ==
  ASSUME NEW n \in Nat
  PROVE  ((n % QueueCap) + 1) % QueueCap = (n + 1) % QueueCap
<1>1. n \in Int /\ 1 \in Int /\ QueueCap \in Nat \ {0}
  BY Pieces
<1> QED BY <1>1, ReducedFirst

(* Every step keeps the types and the bounds of the buffer.                *)
LEMMA BoundedStep ==
  ASSUME PrinterInv, [PrinterNext]_printerVars
  PROVE  Bounded'
<1> USE Pieces
<1> USE DEF PrinterInv, Bounded, PrinterTypeOK
<1>1. CASE DecodePiece
  <2>1. decoded + 1 \in Piece /\ PieceLen[decoded + 1] \in Nat /\ decoded' = decoded + 1
    BY <1>1 DEF DecodePiece
  <2>2. stable' \subseteq Piece /\ turnLen' \in 0 .. TurnSize
    <3>1. CASE turnLen + PieceLen[decoded + 1] < TurnSize
      <4>1. stable' = stable \cup {decoded + 1} /\ turnLen' = turnLen + PieceLen[decoded + 1]
        BY <1>1, <3>1 DEF DecodePiece
      <4>2. stable \subseteq Piece /\ turnLen \in 0 .. TurnSize
        OBVIOUS
      <4>3. stable' \subseteq Piece
        BY <2>1, <4>1, <4>2
      <4>4. turnLen' \in 0 .. TurnSize
        BY <2>1, <3>1, <4>1, <4>2
      <4> QED BY <4>3, <4>4
    <3>2. CASE ~(turnLen + PieceLen[decoded + 1] < TurnSize)
      BY <1>1, <3>2 DEF DecodePiece
    <3> QED BY <3>1, <3>2
  <2> QED BY <1>1, <2>1, <2>2 DEF DecodePiece, workerVars
<1>2. CASE FillSlot
  <2>1. decoded \in Piece
    BY <1>2 DEF FillSlot, CallerOK
  <2> QED BY <1>2, <2>1 DEF FillSlot, workerVars, Taken, Pointer
<1>3. CASE MoveTail
  BY <1>3, NextSlot DEF MoveTail, workerVars, CallerOK
<1>4. CASE Stop
  BY <1>4 DEF Stop, workerVars
<1>5. CASE Join
  BY <1>5 DEF Join, workerVars
<1>6. CASE TestDone
  BY <1>6 DEF TestDone, callerVars
<1>7. CASE TestDrained
  BY <1>7 DEF TestDrained, callerVars
<1>8. CASE Idle
  BY <1>8 DEF Idle, Flush, callerVars
<1>9. CASE Look
  BY <1>9 DEF Look, callerVars
<1>10. CASE MoveHead
  BY <1>10, NextSlot DEF MoveHead, callerVars
<1>11. CASE Copy
  <2>1. PICK text \in Text(taken.ptr) :
          IF bufLen + taken.len < BufSize
            THEN buf' = Append(buf, text) /\ bufLen' = bufLen + taken.len /\ UNCHANGED out
            ELSE out' = out \o buf /\ buf' = <<text>> /\ bufLen' = taken.len
    BY <1>11, Zenon DEF Copy
  <2>2. text \in Piece \cup {Torn} /\ taken.len \in Nat
    <3>1. decoded \in Piece /\ taken.ptr \in Piece \cup {Scratch} /\ taken.len \in Nat
      BY <1>11 DEF Copy, WorkerOK, CallerOK, Taken, Pointer
    <3> QED BY <3>1, <2>1 DEF Text
  <2>3. /\ buf' \in Seq(Piece \cup {Torn}) /\ out' \in Seq(Piece \cup {Torn})
        /\ bufLen' \in Nat /\ bufLen' <= BufSize
    <3> DEFINE T == Piece \cup {Torn}
    <3>0. buf \in Seq(T) /\ out \in Seq(T) /\ text \in T /\ bufLen \in Nat /\ taken.len < BufSize
      BY <2>2
    <3> HIDE DEF T
    <3>4. Append(buf, text) \in Seq(T) /\ out \o buf \in Seq(T) /\ <<text>> \in Seq(T)
      BY <3>0, AppendProperties, ConcatProperties
    <3>5. buf' \in Seq(T) /\ out' \in Seq(T)
      BY <2>1, <3>0, <3>4
    <3>6. bufLen' \in Nat /\ bufLen' <= BufSize
      BY <2>1, <2>2, <3>0
    <3> QED BY <3>5, <3>6 DEF T
  <2> QED BY <1>11, <2>3 DEF Copy, callerVars
<1>12. CASE Exit
  BY <1>12 DEF Exit, Flush, callerVars
<1>13. CASE UNCHANGED printerVars
  BY <1>13 DEF printerVars
<1> QED BY <1>1, <1>2, <1>3, <1>4, <1>5, <1>6, <1>7, <1>8, <1>9, <1>10,
           <1>11, <1>12, <1>13 DEF PrinterNext, Caller, Worker

(* Every step keeps what the caller's thread guarantees.                   *)
LEMMA CallerStep ==
  ASSUME PrinterInv, [PrinterNext]_printerVars
  PROVE  CallerOK'
<1>0. pushed \in Nat /\ decoded \in Nat /\ done \in BOOLEAN
  BY Pieces DEF PrinterInv, Bounded, PrinterTypeOK
<1>a. CallerOK
  BY DEF PrinterInv
<1>1. CASE DecodePiece
  <2>1. decoded' = decoded + 1 /\ caller = "decode" /\ caller' = "push"
    BY <1>1 DEF DecodePiece
  <2>2. UNCHANGED <<ap_tail, done, pushed, lapped>>
    BY <1>1 DEF DecodePiece
  <2>3. stable' \subseteq stable \cup {decoded + 1}
    BY <1>1 DEF DecodePiece
  <2>4. stable' \subseteq 1 .. decoded'
    BY <1>0, <1>a, <2>1, <2>3 DEF CallerOK
  <2> QED BY <1>0, <1>a, <2>1, <2>2, <2>4 DEF CallerOK
<1>2. CASE FillSlot
  BY <1>a, <1>2 DEF FillSlot, workerVars, CallerOK
<1>3. CASE MoveTail
  <2>1. (ap_tail + 1) % QueueCap = (pushed + 1) % QueueCap
    BY <1>0, <1>a, SlotBehind DEF CallerOK
  <2> QED BY <1>0, <1>a, <1>3, <2>1 DEF MoveTail, workerVars, CallerOK
<1>4. CASE Stop
  BY <1>a, <1>4 DEF Stop, workerVars, CallerOK
<1>5. CASE Join
  BY <1>a, <1>5 DEF Join, workerVars, CallerOK
<1>6. CASE Worker \/ UNCHANGED printerVars
  <2>1. UNCHANGED callerVars
    BY <1>6 DEF Worker, TestDone, TestDrained, Idle, Look, MoveHead, Copy, Exit, printerVars, callerVars
  <2> QED BY <1>a, <2>1 DEF CallerOK, callerVars
<1> QED BY <1>1, <1>2, <1>3, <1>4, <1>5, <1>6 DEF PrinterNext, Caller

(* A ring that is not empty has been pushed to.                            *)
LEMMA NotEmpty ==
  ASSUME PrinterInv, ap_head # ap_tail
  PROVE  pushed > 0
<1>1. CASE lapped
  BY <1>1 DEF PrinterInv, CallerOK
<1>2. CASE ~lapped
  <2>1. Consumed \in Nat /\ pushed \in Nat
    BY LenProperties, ConcatProperties DEF PrinterInv, Bounded, PrinterTypeOK, Consumed, Gathered
  <2>2. Consumed <= pushed /\ Consumed # pushed
    BY <1>2 DEF PrinterInv, InStep, CallerOK
  <2> QED BY <2>1, <2>2
<1> QED BY <1>1, <1>2

(* Every step keeps what the worker's thread guarantees.                   *)
LEMMA WorkerStep ==
  ASSUME PrinterInv, [PrinterNext]_printerVars
  PROVE  WorkerOK'
<1>0. pushed \in Nat
  BY Pieces DEF PrinterInv, Bounded, PrinterTypeOK
<1> USE DEF PrinterInv, CallerOK, WorkerOK
<1>1. CASE Caller
  BY <1>0, <1>1 DEF Caller, DecodePiece, FillSlot, MoveTail, Stop, Join, workerVars
<1>2. CASE Look
  BY <1>2, NotEmpty DEF Look, callerVars
<1>3. CASE TestDone \/ TestDrained \/ Idle \/ MoveHead \/ Copy \/ Exit
  BY <1>3 DEF TestDone, TestDrained, Idle, MoveHead, Copy, Exit, Flush, callerVars
<1>4. CASE UNCHANGED printerVars
  BY <1>4 DEF printerVars
<1> QED BY <1>1, <1>2, <1>3, <1>4 DEF PrinterNext, Worker

(* A full lap apart, the counters of the ring agree; less, they do not.    *)
LEMMA SameLap ==
  ASSUME NEW m \in Nat, NEW n \in Nat, m < n, n - m < QueueCap
  PROVE  m % QueueCap # n % QueueCap
<1>1. m \in Int /\ n \in Int /\ QueueCap \in Nat \ {0}
  BY Pieces
<1> QED BY <1>1, Apart

LEMMA OneLap ==
  ASSUME NEW m \in Nat
  PROVE  (m + QueueCap) % QueueCap = m % QueueCap
<1>1. m \in Int /\ 1 \in Int /\ QueueCap \in Nat \ {0} /\ QueueCap * 1 = QueueCap
  BY Pieces
<1>2. (m + QueueCap * 1) % QueueCap = m % QueueCap
  BY <1>1, Multiple
<1> QED BY <1>1, <1>2

(* The counters of the state, as numbers.                                  *)
LEMMA Counters ==
  ASSUME PrinterInv
  PROVE  /\ pushed \in Nat /\ decoded \in Nat /\ Consumed \in Nat
         /\ Len(Gathered) \in Nat /\ Gathered \in Seq(Piece \cup {Torn})
         /\ Consumed = Len(Gathered) + IF worker = "copy" THEN 1 ELSE 0
         /\ decoded = pushed + (IF caller \in {"push", "publish"} THEN 1 ELSE 0)
<1>1. buf \in Seq(Piece \cup {Torn}) /\ out \in Seq(Piece \cup {Torn})
  BY DEF PrinterInv, Bounded, PrinterTypeOK
<1>2. Gathered \in Seq(Piece \cup {Torn}) /\ Len(Gathered) \in Nat
  BY <1>1, ConcatProperties, LenProperties DEF Gathered
<1> QED BY <1>2, Pieces DEF PrinterInv, Bounded, PrinterTypeOK, CallerOK, Consumed

(* A step of the caller leaves the worker and the ring in step.            *)
LEMMA CallerInStep ==
  ASSUME PrinterInv, InStep, Caller, ~lapped'
  PROVE  InStep'
<1>0. /\ pushed \in Nat /\ decoded \in Nat /\ Consumed \in Nat /\ Len(Gathered) \in Nat
      /\ Len(Gathered) <= Consumed
      /\ decoded = pushed + (IF caller \in {"push", "publish"} THEN 1 ELSE 0)
  BY Counters
<1>a. UNCHANGED <<Consumed, Gathered, ap_head, worker, taken>>
  BY DEF Caller, DecodePiece, FillSlot, MoveTail, Stop, Join, workerVars, Consumed, Gathered
<1>1. CASE DecodePiece
  <2>1. /\ caller = "decode" /\ caller' = "push"
        /\ UNCHANGED <<queue, ap_tail, pushed>>
        /\ stable' \subseteq stable \cup {decoded + 1} /\ stable \subseteq stable'
    BY <1>1 DEF DecodePiece
  <2>2. \A k \in 1 .. pushed : k \in stable' <=> k \in stable
    BY <1>0, <2>1
  <2>3. \A k \in Consumed + 1 .. pushed : queue[(k - 1) % QueueCap] = Item(k)'
    <3> SUFFICES ASSUME NEW k \in Consumed + 1 .. pushed
                 PROVE  queue[(k - 1) % QueueCap] = Item(k)'
      OBVIOUS
    <3>1. k \in 1 .. pushed
      BY <1>0
    <3> QED BY <2>2, <3>1 DEF InStep, Item
  <2>4. worker = "take" => taken = Item(Consumed + 1)'
    <3> SUFFICES ASSUME worker = "take" PROVE taken = Item(Consumed + 1)'
      OBVIOUS
    <3>1. Consumed + 1 \in 1 .. pushed
      BY <1>0 DEF InStep
    <3> QED BY <1>a, <2>2, <3>1 DEF InStep, Item
  <2>5. worker = "copy" => taken = Item(Consumed)'
    <3> SUFFICES ASSUME worker = "copy" PROVE taken = Item(Consumed)'
      OBVIOUS
    <3>1. Consumed \in 1 .. pushed
      BY <1>0 DEF InStep, Consumed
    <3> QED BY <1>a, <2>2, <3>1 DEF InStep, Item
  <2>6. \A i \in 1 .. Len(Gathered) : i \in stable' => Gathered[i] = i
    <3> SUFFICES ASSUME NEW i \in 1 .. Len(Gathered), i \in stable' PROVE Gathered[i] = i
      OBVIOUS
    <3>1. i \in 1 .. pushed
      BY <1>0 DEF InStep
    <3> QED BY <2>2, <3>1 DEF InStep
  <2> QED BY <1>a, <2>1, <2>3, <2>4, <2>5, <2>6 DEF InStep
<1>2. CASE FillSlot
  <2>1. /\ caller = "push" /\ caller' = "publish"
        /\ queue' = [queue EXCEPT ![ap_tail] = Item(decoded)]
        /\ UNCHANGED <<ap_tail, pushed, decoded, stable>>
    BY <1>2 DEF FillSlot, Item
  <2>2. queue' [ap_tail] = Item(decoded)
    BY <2>1 DEF PrinterInv, Bounded, PrinterTypeOK
  <2>3. \A k \in Consumed + 1 .. pushed : queue' [(k - 1) % QueueCap] = Item(k)
    <3> SUFFICES ASSUME NEW k \in Consumed + 1 .. pushed
                 PROVE  queue' [(k - 1) % QueueCap] = Item(k)
      OBVIOUS
    <3>1. k - 1 \in Nat /\ k - 1 < pushed /\ pushed - (k - 1) < QueueCap
      BY <1>0, Pieces DEF InStep
    <3>2. (k - 1) % QueueCap # ap_tail
      BY <1>0, <3>1, SameLap DEF PrinterInv, CallerOK
    <3>3. queue' [(k - 1) % QueueCap] = queue[(k - 1) % QueueCap]
      BY <2>1, <3>1, <3>2, Pieces, Division DEF Slot, PrinterInv, Bounded, PrinterTypeOK
    <3> QED BY <3>3 DEF InStep
  <2> QED BY <1>a, <2>1, <2>2, <2>3 DEF InStep, Item
<1>3. CASE MoveTail
  <2>1. /\ caller = "publish" /\ caller' = "decode" /\ pushed' = pushed + 1
        /\ ap_tail' = (ap_tail + 1) % QueueCap /\ ap_tail' # ap_head
        /\ UNCHANGED <<queue, decoded, stable>>
    BY <1>3 DEF MoveTail
  <2>2. decoded = pushed + 1 /\ ap_tail = pushed % QueueCap /\ ap_tail' = (pushed + 1) % QueueCap
    BY <1>0, <2>1, SlotBehind DEF PrinterInv, CallerOK
  <2>3. pushed + 1 - Consumed < QueueCap
    <3> SUFFICES ASSUME pushed + 1 = Consumed + QueueCap PROVE FALSE
      BY <1>0, Pieces DEF InStep
    <3>1. ap_tail' = Consumed % QueueCap
      BY <1>0, <2>2, OneLap
    <3> QED BY <2>1, <3>1 DEF InStep
  <2>4. \A k \in Consumed + 1 .. pushed + 1 : queue[(k - 1) % QueueCap] = Item(k)
    <3>1. queue[((pushed + 1) - 1) % QueueCap] = Item(pushed + 1)
      BY <1>0, <2>1, <2>2 DEF InStep
    <3> QED BY <1>0, <3>1 DEF InStep
  <2>5. worker \notin {"exit", "gone"}
    BY <2>1 DEF PrinterInv, CallerOK, WorkerOK
  <2>6. Consumed <= pushed /\ Consumed <= pushed' /\ (worker = "take" => Consumed < pushed')
    BY <1>0, <2>1 DEF InStep
  <2>7. \A k \in Consumed' + 1 .. pushed' : queue' [(k - 1) % QueueCap] = Item(k)'
    BY <1>a, <2>1, <2>4 DEF Item
  <2>8. /\ worker' = "take" => taken' = Item(Consumed + 1)'
        /\ worker' = "copy" => taken' = Item(Consumed)'
        /\ \A i \in 1 .. Len(Gathered') : i \in stable' => Gathered'[i] = i
    BY <1>a, <2>1 DEF InStep, Item
  <2>9. pushed' - Consumed' < QueueCap /\ Consumed' <= pushed' /\ ap_head' = Consumed' % QueueCap
    BY <1>0, <1>a, <2>1, <2>3, <2>6 DEF InStep
  <2> QED BY <1>a, <2>1, <2>5, <2>6, <2>7, <2>8, <2>9 DEF InStep
<1>4. CASE Stop \/ Join
  <2>1. UNCHANGED <<queue, ap_tail, pushed, stable, decoded>> /\ caller' # "publish"
    BY <1>4 DEF Stop, Join
  <2> QED BY <1>a, <2>1 DEF InStep, Item
<1> QED BY <1>1, <1>2, <1>3, <1>4 DEF Caller

(* Writing the buffer out moves pieces, and none is lost.                  *)
LEMMA FlushKeeps ==
  ASSUME PrinterInv, Flush
  PROVE  Gathered' = Gathered
<1>1. buf \in Seq(Piece \cup {Torn}) /\ out \in Seq(Piece \cup {Torn})
  BY DEF PrinterInv, Bounded, PrinterTypeOK
<1>2. (out \o buf) \o <<>> = out \o buf
  BY <1>1, ConcatProperties, ConcatEmptySeq
<1> QED BY <1>2 DEF Flush, Gathered

(* Copying puts one piece behind those gathered, written out or not.       *)
LEMMA CopyAppends ==
  ASSUME PrinterInv, Copy
  PROVE  \E text \in Text(taken.ptr) :
           /\ Len(Gathered') = Len(Gathered) + 1
           /\ \A i \in 1 .. Len(Gathered) : Gathered'[i] = Gathered[i]
           /\ Gathered'[Len(Gathered) + 1] = text
<1>1. PICK text \in Text(taken.ptr) :
        IF bufLen + taken.len < BufSize
          THEN buf' = Append(buf, text) /\ bufLen' = bufLen + taken.len /\ UNCHANGED out
          ELSE out' = out \o buf /\ buf' = <<text>> /\ bufLen' = taken.len
  BY Zenon DEF Copy
<1> DEFINE T == Piece \cup {Torn, text}
<1>2. buf \in Seq(T) /\ out \in Seq(T) /\ text \in T
  BY DEF PrinterInv, Bounded, PrinterTypeOK
<1> HIDE DEF T
<1>3. out \o Append(buf, text) = Append(out \o buf, text)
  BY <1>2
<1>4. (out \o buf) \o <<text>> = Append(out \o buf, text)
  BY <1>2
<1>5. Gathered' = Append(Gathered, text)
  BY <1>1, <1>3, <1>4 DEF Gathered
<1>6. Gathered \in Seq(T)
  BY <1>2, ConcatProperties DEF Gathered
<1> QED BY <1>2, <1>5, <1>6, AppendProperties

(* A step of the worker does, too.                                         *)
LEMMA WorkerInStep ==
  ASSUME PrinterInv, InStep, Worker
  PROVE  InStep'
<1>0. /\ pushed \in Nat /\ Consumed \in Nat /\ Len(Gathered) \in Nat
      /\ Consumed = Len(Gathered) + IF worker = "copy" THEN 1 ELSE 0
  BY Counters
<1>a. UNCHANGED <<decoded, stable, caller, ap_tail, queue, pushed>>
  BY DEF Worker, TestDone, TestDrained, Idle, Look, MoveHead, Copy, Exit, callerVars
<1>b. ASSUME worker # "copy", Gathered' = Gathered, UNCHANGED <<ap_head, taken>>,
             worker' \in {"test", "drained", "look"}
      PROVE  InStep'
  <2>1. Consumed' = Consumed
    BY <1>b DEF Consumed
  <2> QED BY <1>a, <1>b, <2>1 DEF InStep, Item
<1>1. CASE TestDone
  BY <1>b, <1>1 DEF TestDone, Gathered
<1>2. CASE TestDrained
  <2>1. CASE ap_head = ap_tail
    <3>1. Consumed = pushed
      BY <1>0, <2>1, SameLap DEF InStep, PrinterInv, CallerOK
    <3>2. Consumed' = Consumed /\ Gathered' = Gathered
      BY <1>2 DEF TestDrained, Consumed, Gathered
    <3> QED BY <1>a, <1>2, <2>1, <3>1, <3>2 DEF InStep, Item, TestDrained
  <2>2. CASE ap_head # ap_tail
    BY <1>b, <1>2, <2>2 DEF TestDrained, Gathered
  <2> QED BY <2>1, <2>2
<1>3. CASE Idle
  BY <1>b, <1>3, FlushKeeps DEF Idle
<1>4. CASE Look
  <2>1. Consumed' = Consumed /\ Gathered' = Gathered /\ ap_head' = ap_head
    BY <1>4 DEF Look, Consumed, Gathered
  <2>2. Consumed < pushed
    BY <1>0, <1>4 DEF Look, InStep, PrinterInv, CallerOK
  <2>3. taken' = Item(Consumed + 1)
    <3>1. Consumed + 1 \in Consumed + 1 .. pushed /\ (Consumed + 1) - 1 = Consumed
      BY <1>0, <2>2
    <3> QED BY <1>4, <3>1 DEF Look, InStep
  <2> QED BY <1>a, <1>4, <2>1, <2>2, <2>3 DEF Look, InStep, Item
<1>5. CASE MoveHead
  <2>1. Consumed' = Consumed + 1 /\ Gathered' = Gathered /\ taken' = taken
    BY <1>0, <1>5 DEF MoveHead, Consumed, Gathered
  <2>2. ap_head' = (Consumed + 1) % QueueCap
    BY <1>0, <1>5, SlotBehind DEF MoveHead, InStep
  <2>3. Consumed < pushed /\ taken = Item(Consumed + 1)
    BY <1>5 DEF MoveHead, InStep
  <2>4. \A k \in Consumed' + 1 .. pushed : queue[(k - 1) % QueueCap] = Item(k)
    BY <1>0, <2>1 DEF InStep
  <2>5. worker' = "copy"
    BY <1>5 DEF MoveHead
  <2>6. Consumed' <= pushed /\ pushed - Consumed' < QueueCap
    <3>1. pushed - Consumed < QueueCap /\ QueueCap \in Nat
      BY Pieces DEF InStep
    <3> QED BY <1>0, <2>1, <2>3, <3>1
  <2> QED BY <1>a, <2>1, <2>2, <2>3, <2>4, <2>5, <2>6 DEF InStep, Item
<1>6. CASE Copy
  <2>1. PICK text \in Text(taken.ptr) :
          /\ Len(Gathered') = Len(Gathered) + 1
          /\ \A i \in 1 .. Len(Gathered) : Gathered'[i] = Gathered[i]
          /\ Gathered'[Len(Gathered) + 1] = text
    BY <1>6, CopyAppends
  <2>2. Consumed' = Consumed /\ worker' = "test" /\ ap_head' = ap_head
    BY <1>0, <1>6, <2>1 DEF Copy, Consumed
  <2>3. Consumed \in stable => text = Consumed
    <3> SUFFICES ASSUME Consumed \in stable PROVE text = Consumed
      OBVIOUS
    <3>1. taken.ptr = Consumed
      BY <1>6 DEF Copy, InStep, Item
    <3>2. Consumed # Scratch
      BY <1>0, <1>6 DEF Copy, Scratch
    <3> QED BY <2>1, <3>1, <3>2 DEF Text
  <2>4. \A i \in 1 .. Len(Gathered') : i \in stable => Gathered'[i] = i
    BY <1>0, <1>6, <2>1, <2>3 DEF Copy, InStep
  <2> QED BY <1>a, <2>2, <2>4 DEF InStep, Item
<1>7. CASE Exit
  <2>1. Gathered' = Gathered /\ Consumed' = Consumed /\ worker = "exit" /\ worker' = "gone"
    BY <1>7, Counters, FlushKeeps DEF Exit, Consumed
  <2> QED BY <1>a, <1>7, <2>1 DEF InStep, Item, Exit
<1> QED BY <1>1, <1>2, <1>3, <1>4, <1>5, <1>6, <1>7 DEF Worker

(* The invariant holds at the start, and every step keeps it.              *)
LEMMA Starts == PrinterInit => PrinterInv
<1> SUFFICES ASSUME PrinterInit PROVE PrinterInv
  OBVIOUS
<1>1. <<>> \in Seq(Piece \cup {Torn}) /\ 0 \in Slot /\ Unset \in Taken /\ Unset.len = 0
  BY Pieces DEF Slot, Unset, Taken, Pointer
<1>2. queue \in [Slot -> Taken] /\ \A s \in Slot : queue[s].len < BufSize
  <2>1. \A s \in Slot : queue[s] = Unset
    BY DEF PrinterInit
  <2>2. Unset.len < BufSize
    BY <1>1, Pieces
  <2>3. queue \in [Slot -> Taken]
    BY <1>1 DEF PrinterInit
  <2> QED BY <2>1, <2>2, <2>3
<1>3. Gathered = <<>> /\ Consumed = 0
  BY DEF PrinterInit, Gathered, Consumed
<1>4. 0 % QueueCap = 0
  BY Pieces, Division
<1>5. Bounded
  <2>1. taken \in Taken /\ taken.len < BufSize /\ bufLen <= BufSize
    <3>1. taken = Unset /\ bufLen = 0
      BY DEF PrinterInit
    <3> QED BY <1>1, <3>1, Pieces
  <2>2. /\ 0 \in 0 .. Len(PieceLen) /\ 0 \in 0 .. TurnSize /\ {} \subseteq Piece
    BY Pieces
  <2>3. /\ decoded \in 0 .. Len(PieceLen) /\ pushed \in 0 .. Len(PieceLen)
        /\ turnLen \in 0 .. TurnSize /\ stable \subseteq Piece
    BY <2>2, Zenon DEF PrinterInit
  <2>4. /\ ap_head \in Slot /\ ap_tail \in Slot /\ done \in BOOLEAN /\ lapped \in BOOLEAN
        /\ caller \in {"decode", "push", "publish", "stopping", "joined"}
        /\ worker \in {"test", "drained", "look", "take", "copy", "exit", "gone"}
        /\ bufLen \in Nat /\ buf \in Seq(Piece \cup {Torn}) /\ out \in Seq(Piece \cup {Torn})
    BY <1>1 DEF PrinterInit
  <2> QED BY <1>2, <2>1, <2>3, <2>4, Zenon DEF Bounded, PrinterTypeOK
<1>6. CallerOK /\ WorkerOK
  BY <1>4, Pieces DEF PrinterInit, CallerOK, WorkerOK
<1>7. InStep
  BY <1>3, <1>4, Pieces DEF PrinterInit, InStep
<1> QED BY <1>5, <1>6, <1>7 DEF PrinterInv

LEMMA Steps == PrinterInv /\ [PrinterNext]_printerVars => PrinterInv'
<1> SUFFICES ASSUME PrinterInv, [PrinterNext]_printerVars PROVE PrinterInv'
  OBVIOUS
<1>1. Bounded' /\ CallerOK' /\ WorkerOK'
  BY BoundedStep, CallerStep, WorkerStep
<1>2. ASSUME ~lapped' PROVE InStep'
  <2>1. ~lapped
    BY <1>2 DEF PrinterNext, Caller, Worker, DecodePiece, FillSlot, MoveTail, Stop, Join, TestDone,
       TestDrained, Idle, Look, MoveHead, Copy, Exit, callerVars, printerVars
  <2>2. InStep
    BY <2>1 DEF PrinterInv
  <2>3. CASE Caller
    BY <1>2, <2>2, <2>3, CallerInStep
  <2>4. CASE Worker
    BY <2>2, <2>4, WorkerInStep
  <2>5. CASE UNCHANGED printerVars
    BY <2>2, <2>5 DEF printerVars, InStep, Consumed, Gathered, Item
  <2> QED BY <2>3, <2>4, <2>5 DEF PrinterNext
<1> QED BY <1>1, <1>2 DEF PrinterInv

(* What the printer promises about the text follows: Len(Gathered) is at   *)
(* most Consumed, and when the worker is gone its buffer is empty.         *)
LEMMA Promises == PrinterInv => PrintsInOrder
<1> SUFFICES ASSUME PrinterInv, ~lapped
             PROVE  /\ Len(Gathered) <= pushed
                    /\ \A i \in DOMAIN Gathered : i \in stable => Gathered[i] = i
                    /\ caller = "joined" => Len(out) = pushed
  BY DEF PrintsInOrder
<1>1. InStep /\ WorkerOK
  BY DEF PrinterInv
<1>2. DOMAIN Gathered = 1 .. Len(Gathered)
  BY Counters, LenProperties
<1>3. caller = "joined" => Len(out) = pushed
  <2> SUFFICES ASSUME caller = "joined" PROVE Len(out) = pushed
    OBVIOUS
  <2>1. worker = "gone" /\ buf = <<>> /\ Consumed = pushed
    BY <1>1 DEF WorkerOK, InStep
  <2>2. out \o <<>> = out
    BY ConcatEmptySeq DEF PrinterInv, Bounded, PrinterTypeOK
  <2> QED BY <2>1, <2>2, Counters DEF Gathered
<1> QED BY <1>1, <1>2, <1>3, Counters DEF InStep

-----------------------------------------------------------------------------
(* async_printer_worker and async_printer_push, for any ring, buffer and   *)
(* turn: unless a push overruns the ring, the text written is the turn in  *)
(* order, complete when stop_and_flush returns, and every piece that was   *)
(* copied to the turn's text arrives intact.                               *)
THEOREM PrintsAlwaysInOrder == PrinterSpec => []PrintsInOrder
<1>1. PrinterSpec => []PrinterInv
  BY Starts, Steps, PTL DEF PrinterSpec
<1> QED BY <1>1, Promises, PTL

(* The worker's buffer holds what it gathers, overrun or not.              *)
THEOREM BufferAlwaysFits == PrinterSpec => []BufferFits
<1>1. PrinterSpec => []PrinterInv
  BY Starts, Steps, PTL DEF PrinterSpec
<1>2. PrinterInv => BufferFits
  BY DEF PrinterInv, Bounded, BufferFits
<1> QED BY <1>1, <1>2, PTL

(* Both: what is pushed comes out in order, through a buffer that holds it.*)
THEOREM PrinterDelivers == PrinterSpec => []TextGetsOut
<1>1. PrintsInOrder /\ BufferFits => TextGetsOut
  BY DEF TextGetsOut
<1> QED BY <1>1, PrintsAlwaysInOrder, BufferAlwaysFits, PTL

=============================================================================
