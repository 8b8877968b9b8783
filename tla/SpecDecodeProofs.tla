-------------------------- MODULE SpecDecodeProofs --------------------------
(***************************************************************************)
(* What holds of SpecDecode for every model, context length, window, draft *)
(* length and prompt: the drafters propose what followed the window before,*)
(* the tool's engine holds a greedy continuation whatever was drafted and  *)
(* rejected, and both loops count what their engine did.                   *)
(***************************************************************************)
EXTENDS SpecDecode, EngineProofs, ModuloLemmas, WellFoundedInduction

-----------------------------------------------------------------------------
(* The drafters.                                                           *)

(* A bounded set of positions has a last one.                              *)
LEMMA LastIsMax ==
  ASSUME NEW b \in Nat, NEW S \in SUBSET (0 .. b), S # {}
  PROVE  Last(S) \in S /\ \A y \in S : y <= Last(S)
<1> DEFINE T == {b - x : x \in S}
           R == OpToRel(<, Nat)
<1>1. T \subseteq Nat /\ T # {}
  OBVIOUS
<1>2. IsWellFoundedOn(R, Nat)
  BY NatLessThanWellFounded
<1>3. \A u, v \in Nat : u < v => <<u, v>> \in R
  BY DEF OpToRel
<1> HIDE DEF R
<1>4. PICK t \in T : \A u \in T : <<u, t>> \notin R
  BY <1>1, <1>2, WFMin
<1>5. PICK x \in S : t = b - x
  OBVIOUS
<1>6. \A y \in S : y <= x
  <2> SUFFICES ASSUME NEW y \in S, y > x PROVE FALSE
    OBVIOUS
  <2>1. b - y \in T /\ b - y < b - x
    OBVIOUS
  <2> QED BY <2>1, <1>1, <1>3, <1>4, <1>5
<1>7. \E z \in S : \A y \in S : y <= z
  BY <1>6
<1> QED BY <1>7 DEF Last

LEMMA LastIs ==
  ASSUME NEW S \in SUBSET Int, NEW x \in S, \A y \in S : y <= x
  PROVE  Last(S) = x
<1>1. Last(S) \in S /\ \A y \in S : y <= Last(S)
  BY DEF Last
<1>2. Last(S) <= x /\ x <= Last(S) /\ Last(S) \in Int /\ x \in Int
  BY <1>1
<1> QED BY <1>2

(* The last tokens of a history, by position.                              *)
LEMMA RecentIs ==
  ASSUME NEW h \in Seq(Token), NEW n \in Nat
  PROVE  /\ Recent(h, n) \in Seq(Token) /\ Len(Recent(h, n)) = Least(Len(h), n)
         /\ Least(Len(h), n) \in Nat /\ Least(Len(h), n) <= Len(h)
         /\ \A i \in 1 .. Least(Len(h), n) :
              Recent(h, n)[i] = h[Len(h) - Least(Len(h), n) + i]
<1> DEFINE k == Least(Len(h), n)
<1>1. k \in Nat /\ k <= Len(h) /\ Len(h) \in Nat
  BY DEF Least
<1> HIDE DEF k
<1>2. Recent(h, n) = SubSeq(h, Len(h) - k + 1, Len(h))
  BY DEF Recent, k
<1>3. \A i \in Len(h) - k + 1 .. Len(h) : h[i] \in Token
  BY <1>1
<1>4. /\ SubSeq(h, Len(h) - k + 1, Len(h)) \in Seq(Token)
      /\ Len(SubSeq(h, Len(h) - k + 1, Len(h))) = k
      /\ \A i \in 1 .. k : SubSeq(h, Len(h) - k + 1, Len(h))[i] = h[Len(h) - k + i]
  BY <1>1, <1>3
<1> QED BY <1>1, <1>2, <1>4 DEF k

(* A piece of a history, by position.                                      *)
LEMMA PieceIs ==
  ASSUME NEW h \in Seq(Token), NEW a \in Nat, NEW n \in Nat, a + n <= Len(h)
  PROVE  /\ SubSeq(h, a + 1, a + n) \in Seq(Token) /\ Len(SubSeq(h, a + 1, a + n)) = n
         /\ \A i \in 1 .. n : SubSeq(h, a + 1, a + n)[i] = h[a + i]
<1>1. \A i \in a + 1 .. a + n : h[i] \in Token
  OBVIOUS
<1> QED BY <1>1

(* d followed an earlier copy of the last w tokens.                        *)
CopiedFrom(h, w, d) ==
  \E c \in w .. Len(h) - w :
    /\ SubSeq(h, c - w + 1, c) = Recent(h, w)
    /\ d = SubSeq(h, c + 1, c + Len(d))

(* What ngram_lookup_draft proposes followed the window before, and lies   *)
(* between that copy and the window.                                       *)
LEMMA LookupProposes ==
  ASSUME NEW h \in Seq(Token), NEW w \in Nat \ {0}, NEW k \in Nat \ {0},
         NEW d, d = Lookup(h, w, k), d # <<>>
  PROVE  /\ d \in Seq(Token) /\ Len(d) \in 1 .. k /\ Len(d) + 2 * w <= Len(h)
         /\ CopiedFrom(h, w, d)
<1> DEFINE n == Len(h)
           Match(i) == \A j \in 0 .. w - 1 : h[i + j] = h[n - w + 1 + j]
           starts == {i \in 1 .. n - w : Match(i) /\ Available(n, w, i) > 0}
           i0 == Last(starts)
           m == Least(Available(n, w, i0), k)
<1>1. n \in Nat /\ w \in Nat
  OBVIOUS
<1>2. ~(n <= w + 1 \/ starts = {}) /\ d = SubSeq(h, i0 + w, i0 + w - 1 + m)
  BY DEF Lookup
<1>3. i0 \in starts
  <2> DEFINE S == starts
  <2>1. S \subseteq 0 .. n
    BY <1>1
  <2>2. S # {}
    BY <1>2
  <2> HIDE DEF S
  <2>3. Last(S) \in S
    BY <1>1, <2>1, <2>2, LastIsMax
  <2> QED BY <2>3 DEF S
<1>4. i0 \in 1 .. n - w /\ Match(i0) /\ Available(n, w, i0) > 0
  <2> HIDE DEF i0
  <2> QED BY <1>3
<1> HIDE DEF starts, i0
<1>5. PICK c \in Nat : c = i0 + w - 1
  <2> HIDE DEF Match
  <2> QED BY <1>1, <1>4
<1>6. /\ m \in 1 .. k /\ c + m <= n - w /\ c >= w /\ Available(n, w, i0) = n - w - c
  <2> HIDE DEF Match
  <2>1. Available(n, w, i0) = n - w - c
    BY <1>1, <1>4, <1>5 DEF Available
  <2>a. Available(n, w, i0) \in Nat \ {0}
    BY <1>1, <1>4, <1>5, <2>1
  <2>2. PICK x \in Nat \ {0} : x = Available(n, w, i0)
    BY <2>a
  <2>3. m = Least(x, k) /\ c + x <= n - w
    BY <1>1, <1>5, <2>1, <2>2
  <2>4. c >= w
    BY <1>1, <1>4, <1>5
  <2> HIDE DEF m
  <2>5. m \in 1 .. k /\ m <= x
    BY <2>3 DEF Least
  <2> QED BY <1>1, <1>5, <2>1, <2>3, <2>4, <2>5
<1> HIDE DEF m
<1>7. d = SubSeq(h, c + 1, c + m)
  BY <1>1, <1>2, <1>4, <1>5, <1>6
<1>8. d \in Seq(Token) /\ Len(d) = m
  <2>1. m \in Nat /\ c + m <= Len(h)
    BY <1>1, <1>5, <1>6
  <2>2. SubSeq(h, c + 1, c + m) \in Seq(Token) /\ Len(SubSeq(h, c + 1, c + m)) = m
    BY <1>5, <2>1, PieceIs
  <2> QED BY <1>7, <2>2
<1>9. SubSeq(h, c - w + 1, c) = Recent(h, w)
  <2>1. PICK a \in Nat : a = c - w
    BY <1>1, <1>6
  <2>2. /\ SubSeq(h, a + 1, a + w) \in Seq(Token) /\ Len(SubSeq(h, a + 1, a + w)) = w
        /\ \A j \in 1 .. w : SubSeq(h, a + 1, a + w)[j] = h[a + j]
    BY <1>1, <1>6, <2>1, PieceIs
  <2>3. Least(Len(h), w) = w
    BY <1>1, <1>6 DEF Least
  <2>4. /\ Recent(h, w) \in Seq(Token) /\ Len(Recent(h, w)) = w
        /\ \A j \in 1 .. w : Recent(h, w)[j] = h[n - w + j]
    <3>1. w \in Nat
      OBVIOUS
    <3>2. /\ Recent(h, w) \in Seq(Token) /\ Len(Recent(h, w)) = Least(Len(h), w)
          /\ \A i \in 1 .. Least(Len(h), w) :
               Recent(h, w)[i] = h[Len(h) - Least(Len(h), w) + i]
      BY <3>1, RecentIs
    <3> QED BY <2>3, <3>2
  <2>5. ASSUME NEW j \in 1 .. w PROVE h[a + j] = h[n - w + j]
    <3>1. j - 1 \in 0 .. w - 1 /\ i0 + (j - 1) = a + j /\ n - w + 1 + (j - 1) = n - w + j
      BY <1>1, <1>4, <1>5, <2>1
    <3> QED BY <1>4, <3>1
  <2>6. SubSeq(h, a + 1, a + w) = Recent(h, w)
    BY <2>2, <2>4, <2>5, SeqEqual
  <2> QED BY <1>1, <1>5, <2>1, <2>6
<1>10. c \in w .. Len(h) - w /\ Len(d) + 2 * w <= Len(h)
  BY <1>1, <1>5, <1>6, <1>8
<1>11. CopiedFrom(h, w, d)
  BY <1>7, <1>8, <1>9, <1>10 DEF CopiedFrom
<1> QED BY <1>6, <1>8, <1>10, <1>11

(* The ring gives back every token that is still in it.                    *)
LEMMA RingHolds ==
  ASSUME NEW fed \in Seq(Token), NEW cap \in Nat \ {0},
         NEW i \in Base(fed, cap) .. Len(fed) - 1
  PROVE  NgAt(fed, cap, i) = fed[i + 1]
<1> DEFINE S == {p \in 1 .. Len(fed) : (p - 1) % cap = i % cap}
<1>1. /\ Len(fed) \in Nat /\ cap \in Nat \ {0} /\ i \in Nat /\ i < Len(fed)
      /\ Len(fed) - i <= cap
  BY DEF Base, Kept, Least
<1>2. i + 1 \in S
  BY <1>1
<1>3. ASSUME NEW p \in S, p > i + 1 PROVE FALSE
  <2>1. p \in 1 .. Len(fed) /\ (p - 1) % cap = i % cap
    OBVIOUS
  <2>2. i \in Int /\ p - 1 \in Int /\ i < p - 1 /\ (p - 1) - i < cap
    BY <1>1, <1>3, <2>1
  <2>3. i % cap # (p - 1) % cap
    BY <1>1, <2>2, Apart
  <2> QED BY <2>1, <2>3
<1>4. \A p \in S : p <= i + 1
  BY <1>1, <1>3
<1>5. S \in SUBSET Int
  OBVIOUS
<1> HIDE DEF S
<1>6. Last(S) = i + 1
  BY <1>2, <1>4, <1>5, LastIs
<1> QED BY <1>6 DEF NgAt, Slot, S

(* tt_ngram_draft over the ring proposes what the drafter promises over the*)
(* tokens the ring keeps.                                                  *)
LEMMA RingIsContinuation ==
  ASSUME NEW fed \in Seq(Token), NEW cap \in Nat \ {0}, NEW w \in Nat \ {0},
         NEW k \in Nat \ {0}
  PROVE  RingDraft(fed, cap, w, k) = Continuation(Recent(fed, cap), w, k)
<1> DEFINE N == Len(fed)
           K == Kept(fed, cap)
           B == Base(fed, cap)
           h == Recent(fed, cap)
           E == Ends(fed, cap, w)
           C == Copies(h, w)
<1>1. /\ N \in Nat /\ K \in Nat /\ B \in Nat /\ N = B + K
      /\ h \in Seq(Token) /\ Len(h) = K /\ \A j \in 1 .. K : h[j] = fed[B + j]
  <2>1. cap \in Nat
    OBVIOUS
  <2>2. /\ Recent(fed, cap) \in Seq(Token) /\ Len(Recent(fed, cap)) = Least(Len(fed), cap)
        /\ Least(Len(fed), cap) \in Nat /\ Least(Len(fed), cap) <= Len(fed)
        /\ \A j \in 1 .. Least(Len(fed), cap) :
             Recent(fed, cap)[j] = fed[Len(fed) - Least(Len(fed), cap) + j]
    BY <2>1, RecentIs
  <2>3. /\ K = Least(Len(fed), cap) /\ B = Len(fed) - Least(Len(fed), cap)
        /\ N = Len(fed) /\ N \in Nat /\ h = Recent(fed, cap)
    BY DEF Kept, Base
  <2> HIDE DEF N, K, B, h
  <2> QED BY <2>2, <2>3
<1>2. \A i \in B .. N - 1 : NgAt(fed, cap, i) = fed[i + 1]
  BY RingHolds
<1>3. E = {e \in B + w .. N - w :
             \A j \in 0 .. w - 1 : NgAt(fed, cap, e - w + j) = NgAt(fed, cap, N - w + j)}
  BY DEF Ends
<1>4. C = {c \in w .. K - w : SubSeq(h, c - w + 1, c) = Recent(h, w)}
  BY <1>1 DEF Copies
<1> HIDE DEF N, K, B, h, E, C
(* A copy that ends at c of what is kept ends at B + c of the whole.       *)
<1>5. ASSUME NEW c \in w .. K - w
      PROVE  SubSeq(h, c - w + 1, c) = Recent(h, w)
               <=> \A j \in 0 .. w - 1 :
                     NgAt(fed, cap, (B + c) - w + j) = NgAt(fed, cap, N - w + j)
  <2>1. PICK a \in Nat : a = c - w
    BY <1>1
  <2>2. a + w <= Len(h) /\ c = a + w /\ w \in Nat /\ w <= K /\ Least(Len(h), w) = w
    BY <1>1, <2>1 DEF Least
  <2>3. /\ SubSeq(h, a + 1, a + w) \in Seq(Token) /\ Len(SubSeq(h, a + 1, a + w)) = w
        /\ \A i \in 1 .. w : SubSeq(h, a + 1, a + w)[i] = h[a + i]
    BY <1>1, <2>2, PieceIs
  <2>4. /\ Recent(h, w) \in Seq(Token) /\ Len(Recent(h, w)) = Least(Len(h), w)
        /\ \A i \in 1 .. Least(Len(h), w) :
             Recent(h, w)[i] = h[Len(h) - Least(Len(h), w) + i]
    BY <1>1, <2>2, RecentIs
  <2>5. /\ Len(Recent(h, w)) = w
        /\ \A i \in 1 .. w : Recent(h, w)[i] = h[K - w + i]
    BY <1>1, <2>2, <2>4
  <2>6. SubSeq(h, a + 1, a + w) = Recent(h, w)
          <=> \A i \in 1 .. w : h[a + i] = h[K - w + i]
    <3>1. ASSUME SubSeq(h, a + 1, a + w) = Recent(h, w), NEW i \in 1 .. w
          PROVE  h[a + i] = h[K - w + i]
      BY <2>3, <2>5, <3>1
    <3>2. ASSUME \A i \in 1 .. w : h[a + i] = h[K - w + i]
          PROVE  SubSeq(h, a + 1, a + w) = Recent(h, w)
      <4>1. \A i \in 1 .. w : SubSeq(h, a + 1, a + w)[i] = Recent(h, w)[i]
        BY <2>3, <2>5, <3>2
      <4> QED BY <2>3, <2>4, <2>5, <4>1, SeqEqual
    <3> QED BY <3>1, <3>2
  <2>7. ASSUME NEW i \in 1 .. w
        PROVE  /\ i - 1 \in 0 .. w - 1
               /\ NgAt(fed, cap, (B + c) - w + (i - 1)) = h[a + i]
               /\ NgAt(fed, cap, N - w + (i - 1)) = h[K - w + i]
    <3>0. /\ K \in Nat /\ B \in Nat /\ N = B + K /\ a \in Nat /\ w \in Nat /\ i \in Nat
          /\ 1 <= i /\ i <= w /\ c = a + w /\ a + w <= K /\ w <= K
      BY <1>1, <2>1, <2>2
    <3>1. /\ a + i \in 1 .. K /\ K - w + i \in 1 .. K
          /\ (B + c) - w + (i - 1) \in B .. N - 1 /\ N - w + (i - 1) \in B .. N - 1
          /\ ((B + c) - w + (i - 1)) + 1 = B + (a + i)
          /\ (N - w + (i - 1)) + 1 = B + (K - w + i)
      BY <3>0
    <3>2. /\ NgAt(fed, cap, (B + c) - w + (i - 1)) = fed[B + (a + i)]
          /\ NgAt(fed, cap, N - w + (i - 1)) = fed[B + (K - w + i)]
      BY <1>2, <3>1
    <3> QED BY <1>1, <3>1, <3>2
  <2>8. \A j \in 0 .. w - 1 : j + 1 \in 1 .. w /\ (j + 1) - 1 = j
    OBVIOUS
  <2>9. SubSeq(h, c - w + 1, c) = SubSeq(h, a + 1, a + w)
    BY <2>1, <2>2
  <2>10. (\A i \in 1 .. w : h[a + i] = h[K - w + i])
           <=> \A j \in 0 .. w - 1 :
                 NgAt(fed, cap, (B + c) - w + j) = NgAt(fed, cap, N - w + j)
    <3>1. ASSUME \A i \in 1 .. w : h[a + i] = h[K - w + i], NEW j \in 0 .. w - 1
          PROVE  NgAt(fed, cap, (B + c) - w + j) = NgAt(fed, cap, N - w + j)
      <4>1. PICK i \in 1 .. w : i - 1 = j
        BY <2>8
      <4> QED BY <2>7, <3>1, <4>1
    <3> QED BY <2>7, <3>1
  <2> QED BY <2>6, <2>9, <2>10
<1>6. \A c \in C : B + c \in E
  <2> SUFFICES ASSUME NEW c \in C PROVE B + c \in E
    OBVIOUS
  <2>1. c \in w .. K - w /\ B + c \in B + w .. N - w
    BY <1>1, <1>4
  <2> QED BY <1>3, <1>4, <1>5, <2>1
<1>7. \A e \in E : e - B \in C
  <2> SUFFICES ASSUME NEW e \in E PROVE e - B \in C
    OBVIOUS
  <2>1. e \in B + w .. N - w
    BY <1>3
  <2>2. PICK c \in w .. K - w : c = e - B /\ e = B + c
    BY <1>1, <2>1
  <2> QED BY <1>3, <1>4, <1>5, <2>2
<1>8. CASE C = {}
  <2>1. E = {}
    BY <1>7, <1>8
  <2>2. RingDraft(fed, cap, w, k) = <<>>
    BY <2>1 DEF RingDraft, E
  <2>3. Continuation(h, w, k) = <<>>
    BY <1>8 DEF Continuation, C
  <2> QED BY <2>2, <2>3 DEF h
<1>9. CASE C # {}
  <2>1. C \in SUBSET (0 .. K)
    BY <1>1, <1>4
  <2>2. PICK c \in C : c = Last(C) /\ \A y \in C : y <= c
    BY <1>1, <1>9, <2>1, LastIsMax
  <2>a. c \in C /\ B + c \in E
    BY <1>6, <2>2
  <2>3. c \in w .. K - w /\ c \in Nat /\ B + c \in E
    BY <1>1, <1>4, <2>a
  <2>4. E \in SUBSET Int
    BY <1>1, <1>3
  <2>5. \A e \in E : e <= B + c
    BY <1>1, <1>7, <2>2, <2>3, <2>4
  <2>6. Last(E) = B + c
    BY <2>3, <2>4, <2>5, LastIs
  <2>b. Least(N - (B + c), k) \in Nat
    BY <1>1, <2>3 DEF Least
  <2>7. PICK n \in Nat : n = Least(N - (B + c), k)
    BY <2>b
  <2>8. /\ n <= K - c /\ Least(c + k, K) = c + n /\ c + n <= Len(h)
    BY <1>1, <2>3, <2>7 DEF Least
  <2>9. RingDraft(fed, cap, w, k) = [j \in 1 .. n |-> NgAt(fed, cap, (B + c) + j - 1)]
    <3>1. ~(K <= w) /\ E # {}
      BY <1>1, <2>3
    <3> QED BY <2>6, <2>7, <3>1 DEF RingDraft, E, K, N
  <2>10. Continuation(h, w, k) = SubSeq(h, c + 1, c + n)
    <3>1. Continuation(h, w, k) = SubSeq(h, Last(C) + 1, Least(Last(C) + k, Len(h)))
      BY <1>9 DEF Continuation, C
    <3> QED BY <1>1, <2>2, <2>8, <3>1
  <2>11. /\ SubSeq(h, c + 1, c + n) \in Seq(Token) /\ Len(SubSeq(h, c + 1, c + n)) = n
         /\ \A i \in 1 .. n : SubSeq(h, c + 1, c + n)[i] = h[c + i]
    BY <1>1, <2>3, <2>8, PieceIs
  <2>12. ASSUME NEW j \in 1 .. n
         PROVE  NgAt(fed, cap, (B + c) + j - 1) = h[c + j] /\ h[c + j] \in Token
    <3>1. /\ (B + c) + j - 1 \in B .. N - 1 /\ ((B + c) + j - 1) + 1 = B + (c + j)
          /\ c + j \in 1 .. K
      BY <1>1, <2>3, <2>7, <2>8
    <3>2. NgAt(fed, cap, (B + c) + j - 1) = fed[B + (c + j)]
      BY <1>2, <3>1
    <3> QED BY <1>1, <3>1, <3>2
  <2> DEFINE r == [j \in 1 .. n |-> NgAt(fed, cap, (B + c) + j - 1)]
  <2>13. r \in Seq(Token) /\ Len(r) = n /\ \A j \in 1 .. n : r[j] = h[c + j]
    <3>1. \A j \in 1 .. n : NgAt(fed, cap, (B + c) + j - 1) \in Token
      BY <2>12
    <3>2. n \in Nat
      BY <2>7
    <3>3. r \in Seq(Token) /\ Len(r) = n
      BY <3>1, <3>2
    <3> QED BY <2>12, <3>3
  <2> HIDE DEF r
  <2>14. r = SubSeq(h, c + 1, c + n)
    BY <2>11, <2>13, SeqEqual
  <2> QED BY <2>9, <2>10, <2>14 DEF r, h
<1> QED BY <1>8, <1>9

-----------------------------------------------------------------------------
(* The engine's calls, as the loops see them.                              *)

(* A context within the capacity is made of tokens, and so are its prefixes*)
LEMMA ViewTokens ==
  ASSUME NEW m, Sound(m), m.pos <= MaxCtx, NEW n \in 0 .. m.pos
  PROVE  /\ View(m.kv, n) \in Seq(Token) /\ Len(View(m.kv, n)) = n
         /\ \A i \in 1 .. n : View(m.kv, n)[i] = View(m.kv, m.pos)[i]
<1>1. /\ m.pos \in Nat /\ m.kv \in [Row -> Cell] /\ MaxCtx \in Nat /\ n \in Nat
      /\ \A i \in 1 .. m.pos : m.kv[i - 1] # None
  BY EngineAssumption DEF Sound, State
<1>2. ASSUME NEW i \in 1 .. m.pos
      PROVE  View(m.kv, m.pos)[i] = m.kv[i - 1] /\ m.kv[i - 1] \in Token
  <2>1. i - 1 \in Row /\ i <= MaxCtx
    BY <1>1 DEF Row
  <2> QED BY <1>1, <2>1 DEF View, Cell
<1>3. \A i \in 1 .. n : i \in 1 .. m.pos /\ View(m.kv, n)[i] = m.kv[i - 1]
  BY <1>1 DEF View
<1>4. View(m.kv, n) \in Seq(Cell) /\ Len(View(m.kv, n)) = n
  BY <1>1, ViewLen
<1>5. \A i \in 1 .. n : View(m.kv, n)[i] \in Token
  BY <1>2, <1>3
<1>6. View(m.kv, n) \in Seq(Token)
  BY <1>4, <1>5
<1> QED BY <1>2, <1>3, <1>4, <1>6

LEMMA ContextTokens ==
  ASSUME IInv, pos <= MaxCtx
  PROVE  /\ Context \in Seq(Token) /\ Len(Context) = pos /\ pos \in Nat
         /\ \A n \in 0 .. pos :
              /\ View(kv, n) \in Seq(Token) /\ Len(View(kv, n)) = n
              /\ \A i \in 1 .. n : View(kv, n)[i] = Context[i]
<1>1. Sound(Dev) /\ Dev.kv = kv /\ Dev.pos = pos /\ pos \in Nat
  BY EngineTypes
<1>2. \A n \in 0 .. pos :
        /\ View(kv, n) \in Seq(Token) /\ Len(View(kv, n)) = n
        /\ \A i \in 1 .. n : View(kv, n)[i] = View(kv, pos)[i]
  BY <1>1, ViewTokens
<1>3. pos \in 0 .. pos
  BY <1>1
<1> QED BY <1>1, <1>2, <1>3 DEF Context

LEMMA GreedyIs ==
  ASSUME oracle \in [Token \X Token -> Token], NEW c \in Seq(Token), c # <<>>
  PROVE  Greedy(c) \in Token
<1>1. Len(c) \in Nat \ {0}
  BY EmptySeq
<1>2. Len(c) \in 1 .. Len(c) /\ (IF Len(c) = 1 THEN 1 ELSE Len(c) - 1) \in 1 .. Len(c)
  <2>1. \A n \in Nat \ {0} : n \in 1 .. n /\ (IF n = 1 THEN 1 ELSE n - 1) \in 1 .. n
    OBVIOUS
  <2> QED BY <1>1, <2>1
<1>3. \A i \in 1 .. Len(c) : c[i] \in Token
  OBVIOUS
<1>4. c[Len(c)] \in Token /\ c[IF Len(c) = 1 THEN 1 ELSE Len(c) - 1] \in Token
  BY <1>2, <1>3, Zenon
<1> QED BY <1>4 DEF Greedy

(* A verify that fits appends its tokens, batched or one by one.           *)
LEMMA VerifyAppends ==
  ASSUME IInv, NEW c \in Seq(Token), Verify(c), Synced(Flushed).pos + Len(c) <= MaxCtx
  PROVE  /\ IInv' /\ pos' = Synced(Flushed).pos + Len(c)
         /\ Context' = View(Synced(Flushed).kv, Synced(Flushed).pos) \o c
<1> DEFINE m == Synced(Flushed)
           f == FeedAll(m, c)
<1>1. Sound(m) /\ m.pos \in Nat /\ Len(c) \in Nat /\ MaxCtx \in Nat
  <2>1. Sound(m)
    BY FlushedSound, SyncedSound DEF IInv
  <2> HIDE DEF m
  <2> QED BY <2>1, EngineAssumption DEF Sound, State
<1>2. IInv'
  BY <1>1, VerifySound
<1>3. ~(m.pos + Len(c) > MaxCtx)
  BY <1>1
<1>4. Commit(FeedBatchDx(m, c)) \/ Commit(f)
  BY <1>3 DEF Verify
<1>5. f.pos = m.pos + Len(c) /\ f \in State
  BY <1>1, FeedAllSound DEF Sound
<1>6. FeedBatchDx(m, c).kv = f.kv /\ FeedBatchDx(m, c).pos = f.pos
  BY <1>5 DEF FeedBatchDx, State
<1>7. kv' = f.kv /\ pos' = f.pos
  BY <1>4, <1>6 DEF Commit
<1>8. View(f.kv, f.pos) = View(m.kv, m.pos) \o c
  BY <1>1, FedView
<1> QED BY <1>2, <1>5, <1>7, <1>8, TranscriptHeld

(* A batch the flush left no room for is fed over the tail of the context. *)
LEMMA VerifyFallsBack ==
  ASSUME IInv, NEW c \in Seq(Token), Verify(c), VerifyBatched(c),
         Synced(Flushed).pos + Len(c) > MaxCtx, Len(c) <= Synced(Flushed).pos
  PROVE  IInv' /\ pos' = Synced(Flushed).pos
<1> DEFINE m == Synced(Flushed)
           b == [m EXCEPT !.pos = m.pos - Len(c)]
           back == Synced(b)
<1>1. Sound(m) /\ m \in State /\ m.pos \in Nat /\ Len(c) \in Nat
  BY FlushedSound, SyncedSound DEF IInv, Sound, State
<1>2. IInv'
  BY VerifySound
<1>3. Commit(FeedAll(back, c))
  BY DEF Verify
<1> HIDE DEF m
<1>4. b.pos = m.pos - Len(c)
  BY <1>1 DEF State
<1>5. back.pos = b.pos
  BY <1>1 DEF Synced, State
<1> HIDE DEF back
<1>6. pos' = back.pos + Len(c)
  BY <1>3 DEF Commit, FeedAll
<1>7. pos' = m.pos
  BY <1>1, <1>4, <1>5, <1>6
<1> QED BY <1>2, <1>7 DEF m

(* A step from an engine that holds nothing back appends its token, and    *)
(* its row of logits is the context.                                       *)
LEMMA StepAppends ==
  ASSUME IInv, pending = None, NEW t \in Token, StepLogits(t)
  PROVE  /\ IInv' /\ pos' = pos + 1 /\ pos' <= MaxCtx /\ pending' = None
         /\ logits' = Context' /\ Context' = Append(Context, t)
<1>1. Flushed = Dev /\ pending' = None
  BY DEF Flushed, Flushing, StepLogits
<1>2. Sound(Dev) /\ Dev.kv = kv /\ Dev.pos = pos /\ pos \in Nat
  BY EngineTypes
<1>3. pos + 1 <= MaxCtx
  BY <1>2, EngineAssumption DEF StepLogits
<1>4. /\ Advance(Dev, t).pos = pos + 1
      /\ Advance(Dev, t).hid = View(Advance(Dev, t).kv, Advance(Dev, t).pos)
      /\ View(Advance(Dev, t).kv, Advance(Dev, t).pos) = Append(View(kv, pos), t)
  BY <1>2, <1>3, AdvanceView
<1>5. Commit(Advance(Dev, t)) /\ logits' = Advance(Dev, t).hid
  BY <1>1 DEF StepLogits
<1>6. IInv'
  BY StepLogitsIInv
<1> QED BY <1>1, <1>3, <1>4, <1>5, <1>6, TranscriptHeld DEF Commit

(* One engine_next: one more token held, whichever way it was produced.    *)
NextCall == NextEager \/ NextReplay \/ NextSample

LEMMA NextCallAppends ==
  ASSUME IInv, NextCall
  PROVE  /\ IInv' /\ pos' \in Nat /\ pos <= pos' /\ pos' <= MaxCtx
         /\ Len(Transcript') = Len(Transcript) + 1 /\ Len(Transcript) \in Nat
         /\ Samples => Greedy(logits') \in Token
<1> DEFINE Fed == IF pending = None THEN Dev ELSE Advance(Dev, pending)
<1>1. /\ kv \in [Row -> Cell] /\ pos \in Nat /\ pending \in Cell
      /\ Sound(Dev) /\ Dev.kv = kv /\ Dev.pos = pos
  BY EngineTypes
<1>2. MaxCtx \in Nat /\ pos + 1 <= MaxCtx /\ pos + 2 <= MaxCtx
  BY <1>1, EngineAssumption DEF NextCall, NextEager, NextReplay, NextSample
<1>3. IInv'
  BY NextEagerIInv, NextReplayIInv, NextSampleIInv DEF NextCall
<1>4. kv' \in [Row -> Cell] /\ pos' \in Nat /\ pending' \in Cell
  BY <1>3 DEF IInv, Sound, State, Dev
<1>5. /\ Len(Transcript) = IF pending = None THEN pos ELSE pos + 1
      /\ Len(Transcript') = IF pending' = None THEN pos' ELSE pos' + 1
  BY <1>1, <1>4, HeldIs, TranscriptHeld
<1>6. Sound(Fed) /\ Fed.pos = IF pending = None THEN pos ELSE pos + 1
  <2>1. CASE pending = None
    BY <1>1, <2>1
  <2>2. CASE pending # None
    <3>1. pending \in Token
      BY <1>1, <2>2 DEF Cell
    <3> QED BY <1>1, <2>2, <3>1, AdvanceSound
  <2> QED BY <2>1, <2>2
<1> HIDE DEF Fed
(* A token fed last is the row below the position.                         *)
<1>7. ASSUME NEW m, Sound(m), m.pos + 1 <= MaxCtx, NEW t \in Token, Commit(Advance(m, t))
      PROVE  pos' = m.pos + 1 /\ kv'[pos' - 1] = t
  <2> DEFINE f == Advance(m, t)
  <2>1. f.pos = m.pos + 1 /\ View(f.kv, f.pos) = Append(View(m.kv, m.pos), t)
    BY <1>7, AdvanceView
  <2>2. View(m.kv, m.pos) \in Seq(Cell) /\ Len(View(m.kv, m.pos)) = m.pos /\ m.pos \in Nat
    BY <1>7, ViewLen DEF Sound, State
  <2>3. Append(View(m.kv, m.pos), t)[m.pos + 1] = t
    BY <2>2 DEF Cell
  <2> HIDE DEF f
  <2>4. View(f.kv, m.pos + 1)[m.pos + 1] = f.kv[(m.pos + 1) - 1]
    BY <1>2, <1>7, <2>2 DEF View
  <2>5. kv' = f.kv /\ pos' = f.pos
    BY <1>7 DEF Commit, f
  <2> QED BY <2>1, <2>3, <2>4, <2>5
<1>8. CASE NextEager
  <2>1. PICK t \in Token : Commit(Advance(Dev, t))
    BY <1>8 DEF NextEager
  <2>2. pos' = pos + 1 /\ kv'[pos' - 1] = t
    BY <1>1, <1>2, <1>7, <2>1
  <2>3. pending' = pending /\ noGraph'
    BY <1>8 DEF NextEager, graphVars
  <2>4. Samples => Greedy(logits') \in Token
    BY <2>2, <2>3 DEF Samples
  <2> QED BY <1>1, <1>2, <1>3, <1>5, <2>2, <2>3, <2>4
<1>9. CASE NextReplay
  <2>1. pos' = pos + 1 /\ pending # None /\ pending' \in Token /\ ~noGraph'
    BY <1>9 DEF NextReplay, Replay, Commit, graphVars
  <2>2. pending' # None
    BY <2>1, EngineAssumption
  <2>3. Samples => Greedy(logits') \in Token
    BY <2>1 DEF Samples
  <2> QED BY <1>1, <1>2, <1>3, <1>5, <2>1, <2>2, <2>3
<1>10. CASE NextSample
  <2>1. PICK t \in Token :
          \/ Commit(Fed) /\ pending' = t /\ UNCHANGED noGraph
          \/ noGraph' = TRUE /\ pending' = None /\ Commit(Advance(Fed, t))
    BY <1>10 DEF NextSample, Fed
  <2>2. CASE Commit(Fed) /\ pending' = t /\ UNCHANGED noGraph
    <3>1. pos' = Fed.pos /\ pending' # None /\ ~noGraph'
      BY <1>10, <2>2, EngineAssumption DEF Commit, NextSample
    <3>2. Samples => Greedy(logits') \in Token
      BY <2>2, <3>1 DEF Samples
    <3> QED BY <1>1, <1>2, <1>3, <1>5, <1>6, <3>1, <3>2
  <2>3. CASE noGraph' = TRUE /\ pending' = None /\ Commit(Advance(Fed, t))
    <3>1. Fed.pos + 1 <= MaxCtx
      BY <1>1, <1>2, <1>6
    <3>2. pos' = Fed.pos + 1 /\ kv'[pos' - 1] = t
      BY <1>6, <1>7, <2>3, <3>1
    <3>3. Samples => Greedy(logits') \in Token
      BY <2>3, <3>2 DEF Samples
    <3> QED BY <1>1, <1>2, <1>3, <1>5, <1>6, <2>3, <3>2, <3>3
  <2> QED BY <2>1, <2>2, <2>3
<1> QED BY <1>8, <1>9, <1>10 DEF NextCall

-----------------------------------------------------------------------------
(* The inductive invariant.                                                *)

(* The batched verify is the one whose room is checked after the flush:    *)
(* the loop of the cli, whose engine may hold a token back, runs over it.  *)
CliBatches == "cli" \in Drivers => SpecBatch /\ Batched

Setup == oracle \in [Token \X Token -> Token] /\ driver \in Drivers /\ eos \in EosIds

LoopTypes ==
  /\ Setup
  /\ stage \in {"prefill", "init", "loop", "judge", "correct", "done"}
  /\ history \in Seq(Token) /\ draft \in Seq(Token) /\ Len(draft) <= DraftK
  /\ rows \in Seq(Seq(Token)) /\ Len(rows) <= DraftK + 1
  /\ prompted \in Nat /\ full \in Nat /\ attempted \in Int /\ accepted \in Int
  /\ emitted \in Nat /\ emitted <= NPredict + DraftK
  /\ stage \in {"judge", "correct"} => emitted < NPredict

Fresh ==
  stage = "prefill" =>
    pos = 0 /\ pending = None /\ emitted = 0 /\ full = 0 /\ attempted = 0 /\ accepted = 0

(* c continues the prompt and its repeated last token greedily.            *)
GreedyFrom(c) == \A i \in prompted + 2 .. Len(c) : c[i] = Greedy(SubSeq(c, 1, i - 1))

(* tool: the engine holds nothing back.  Between verify and verdict it is  *)
(* ahead of the carried row by the draft; a rejected tail leaves it at the *)
(* last row that agreed.                                                   *)
ToolLoop ==
  stage = "loop" =>
    /\ carry = Context /\ prompted + 1 <= pos /\ GreedyFrom(Context)
    /\ emitted = pos - prompted - 1 + full
ToolJudge ==
  stage = "judge" =>
    /\ carry \in Seq(Token) /\ prompted + 1 <= Len(carry) /\ GreedyFrom(carry)
    /\ draft # <<>> /\ draft[1] = Greedy(carry) /\ Context = carry \o draft
    /\ Len(rows) = Len(draft)
    /\ \A i \in 1 .. Len(draft) :
         /\ rows[i] = SubSeq(Context, 1, Len(carry) + i)
         /\ rows[i] = View(kv, Len(carry) + i)
    /\ emitted = Len(carry) - prompted - 1 + full
ToolCorrect ==
  stage = "correct" =>
    /\ Matched \in 1 .. Len(draft) /\ rows[Matched] = Context
    /\ prompted + 1 <= pos /\ GreedyFrom(Context)
    /\ emitted = pos - Matched - prompted - 1 + full
ToolInv ==
  driver = "tool" =>
    /\ pending = None
    /\ stage = "init" => /\ history # <<>> /\ prompted = pos /\ 0 < pos
                         /\ emitted = 0 /\ full = 0
    /\ ToolLoop /\ ToolJudge /\ ToolCorrect

(* cli: the engine is ahead of the history by what was rejected, until the *)
(* context is nearly full; far from it the engine holds at least as much.  *)
Ahead(n) ==
  /\ Len(history) + n <= Len(Transcript) \/ MaxCtx <= 2 * pos
  /\ pos + DraftK + 2 <= MaxCtx =>
       Len(Transcript) - Len(history) = (attempted - accepted) + n
CliInv ==
  driver = "cli" =>
    /\ stage \in {"prefill", "loop", "judge", "done"}
    /\ stage = "loop" => Ahead(0)
    /\ stage = "judge" => /\ draft # <<>> /\ Len(rows) = Len(draft) + 1
                          /\ \A i \in 1 .. Len(rows) : rows[i] # <<>>
                          /\ Ahead(Len(draft) + 1)

SpecInv == IInv /\ pos <= MaxCtx /\ LoopTypes /\ Fresh /\ ToolInv /\ CliInv

-----------------------------------------------------------------------------
(* Greedy continuations.                                                   *)

LEMMA GreedyNext ==
  ASSUME UNCHANGED <<oracle, prompted>>, NEW x, Context' = x, GreedyFrom(x)
  PROVE  GreedyFrom(Context)'
BY DEF GreedyFrom, Greedy

(* Another token that the model predicts.                                  *)
LEMMA GreedyAppend ==
  ASSUME NEW c \in Seq(Token), c # <<>>, prompted \in Nat, GreedyFrom(c),
         Greedy(c) \in Token
  PROVE  GreedyFrom(Append(c, Greedy(c)))
<1> DEFINE t == Greedy(c)
           a == Append(c, t)
<1>1. t \in Token /\ Len(c) \in Nat /\ t = Greedy(c)
  OBVIOUS
<1> HIDE DEF t
<1>2. a \in Seq(Token) /\ Len(a) = Len(c) + 1 /\ a[Len(c) + 1] = t
      /\ \A i \in 1 .. Len(c) : a[i] = c[i]
  BY <1>1
<1>3. ASSUME NEW n \in 0 .. Len(c) PROVE SubSeq(a, 1, n) = SubSeq(c, 1, n)
  <2>1. SubSeq(a, 1, n) \in Seq(Token) /\ SubSeq(c, 1, n) \in Seq(Token)
        /\ Len(SubSeq(a, 1, n)) = n /\ Len(SubSeq(c, 1, n)) = n
        /\ \A i \in 1 .. n : SubSeq(a, 1, n)[i] = SubSeq(c, 1, n)[i]
    BY <1>1, <1>2
  <2> QED BY <2>1, SeqEqual
<1>4. SubSeq(c, 1, Len(c)) = c
  OBVIOUS
<1> HIDE DEF a
<1>5. ASSUME NEW i \in prompted + 2 .. Len(a)
      PROVE  a[i] = Greedy(SubSeq(a, 1, i - 1))
  <2>1. i \in Nat /\ i - 1 \in 0 .. Len(c)
    BY <1>1, <1>2
  <2>2. SubSeq(a, 1, i - 1) = SubSeq(c, 1, i - 1)
    BY <1>3, <2>1
  <2>3. CASE i <= Len(c)
    <3>1. i \in prompted + 2 .. Len(c) /\ i \in 1 .. Len(c)
      BY <1>1, <2>1, <2>3
    <3>2. c[i] = Greedy(SubSeq(c, 1, i - 1))
      BY <3>1 DEF GreedyFrom
    <3> QED BY <1>2, <2>2, <3>1, <3>2
  <2>4. CASE ~(i <= Len(c))
    <3>1. i = Len(c) + 1 /\ i - 1 = Len(c)
      BY <1>1, <2>1, <2>4
    <3> QED BY <1>1, <1>2, <1>4, <2>2, <3>1
  <2> QED BY <2>3, <2>4
<1>6. GreedyFrom(a)
  BY <1>5 DEF GreedyFrom
<1> QED BY <1>6 DEF a, t

(* The part of a draft that the rows agree with continues the carried row. *)
LEMMA JudgedGreedy ==
  ASSUME prompted \in Nat, carry \in Seq(Token), draft \in Seq(Token), GreedyFrom(carry),
         carry # <<>>, draft # <<>>, draft[1] = Greedy(carry), Context = carry \o draft,
         \A i \in 1 .. Len(draft) : rows[i] = SubSeq(Context, 1, Len(carry) + i),
         NEW m \in 1 .. Len(draft), Agrees(m)
  PROVE  /\ rows[m] \in Seq(Token) /\ rows[m] # <<>> /\ Len(rows[m]) = Len(carry) + m
         /\ GreedyFrom(rows[m])
<1> DEFINE x == carry \o draft
           L == Len(carry)
           r == SubSeq(x, 1, L + m)
<1>1. L \in Nat /\ Len(draft) \in Nat /\ m \in Nat /\ 1 <= m /\ m <= Len(draft)
  OBVIOUS
<1>2. x \in Seq(Token) /\ Len(x) = L + Len(draft)
      /\ (\A i \in 1 .. L : x[i] = carry[i])
      /\ (\A j \in 1 .. Len(draft) : x[L + j] = draft[j])
  BY <1>1
<1>3. \A i \in 1 .. Len(draft) : rows[i] = SubSeq(x, 1, L + i)
  OBVIOUS
<1> HIDE DEF x
(* A prefix of a prefix.                                                   *)
<1>4. ASSUME NEW n \in 0 .. Len(draft) + L
      PROVE  /\ SubSeq(x, 1, n) \in Seq(Token) /\ Len(SubSeq(x, 1, n)) = n
             /\ \A i \in 1 .. n : SubSeq(x, 1, n)[i] = x[i]
  <2>1. n \in Nat /\ n <= Len(x)
    BY <1>1, <1>2
  <2> QED BY <1>2, <2>1
<1>5. r \in Seq(Token) /\ Len(r) = L + m /\ \A i \in 1 .. L + m : r[i] = x[i]
  <2>1. L + m \in 0 .. Len(draft) + L
    BY <1>1
  <2> QED BY <1>4, <2>1
<1> HIDE DEF r
<1>6. ASSUME NEW n \in 0 .. L + m PROVE SubSeq(r, 1, n) = SubSeq(x, 1, n)
  <2>1. n \in 0 .. Len(draft) + L /\ n \in Nat /\ n <= Len(r)
    BY <1>1, <1>5
  <2>2. /\ SubSeq(r, 1, n) \in Seq(Token) /\ Len(SubSeq(r, 1, n)) = n
        /\ \A i \in 1 .. n : SubSeq(r, 1, n)[i] = r[i]
    BY <1>5, <2>1
  <2>3. \A i \in 1 .. n : r[i] = x[i]
    BY <1>1, <1>5
  <2> QED BY <1>4, <2>1, <2>2, <2>3, SeqEqual
<1>7. ASSUME NEW n \in 0 .. L PROVE SubSeq(carry, 1, n) = SubSeq(x, 1, n)
  <2>1. n \in 0 .. Len(draft) + L /\ n \in Nat /\ n <= Len(carry)
    BY <1>1
  <2>2. /\ SubSeq(carry, 1, n) \in Seq(Token) /\ Len(SubSeq(carry, 1, n)) = n
        /\ \A i \in 1 .. n : SubSeq(carry, 1, n)[i] = carry[i]
    BY <2>1
  <2>3. \A i \in 1 .. n : carry[i] = x[i]
    BY <1>1, <1>2
  <2> QED BY <1>4, <2>1, <2>2, <2>3, SeqEqual
<1>8. SubSeq(carry, 1, L) = carry
  OBVIOUS
<1>9. \A i \in 1 .. m - 1 : Greedy(rows[i]) = draft[i + 1]
  BY DEF Agrees
<1> HIDE DEF L
<1>10. ASSUME NEW i \in prompted + 2 .. Len(r)
       PROVE  r[i] = Greedy(SubSeq(r, 1, i - 1))
  <2>1. i \in Nat /\ i \in 1 .. L + m /\ i - 1 \in 0 .. L + m
    BY <1>1, <1>5
  <2>2. r[i] = x[i] /\ SubSeq(r, 1, i - 1) = SubSeq(x, 1, i - 1)
    BY <1>5, <1>6, <2>1
  <2>3. CASE i <= L
    <3>1. i \in prompted + 2 .. Len(carry) /\ i \in 1 .. L /\ i - 1 \in 0 .. L
      BY <1>1, <2>1, <2>3 DEF L
    <3>2. carry[i] = Greedy(SubSeq(carry, 1, i - 1))
      BY <3>1 DEF GreedyFrom
    <3> QED BY <1>2, <1>7, <2>2, <3>1, <3>2
  <2>4. CASE i = L + 1
    <3>1. i - 1 = L /\ L \in 0 .. L /\ 1 \in 1 .. Len(draft)
      BY <1>1, <2>4
    <3>2. SubSeq(x, 1, i - 1) = carry
      BY <1>7, <1>8, <3>1
    <3>3. x[i] = draft[1]
      BY <1>2, <2>4, <3>1
    <3> QED BY <2>2, <3>2, <3>3
  <2>5. CASE i > L + 1
    <3>1. PICK j \in 1 .. m - 1 : i = L + (j + 1)
      <4>1. i - L - 1 \in 1 .. m - 1 /\ i = L + ((i - L - 1) + 1)
        BY <1>1, <2>1, <2>5
      <4> QED BY <4>1
    <3>2. j \in 1 .. Len(draft) /\ j + 1 \in 1 .. Len(draft) /\ i - 1 = L + j
      BY <1>1, <3>1
    <3>3. Greedy(rows[j]) = draft[j + 1] /\ rows[j] = SubSeq(x, 1, i - 1)
      BY <1>3, <1>9, <3>1, <3>2
    <3>4. x[i] = draft[j + 1]
      BY <1>2, <3>1, <3>2
    <3> QED BY <2>2, <3>3, <3>4
  <2> QED BY <1>1, <2>1, <2>3, <2>4, <2>5
<1>11. GreedyFrom(r)
  BY <1>10 DEF GreedyFrom
<1>12. rows[m] = r
  BY <1>3 DEF r
<1>13. Len(r) # 0
  BY <1>1, <1>5
<1> QED BY <1>5, <1>11, <1>12, <1>13 DEF L

-----------------------------------------------------------------------------
(* The inductive invariant holds at first and is kept by every call.       *)

(* What the lemmas below need of the types and the settings.               *)
LEMMA SpecFacts ==
  ASSUME SpecInv
  PROVE  /\ IInv /\ pos \in Nat /\ pos <= MaxCtx /\ MaxCtx \in Nat
         /\ LoopTypes /\ Len(draft) \in Nat /\ Len(rows) \in Nat
         /\ DraftK \in 1 .. 4 /\ NPredict \in Nat \ {0} /\ Window \in {2, 3}
         /\ driver \in {"tool", "cli"}
BY EngineTypes, EngineAssumption, SpecAssumption DEF SpecInv, LoopTypes, Setup

LEMMA ContextTokensNext ==
  ASSUME IInv', pos' <= MaxCtx
  PROVE  /\ Context' \in Seq(Token) /\ Len(Context') = pos' /\ pos' \in Nat
         /\ \A n \in 0 .. pos' :
              /\ View(kv', n) \in Seq(Token) /\ Len(View(kv', n)) = n
              /\ \A i \in 1 .. n : View(kv', n)[i] = Context'[i]
<1>1. Sound(Dev') /\ Dev'.kv = kv' /\ Dev'.pos = pos' /\ pos' \in Nat
  BY DEF IInv, Sound, State, Dev
<1>2. \A n \in 0 .. pos' :
        /\ View(kv', n) \in Seq(Token) /\ Len(View(kv', n)) = n
        /\ \A i \in 1 .. n : View(kv', n)[i] = View(kv', pos')[i]
  BY <1>1, ViewTokens
<1>3. pos' \in 0 .. pos'
  BY <1>1
<1> QED BY <1>1, <1>2, <1>3 DEF Context

LEMMA SpecInitInv == SpecInit => SpecInv
<1> SUFFICES ASSUME SpecInit PROVE SpecInv
  OBVIOUS
<1>1. IInv /\ pos = 0 /\ pending = None
  BY InitIInv DEF SpecInit, Init
<1>2. pos <= MaxCtx
  BY <1>1, EngineAssumption
<1>3. LoopTypes
  <2>1. DraftK \in Nat /\ NPredict \in Nat
    BY SpecAssumption
  <2>2. \A S : <<>> \in Seq(S) /\ Len(<<>>) = 0
    OBVIOUS
  <2> QED BY <2>1, <2>2 DEF SpecInit, LoopTypes, Setup
<1>4. Fresh /\ ToolInv /\ CliInv
  BY <1>1 DEF SpecInit, Fresh, ToolInv, CliInv, ToolLoop, ToolJudge, ToolCorrect
<1> QED BY <1>1, <1>2, <1>3, <1>4 DEF SpecInv

LEMMA PrefillPromptInv ==
  ASSUME SpecInv, ScratchFits, NEW p \in Prompts, PrefillPrompt(p)
  PROVE  SpecInv'
<1>1. /\ IInv /\ pos = 0 /\ pending = None /\ emitted = 0 /\ full = 0
      /\ attempted = 0 /\ accepted = 0
  BY DEF SpecInv, Fresh, PrefillPrompt
<1>2. p \in Seq(Token) /\ p # <<>> /\ Len(p) \in Nat \ {0}
  <2>1. p \in Seq(Token) /\ p # <<>>
    BY EngineAssumption
  <2> QED BY <2>1, EmptySeq
<1>3. IInv'
  BY <1>1, <1>2, PrefillIInv DEF PrefillPrompt
<1>4. /\ Transcript' = p /\ pos' = Len(p) /\ pending' = None /\ pos' <= MaxCtx
  BY <1>1, PrefillEmpty DEF PrefillPrompt
<1>5. /\ history' = p /\ prompted' = Len(p) /\ UNCHANGED <<setup, carry, draft, rows, counters>>
      /\ stage' = IF driver = "tool" THEN "init" ELSE "loop"
  BY DEF PrefillPrompt
<1>6. LoopTypes'
  BY <1>2, <1>5, SpecFacts DEF LoopTypes, Setup, setup, counters
<1>7. Fresh'
  BY <1>5 DEF Fresh
<1>8. ToolInv'
  BY <1>1, <1>2, <1>4, <1>5 DEF ToolInv, ToolLoop, ToolJudge, ToolCorrect, setup, counters
<1>9. CliInv'
  <2>1. Len(history') = Len(Transcript') /\ Len(history') \in Nat
    BY <1>2, <1>4, <1>5
  <2>2. attempted' = 0 /\ accepted' = 0
    BY <1>1, <1>5 DEF counters
  <2>3. Ahead(0)'
    BY <2>1, <2>2 DEF Ahead
  <2> QED BY <1>5, <2>3 DEF CliInv, setup
<1> QED BY <1>3, <1>4, <1>6, <1>7, <1>8, <1>9 DEF SpecInv

LEMMA HaltInv ==
  ASSUME SpecInv, stage # "prefill", Halt
  PROVE  SpecInv'
<1>1. IInv' /\ pos' <= MaxCtx
  BY StutterIInv DEF SpecInv, Halt, vars
<1>2. LoopTypes'
  BY DEF SpecInv, Halt, LoopTypes, Setup, setup, counters
<1>3. Fresh' /\ ToolInv' /\ CliInv'
  BY DEF SpecInv, Halt, Fresh, ToolInv, CliInv, ToolLoop, ToolJudge, ToolCorrect,
         setup, vars
<1> QED BY <1>1, <1>2, <1>3 DEF SpecInv

LEMMA InitStepInv ==
  ASSUME SpecInv, InitStep
  PROVE  SpecInv'
<1>1. driver = "tool"
  BY SpecFacts DEF InitStep, SpecInv, CliInv
<1>2. /\ pending = None /\ history # <<>> /\ prompted = pos /\ 0 < pos
      /\ emitted = 0 /\ full = 0
  BY <1>1 DEF InitStep, SpecInv, ToolInv
<1> DEFINE t == history[Len(history)]
<1>3. t \in Token
  <2>1. history \in Seq(Token) /\ Len(history) \in Nat /\ Len(history) # 0
    BY <1>2, SpecFacts, EmptySeq DEF LoopTypes
  <2> QED BY <2>1
<1> HIDE DEF t
<1>4. /\ IInv' /\ pos' = pos + 1 /\ pos' <= MaxCtx /\ pending' = None
      /\ logits' = Context'
  BY <1>2, <1>3, SpecFacts, StepAppends DEF InitStep, t
<1>5. /\ carry' = logits' /\ stage' = "loop"
      /\ UNCHANGED <<setup, history, prompted, draft, rows, counters>>
  BY DEF InitStep
<1>6. LoopTypes'
  BY <1>5, SpecFacts DEF LoopTypes, Setup, setup, counters
<1>7. ToolInv'
  <2>1. Len(Context') = pos' /\ pos \in Nat
    BY <1>4, ContextTokensNext, SpecFacts
  <2>2. GreedyFrom(Context)'
    BY <1>2, <1>4, <1>5, <2>1 DEF GreedyFrom
  <2>3. ToolLoop'
    BY <1>2, <1>4, <1>5, <2>1, <2>2 DEF ToolLoop, counters
  <2> QED BY <1>4, <1>5, <2>3 DEF ToolInv, ToolJudge, ToolCorrect
<1>8. Fresh' /\ CliInv'
  BY <1>1, <1>5 DEF Fresh, CliInv, setup
<1> QED BY <1>4, <1>6, <1>7, <1>8 DEF SpecInv

LEMMA StepCarryInv ==
  ASSUME SpecInv, StepCarry
  PROVE  SpecInv'
<1> DEFINE c == Greedy(carry)
<1>1. /\ driver = "tool" /\ stage = "loop" /\ emitted < NPredict /\ StepLogits(c)
      /\ carry' = logits' /\ history' = Append(history, c) /\ emitted' = emitted + 1
      /\ stage' = After(c)
      /\ UNCHANGED <<setup, prompted, draft, rows, attempted, accepted, full>>
  BY DEF StepCarry, LoopGoesOn
<1>2. /\ pending = None /\ carry = Context /\ prompted + 1 <= pos /\ GreedyFrom(Context)
      /\ emitted = pos - prompted - 1 + full
  BY <1>1 DEF SpecInv, ToolInv, ToolLoop
<1>3. Context \in Seq(Token) /\ Len(Context) = pos /\ prompted \in Nat /\ Context # <<>>
  <2>1. Context \in Seq(Token) /\ Len(Context) = pos /\ pos \in Nat /\ prompted \in Nat
    BY SpecFacts, ContextTokens DEF LoopTypes
  <2> QED BY <1>2, <2>1
<1>4. c \in Token /\ c = Greedy(Context)
  BY <1>2, <1>3, SpecFacts, GreedyIs DEF LoopTypes, Setup
<1> HIDE DEF c
<1>5. /\ IInv' /\ pos' = pos + 1 /\ pos' <= MaxCtx /\ pending' = None
      /\ logits' = Context' /\ Context' = Append(Context, c)
  BY <1>1, <1>2, <1>4, SpecFacts, StepAppends
<1>6. GreedyFrom(Context)'
  <2>1. GreedyFrom(Append(Context, c))
    BY <1>2, <1>3, <1>4, GreedyAppend
  <2> QED BY <1>1, <1>5, <2>1, GreedyNext DEF setup
<1>7. stage' \in {"loop", "done"}
  BY <1>1 DEF After
<1>8. LoopTypes'
  <2>1. history' \in Seq(Token)
    BY <1>1, <1>4, SpecFacts DEF LoopTypes
  <2>2. emitted' \in Nat /\ emitted' <= NPredict + DraftK
    BY <1>1, SpecFacts DEF LoopTypes
  <2> QED BY <1>1, <1>7, <2>1, <2>2, SpecFacts DEF LoopTypes, Setup, setup
<1>9. ToolInv'
  <2>a. full \in Nat /\ pos \in Nat /\ full' = full /\ prompted' = prompted
    BY <1>1, SpecFacts DEF LoopTypes
  <2>1. emitted' = pos' - prompted' - 1 + full' /\ prompted' + 1 <= pos'
    BY <1>1, <1>2, <1>3, <1>5, <2>a
  <2>2. ToolLoop'
    BY <1>1, <1>5, <1>6, <2>1 DEF ToolLoop
  <2> QED BY <1>5, <1>7, <2>2 DEF ToolInv, ToolJudge, ToolCorrect
<1>10. Fresh' /\ CliInv'
  BY <1>1, <1>7 DEF Fresh, CliInv, setup
<1> QED BY <1>5, <1>8, <1>9, <1>10 DEF SpecInv

(* The rows of a verify: a prefix of the context for every token fed.      *)
LEMMA RowsNext ==
  ASSUME IInv', pos' <= MaxCtx, NEW n \in Nat, n <= pos', rows' = RowsAfter(n)
  PROVE  /\ rows' \in Seq(Seq(Token)) /\ Len(rows') = n
         /\ \A i \in 1 .. n : /\ rows'[i] = View(kv', pos' - n + i)
                              /\ rows'[i] = SubSeq(Context', 1, pos' - n + i)
                              /\ Len(rows'[i]) = pos' - n + i
<1>1. /\ Context' \in Seq(Token) /\ Len(Context') = pos' /\ pos' \in Nat
      /\ \A k \in 0 .. pos' :
           /\ View(kv', k) \in Seq(Token) /\ Len(View(kv', k)) = k
           /\ \A i \in 1 .. k : View(kv', k)[i] = Context'[i]
  BY ContextTokensNext
<1>2. rows' = [i \in 1 .. n |-> View(kv', pos' - n + i)]
  BY DEF RowsAfter
<1>3. ASSUME NEW i \in 1 .. n
      PROVE  /\ View(kv', pos' - n + i) \in Seq(Token)
             /\ Len(View(kv', pos' - n + i)) = pos' - n + i
             /\ View(kv', pos' - n + i) = SubSeq(Context', 1, pos' - n + i)
  <2>1. PICK k \in 0 .. pos' : k = pos' - n + i
    <3>1. pos' - n + i \in 0 .. pos'
      BY <1>1
    <3> QED BY <3>1
  <2>2. /\ SubSeq(Context', 1, k) \in Seq(Token) /\ Len(SubSeq(Context', 1, k)) = k
        /\ \A j \in 1 .. k : SubSeq(Context', 1, k)[j] = Context'[j]
    BY <1>1
  <2>3. View(kv', k) = SubSeq(Context', 1, k)
    BY <1>1, <2>2, SeqEqual
  <2> QED BY <1>1, <2>1, <2>3
<1>4. rows' \in Seq(Seq(Token)) /\ Len(rows') = n
  <2>1. \A i \in 1 .. n : View(kv', pos' - n + i) \in Seq(Token)
    BY <1>3
  <2> QED BY <1>2, <2>1
<1> QED BY <1>2, <1>3, <1>4

LEMMA VerifyDraftInv ==
  ASSUME SpecInv, VerifyDraft
  PROVE  SpecInv'
<1>1. driver = "tool" /\ stage = "loop" /\ emitted < NPredict
  BY DEF VerifyDraft, LoopGoesOn
<1>2. PICK d \in {Drafted} :
        /\ d # <<>> /\ d[1] = Greedy(carry)
        /\ \/ VerifyTokens(d) /\ draft' = d /\ stage' = "judge"
              /\ UNCHANGED <<setup, history, prompted, carry, counters>>
           \/ pos + Len(d) > MaxCtx /\ Halt
  BY DEF VerifyDraft
<1>3. CASE Halt
  BY <1>1, <1>3, HaltInv
<1>4. CASE /\ VerifyTokens(d) /\ draft' = d /\ stage' = "judge"
           /\ UNCHANGED <<setup, history, prompted, carry, counters>>
  <2>1. /\ pending = None /\ carry = Context /\ prompted + 1 <= pos /\ GreedyFrom(Context)
        /\ emitted = pos - prompted - 1 + full
    BY <1>1 DEF SpecInv, ToolInv, ToolLoop
  <2>2. /\ Context \in Seq(Token) /\ Len(Context) = pos /\ pos \in Nat /\ prompted \in Nat
        /\ MaxCtx \in Nat /\ full \in Nat /\ DraftK \in Nat
    BY SpecFacts, ContextTokens DEF LoopTypes
  <2>3. d \in Seq(Token) /\ Len(d) \in 1 .. DraftK
    <3>1. history \in Seq(Token) /\ Window \in Nat \ {0} /\ DraftK \in Nat \ {0}
      <4>1. history \in Seq(Token)
        BY SpecFacts DEF LoopTypes
      <4> QED BY <4>1, SpecAssumption
    <3>2. d = Lookup(history, Window, DraftK)
      BY DEF Drafted
    <3> QED BY <1>2, <3>1, <3>2, LookupProposes
  <2>4. Flushed = Dev /\ pending' = None /\ pos + Len(d) <= MaxCtx
    BY <1>4, <2>1 DEF VerifyTokens, Verify, Flushed, Flushing
  <2>5. Synced(Flushed).pos = pos /\ Synced(Flushed).kv = kv
    BY <2>4, EngineTypes, SyncedSound DEF SpecInv, Synced, Dev
  <2>6. /\ IInv' /\ pos' = Synced(Flushed).pos + Len(d)
        /\ Context' = View(Synced(Flushed).kv, Synced(Flushed).pos) \o d
    BY <1>4, <2>3, <2>4, <2>5, VerifyAppends DEF SpecInv, VerifyTokens
  <2>7. pos' = pos + Len(d) /\ Context' = Context \o d /\ pos' <= MaxCtx
    BY <2>4, <2>5, <2>6 DEF Context
  <2>8. /\ rows' \in Seq(Seq(Token)) /\ Len(rows') = Len(d)
        /\ \A i \in 1 .. Len(d) : /\ rows'[i] = View(kv', pos' - Len(d) + i)
                                  /\ rows'[i] = SubSeq(Context', 1, pos' - Len(d) + i)
    <3>1. Len(d) \in Nat /\ Len(d) <= pos' /\ rows' = RowsAfter(Len(d))
      BY <1>4, <2>2, <2>3, <2>7 DEF VerifyTokens
    <3> QED BY <2>6, <2>7, <3>1, RowsNext
  <2>9. pos' - Len(d) = pos
    BY <2>2, <2>3, <2>7
  <2>10. LoopTypes'
    BY <1>1, <1>4, <2>2, <2>3, <2>8, SpecFacts DEF LoopTypes, Setup, setup, counters
  <2>11. carry' = carry /\ UNCHANGED <<oracle, prompted, emitted, full>>
    BY <1>4 DEF setup, counters
  <2>12. ToolJudge'
    <3>1. carry' \in Seq(Token) /\ Len(carry') = pos
      BY <2>1, <2>2, <2>11
    <3>2. GreedyFrom(carry)' /\ draft'[1] = Greedy(carry)'
      BY <1>2, <1>4, <2>1, <2>11 DEF GreedyFrom, Greedy
    <3>3. draft' # <<>> /\ Context' = carry' \o draft' /\ Len(rows') = Len(draft')
      BY <1>2, <1>4, <2>1, <2>7, <2>8, <2>11
    <3>4. \A i \in 1 .. Len(draft') :
            /\ rows'[i] = SubSeq(Context', 1, Len(carry') + i)
            /\ rows'[i] = View(kv', Len(carry') + i)
      BY <1>4, <2>8, <2>9, <3>1
    <3>5. prompted' + 1 <= Len(carry') /\ emitted' = Len(carry') - prompted' - 1 + full'
      BY <2>1, <2>11, <3>1
    <3> QED BY <3>1, <3>2, <3>3, <3>4, <3>5 DEF ToolJudge
  <2>13. ToolInv'
    BY <1>4, <2>4, <2>12 DEF ToolInv, ToolLoop, ToolCorrect
  <2>14. Fresh' /\ CliInv'
    BY <1>1, <1>4 DEF Fresh, CliInv, setup
  <2> QED BY <2>6, <2>7, <2>10, <2>13, <2>14 DEF SpecInv
<1> QED BY <1>2, <1>3, <1>4

(* How much of a draft the rows agree with: its first token at least.      *)
LEMMA MatchedIs ==
  ASSUME draft # <<>>, draft \in Seq(Token)
  PROVE  Matched \in 1 .. Len(draft) /\ Agrees(Matched)
<1> DEFINE S == {m \in 1 .. Len(draft) : Agrees(m)}
<1>1. Len(draft) \in Nat /\ 1 <= Len(draft)
  BY EmptySeq
<1>2. Agrees(1)
  BY DEF Agrees
<1>3. S \in SUBSET (0 .. Len(draft)) /\ S # {}
  BY <1>1, <1>2
<1>4. Matched = Last(S)
  BY DEF Matched
<1>5. Last(S) \in S
  <2> HIDE DEF S
  <2> QED BY <1>1, <1>3, LastIsMax
<1> HIDE DEF Matched
<1>6. Matched \in S
  BY <1>4, <1>5
<1> QED BY <1>6

(* What the verdict finds: the row after the part that agrees continues    *)
(* the carried one greedily, and is what a rollback to it would leave.     *)
LEMMA Verdict ==
  ASSUME SpecInv, driver = "tool", stage = "judge"
  PROVE  /\ Matched \in 1 .. Len(draft) /\ draft \in Seq(Token) /\ Len(draft) \in Nat
         /\ pending = None /\ carry \in Seq(Token) /\ pos = Len(carry) + Len(draft)
         /\ rows[Matched] \in Seq(Token) /\ rows[Matched] # <<>>
         /\ Len(rows[Matched]) = Len(carry) + Matched
         /\ GreedyFrom(rows[Matched]) /\ Greedy(rows[Matched]) \in Token
         /\ rows[Matched] = SubSeq(Context, 1, Len(carry) + Matched)
         /\ rows[Matched] = View(kv, Len(carry) + Matched)
         /\ prompted + 1 <= Len(carry) /\ prompted \in Nat
         /\ emitted = Len(carry) - prompted - 1 + full
<1>1. /\ pending = None /\ ToolJudge
  BY DEF SpecInv, ToolInv
<1>2. draft \in Seq(Token) /\ Len(draft) \in Nat /\ prompted \in Nat /\ full \in Nat
  BY SpecFacts DEF LoopTypes
<1>3. /\ carry \in Seq(Token) /\ prompted + 1 <= Len(carry) /\ GreedyFrom(carry)
      /\ draft # <<>> /\ draft[1] = Greedy(carry) /\ Context = carry \o draft
      /\ \A i \in 1 .. Len(draft) : rows[i] = SubSeq(Context, 1, Len(carry) + i)
      /\ \A i \in 1 .. Len(draft) : rows[i] = View(kv, Len(carry) + i)
      /\ emitted = Len(carry) - prompted - 1 + full
  BY <1>1 DEF ToolJudge
<1>4. carry # <<>>
  BY <1>2, <1>3
<1>5. Matched \in 1 .. Len(draft) /\ Agrees(Matched)
  BY <1>2, <1>3, MatchedIs
<1>6. /\ rows[Matched] \in Seq(Token) /\ rows[Matched] # <<>>
      /\ Len(rows[Matched]) = Len(carry) + Matched /\ GreedyFrom(rows[Matched])
  BY <1>2, <1>3, <1>4, <1>5, JudgedGreedy
<1>7. Greedy(rows[Matched]) \in Token
  BY <1>6, SpecFacts, GreedyIs DEF LoopTypes, Setup
<1>8. pos = Len(carry) + Len(draft)
  <2>1. Len(Context) = pos
    BY SpecFacts, ContextTokens
  <2> QED BY <1>2, <1>3, <2>1
<1> QED BY <1>1, <1>2, <1>3, <1>5, <1>6, <1>7, <1>8

LEMMA AcceptAllInv ==
  ASSUME SpecInv, AcceptAll
  PROVE  SpecInv'
<1> DEFINE b == Greedy(rows[Len(draft)])
<1>1. /\ driver = "tool" /\ stage = "judge" /\ Matched = Len(draft)
      /\ carry' = rows[Len(draft)] /\ history' = history \o Append(draft, b)
      /\ emitted' = emitted + Len(draft) + 1 /\ full' = full + 1 /\ stage' = After(b)
      /\ UNCHANGED <<vars, setup, prompted, draft, rows, attempted, accepted>>
  BY DEF AcceptAll
<1>2. /\ Len(draft) \in 1 .. Len(draft) /\ draft \in Seq(Token) /\ Len(draft) \in Nat
      /\ pending = None /\ carry \in Seq(Token) /\ pos = Len(carry) + Len(draft)
      /\ rows[Len(draft)] \in Seq(Token) /\ GreedyFrom(rows[Len(draft)]) /\ b \in Token
      /\ rows[Len(draft)] = SubSeq(Context, 1, Len(carry) + Len(draft))
      /\ prompted + 1 <= Len(carry) /\ prompted \in Nat
      /\ emitted = Len(carry) - prompted - 1 + full
  BY <1>1, Verdict
<1> HIDE DEF b
<1>3. rows[Len(draft)] = Context
  <2>1. Context \in Seq(Token) /\ Len(Context) = pos
    BY SpecFacts, ContextTokens
  <2> QED BY <1>2, <2>1
<1>4. IInv' /\ pos' <= MaxCtx /\ Context' = Context /\ pos' = pos /\ pending' = None
  BY <1>1, <1>2, StutterIInv, HoldingKept DEF SpecInv, vars
<1>5. stage' \in {"loop", "done"}
  BY <1>1 DEF After
<1>6. UNCHANGED <<oracle, driver, eos, prompted>>
  BY <1>1 DEF setup
<1>7. LoopTypes'
  <2>1. history' \in Seq(Token)
    <3>1. history \in Seq(Token) /\ Append(draft, b) \in Seq(Token)
      BY <1>2, SpecFacts DEF LoopTypes
    <3> QED BY <1>1, <3>1
  <2>2. emitted < NPredict /\ emitted \in Nat /\ full \in Nat /\ Len(draft) <= DraftK
    BY <1>1, SpecFacts DEF LoopTypes
  <2>3. emitted' \in Nat /\ emitted' <= NPredict + DraftK /\ full' \in Nat
    BY <1>1, <1>2, <2>2, SpecFacts
  <2>4. UNCHANGED <<oracle, driver, eos, prompted, draft, rows, attempted, accepted>>
    BY <1>1 DEF setup
  <2> QED BY <1>5, <2>1, <2>3, <2>4, SpecFacts DEF LoopTypes, Setup
<1>8. ToolInv'
  <2>1. GreedyFrom(Context)'
    <3>1. GreedyFrom(Context)
      BY <1>2, <1>3
    <3> QED BY <1>4, <1>6, <3>1, GreedyNext
  <2>2. full \in Nat
    BY SpecFacts DEF LoopTypes
  <2>3. emitted' = pos' - prompted' - 1 + full' /\ prompted' + 1 <= pos'
    <3>1. prompted' = prompted
      BY <1>6
    <3> QED BY <1>1, <1>2, <1>4, <2>2, <3>1
  <2>4. ToolLoop'
    BY <1>1, <1>3, <1>4, <2>1, <2>3 DEF ToolLoop
  <2> QED BY <1>4, <1>5, <2>4 DEF ToolInv, ToolJudge, ToolCorrect
<1>9. Fresh' /\ CliInv'
  BY <1>1, <1>5, <1>6 DEF Fresh, CliInv
<1> QED BY <1>4, <1>7, <1>8, <1>9 DEF SpecInv

LEMMA RejectTailInv ==
  ASSUME SpecInv, RejectTail
  PROVE  SpecInv'
<1> DEFINE q == pos - (Len(draft) - Matched)
<1>1. /\ driver = "tool" /\ stage = "judge" /\ Rollback(q) /\ stage' = "correct"
      /\ UNCHANGED <<setup, history, prompted, carry, draft, rows, counters>>
  BY DEF RejectTail
<1>2. /\ Matched \in 1 .. Len(draft) /\ draft \in Seq(Token) /\ Len(draft) \in Nat
      /\ pending = None /\ carry \in Seq(Token) /\ pos = Len(carry) + Len(draft)
      /\ rows[Matched] \in Seq(Token) /\ GreedyFrom(rows[Matched])
      /\ rows[Matched] = View(kv, Len(carry) + Matched)
      /\ prompted + 1 <= Len(carry) /\ prompted \in Nat
      /\ emitted = Len(carry) - prompted - 1 + full
  BY <1>1, Verdict
<1>3. q = Len(carry) + Matched /\ q \in 0 .. MaxCtx /\ q \in Nat
  BY <1>2, SpecFacts
<1> HIDE DEF q
<1>4. IInv'
  BY <1>1, <1>3, RollbackIInv, SpecFacts
<1>5. pos' = q /\ pending' = None /\ kv' = kv
  BY <1>1 DEF Rollback, MoveTo
<1>6. Context' = rows[Matched]
  BY <1>2, <1>3, <1>5, TranscriptHeld
<1>7. UNCHANGED <<oracle, driver, eos, history, prompted, draft, rows, emitted, full,
                  attempted, accepted>>
  BY <1>1 DEF setup, counters
<1>8. Matched' = Matched
  BY <1>7 DEF Matched, Agrees, Greedy
<1>9. LoopTypes'
  BY <1>1, <1>7, SpecFacts DEF LoopTypes, Setup
<1>10. ToolInv'
  <2>1. GreedyFrom(Context)'
    BY <1>2, <1>6, <1>7, GreedyNext
  <2>2. full \in Nat
    BY SpecFacts DEF LoopTypes
  <2>3. /\ emitted' = pos' - Matched' - prompted' - 1 + full' /\ prompted' + 1 <= pos'
    BY <1>2, <1>3, <1>5, <1>7, <1>8, <2>2
  <2>4. Matched' \in 1 .. Len(draft') /\ rows'[Matched'] = Context'
    BY <1>2, <1>6, <1>7, <1>8
  <2>5. ToolCorrect'
    BY <2>1, <2>3, <2>4 DEF ToolCorrect
  <2> QED BY <1>1, <1>5, <2>5 DEF ToolInv, ToolJudge, ToolLoop
<1>11. Fresh' /\ CliInv'
  BY <1>1, <1>7 DEF Fresh, CliInv
<1>12. pos' <= MaxCtx
  BY <1>3, <1>5, SpecFacts
<1> QED BY <1>4, <1>9, <1>10, <1>11, <1>12 DEF SpecInv

LEMMA CorrectInv ==
  ASSUME SpecInv, Correct
  PROVE  SpecInv'
<1> DEFINE c == Greedy(rows[Matched])
<1>1. driver = "tool" /\ stage = "correct"
  BY DEF Correct
<1>2. CASE Halt
  BY <1>1, <1>2, HaltInv
<1>3. CASE /\ StepLogits(c) /\ carry' = logits'
           /\ history' = history \o Append(SubSeq(draft, 1, Matched), c)
           /\ emitted' = emitted + Matched + 1 /\ stage' = After(c)
           /\ UNCHANGED <<setup, prompted, draft, rows, attempted, accepted, full>>
  <2>1. /\ pending = None /\ Matched \in 1 .. Len(draft) /\ rows[Matched] = Context
        /\ prompted + 1 <= pos /\ GreedyFrom(Context)
        /\ emitted = pos - Matched - prompted - 1 + full
    BY <1>1 DEF SpecInv, ToolInv, ToolCorrect
  <2>2. /\ Context \in Seq(Token) /\ Len(Context) = pos /\ prompted \in Nat /\ pos \in Nat
        /\ full \in Nat /\ draft \in Seq(Token) /\ Len(draft) \in Nat /\ history \in Seq(Token)
        /\ Len(draft) <= DraftK /\ emitted \in Nat /\ emitted < NPredict
    BY <1>1, SpecFacts, ContextTokens DEF LoopTypes
  <2>3. Context # <<>>
    BY <2>1, <2>2
  <2>4. c \in Token /\ c = Greedy(Context)
    BY <2>1, <2>2, <2>3, SpecFacts, GreedyIs DEF LoopTypes, Setup
  <2> HIDE DEF c
  <2>5. /\ IInv' /\ pos' = pos + 1 /\ pos' <= MaxCtx /\ pending' = None
        /\ logits' = Context' /\ Context' = Append(Context, c)
    BY <1>3, <2>1, <2>4, SpecFacts, StepAppends
  <2>6. UNCHANGED <<oracle, driver, eos, prompted, draft, rows, attempted, accepted, full>>
    BY <1>3 DEF setup
  <2>7. GreedyFrom(Context)'
    <3>1. GreedyFrom(Append(Context, c))
      BY <2>1, <2>2, <2>3, <2>4, GreedyAppend
    <3> QED BY <2>5, <2>6, <3>1, GreedyNext
  <2>8. stage' \in {"loop", "done"}
    BY <1>3 DEF After
  <2>9. LoopTypes'
    <3>1. history' \in Seq(Token)
      <4>1. PICK k \in 1 .. Len(draft) : k = Matched
        BY <2>1
      <4>2. SubSeq(draft, 1, k) \in Seq(Token)
        BY <2>2
      <4>3. Append(SubSeq(draft, 1, k), c) \in Seq(Token)
        BY <2>4, <4>2
      <4> QED BY <1>3, <2>2, <4>1, <4>3
    <3>2. emitted' \in Nat /\ emitted' <= NPredict + DraftK
      <4>1. emitted + Matched + 1 <= NPredict + DraftK
        BY <2>1, <2>2, SpecFacts
      <4> QED BY <1>3, <2>1, <2>2, <4>1
    <3> QED BY <2>6, <2>8, <3>1, <3>2, SpecFacts DEF LoopTypes, Setup
  <2>10. ToolInv'
    <3>1. emitted' = pos' - prompted' - 1 + full' /\ prompted' + 1 <= pos'
      BY <1>3, <2>1, <2>2, <2>5, <2>6
    <3>2. ToolLoop'
      BY <1>3, <2>5, <2>7, <3>1 DEF ToolLoop
    <3> QED BY <2>5, <2>8, <3>2 DEF ToolInv, ToolJudge, ToolCorrect
  <2>11. Fresh' /\ CliInv'
    BY <1>1, <2>6, <2>8 DEF Fresh, CliInv
  <2> QED BY <2>5, <2>9, <2>10, <2>11 DEF SpecInv
<1> QED BY <1>2, <1>3 DEF Correct

(* What is left of the context only shrinks.                               *)
LEMMA Slack ==
  /\ \A a, b, k, n \in Nat : a <= b /\ b + k + 2 <= n => a + k + 2 <= n
  /\ \A a, b, n \in Nat : a <= b /\ n <= 2 * a => n <= 2 * b
OBVIOUS

(* cli: a round that takes its token from engine_next.                     *)
LEMMA NextRound ==
  ASSUME SpecInv, driver = "cli", stage = "loop", emitted < NPredict, NextCall, Samples,
         LET t == Greedy(logits')
         IN IF t = eos THEN stage' = "done" /\ UNCHANGED <<history, emitted>>
            ELSE /\ history' = Append(history, t) /\ emitted' = emitted + 1
                 /\ UNCHANGED stage,
         UNCHANGED <<setup, prompted, carry, draft, rows, attempted, accepted, full>>
  PROVE  SpecInv'
<1> DEFINE t == Greedy(logits')
<1>1. /\ IInv' /\ pos' \in Nat /\ pos <= pos' /\ pos' <= MaxCtx
      /\ Len(Transcript') = Len(Transcript) + 1 /\ Len(Transcript) \in Nat /\ t \in Token
  BY SpecFacts, NextCallAppends
<1>2. \/ stage' = "done" /\ history' = history /\ emitted' = emitted
      \/ stage' = "loop" /\ history' = Append(history, t) /\ emitted' = emitted + 1
  OBVIOUS
<1> HIDE DEF t
<1>3. UNCHANGED <<oracle, driver, eos, prompted, draft, rows, attempted, accepted, full>>
  BY DEF setup
<1>4. history \in Seq(Token) /\ emitted \in Nat /\ attempted \in Int /\ accepted \in Int
  BY SpecFacts DEF LoopTypes
<1>5. LoopTypes'
  <2>1. history' \in Seq(Token)
    BY <1>1, <1>2, <1>4
  <2>2. NPredict \in Nat /\ DraftK \in Nat /\ 1 <= DraftK
    BY SpecAssumption
  <2>3. emitted' \in Nat /\ emitted' <= NPredict + DraftK
    BY <1>2, <1>4, <2>2
  <2> QED BY <1>2, <1>3, <2>1, <2>3, SpecFacts DEF LoopTypes, Setup
<1>6. CliInv'
  <2>1. Ahead(0)
    BY DEF SpecInv, CliInv
  <2>2. ASSUME stage' = "loop" PROVE Ahead(0)'
    <3>1. Len(history') = Len(history) + 1 /\ Len(history) \in Nat
      BY <1>1, <1>2, <1>4, <2>2
    <3>2. Len(history') + 0 <= Len(Transcript') \/ MaxCtx <= 2 * pos'
      BY <1>1, <2>1, <3>1, SpecFacts DEF Ahead
    <3>3. pos \in Nat /\ MaxCtx \in Nat /\ DraftK \in Nat
      BY SpecFacts
    <3>4. pos + DraftK + 2 <= MaxCtx =>
            Len(Transcript) - Len(history) = (attempted - accepted) + 0
      BY <2>1 DEF Ahead
    <3>5. attempted' = attempted /\ accepted' = accepted
      BY <1>3
    <3>6. pos' + DraftK + 2 <= MaxCtx => pos + DraftK + 2 <= MaxCtx
      BY <1>1, <3>3, Slack, Zenon
    <3>7. ASSUME pos' + DraftK + 2 <= MaxCtx
          PROVE  Len(Transcript') - Len(history') = (attempted' - accepted') + 0
      <4>1. Len(Transcript) - Len(history) = (attempted - accepted) + 0
        BY <3>4, <3>6, <3>7
      <4> QED BY <1>1, <1>4, <3>1, <3>5, <4>1
    <3> QED BY <3>2, <3>7 DEF Ahead
  <2> QED BY <1>2, <2>2 DEF CliInv
<1>7. Fresh' /\ ToolInv'
  BY <1>2, <1>3 DEF Fresh, ToolInv
<1> QED BY <1>1, <1>5, <1>6, <1>7 DEF SpecInv

LEMMA NextTokenInv ==
  ASSUME SpecInv, NextToken \/ VerifyRefused
  PROVE  SpecInv'
BY NextRound DEF NextToken, VerifyRefused, NextCall, LoopGoesOn

(* cli: the last token and the drafts.  A batch that the flush left no room*)
(* for goes over the tail, which drafts half a context away always have.   *)
LEMMA VerifyWithLastInv ==
  ASSUME SpecInv, CliBatches, VerifyWithLast
  PROVE  SpecInv'
<1>1. /\ driver = "cli" /\ stage = "loop" /\ emitted < NPredict /\ stage' = "judge"
      /\ UNCHANGED <<setup, history, prompted, carry, counters>>
  BY DEF VerifyWithLast, LoopGoesOn
<1>2. PICK d \in {Drafted} :
        /\ d # <<>> /\ VerifyTokens(<<history[Len(history)]>> \o d) /\ draft' = d
  BY DEF VerifyWithLast
<1>3. /\ history \in Seq(Token) /\ attempted \in Int /\ accepted \in Int
      /\ pos \in Nat /\ MaxCtx \in Nat /\ DraftK \in Nat
  BY SpecFacts DEF LoopTypes
<1>4. d \in Seq(Token) /\ Len(d) \in 1 .. DraftK /\ Len(d) + 4 <= Len(history)
  <2>1. Window \in Nat \ {0} /\ DraftK \in Nat \ {0} /\ Window >= 2
    BY SpecAssumption
  <2>2. d = Lookup(history, Window, DraftK)
    BY DEF Drafted
  <2>3. d \in Seq(Token) /\ Len(d) \in 1 .. DraftK /\ Len(d) + 2 * Window <= Len(history)
    BY <1>2, <1>3, <2>1, <2>2, LookupProposes
  <2>4. Len(d) \in Nat /\ Len(history) \in Nat /\ Window \in Nat
    BY <1>3, <2>1, <2>3
  <2> QED BY <2>1, <2>3, <2>4
<1> DEFINE h == history[Len(history)]
           c == <<h>> \o d
<1>5. c \in Seq(Token) /\ Len(c) = Len(d) + 1 /\ Len(d) \in Nat /\ Len(history) \in Nat
  <2>1. h \in Token
    BY <1>3, <1>4
  <2>2. <<h>> \in Seq(Token) /\ Len(<<h>>) = 1
    BY <2>1
  <2> QED BY <1>4, <2>2
<1>6. Verify(c) /\ rows' = RowsAfter(Len(c))
  BY <1>2 DEF VerifyTokens
<1> HIDE DEF c
<1>7. VerifyBatched(c)
  <2>1. SpecBatch /\ Batched
    BY <1>1, SpecFacts DEF CliBatches, LoopTypes, Setup
  <2> QED BY <1>4, <1>5, <2>1 DEF VerifyBatched
<1> DEFINE m == Synced(Flushed)
<1>8. /\ m.pos = (IF Flushing THEN pos + 1 ELSE pos) /\ pending \in Cell
      /\ pending' = (IF Flushing THEN None ELSE pending) /\ pos + Len(c) <= MaxCtx
      /\ Flushing => pending # None
  <2>1. Sound(Flushed) /\ pending \in Cell /\ Dev.pos = pos /\ Sound(Dev)
    BY SpecFacts, EngineTypes, FlushedSound DEF IInv
  <2>2. m.pos = Flushed.pos
    BY <2>1, SyncedSound
  <2>3. Flushed.pos = (IF Flushing THEN pos + 1 ELSE pos)
    <3>1. CASE Flushing
      <4>1. pending \in Token
        BY <2>1, <3>1 DEF Flushing, Cell
      <4> QED BY <2>1, <3>1, <4>1, AdvanceSound DEF Flushed
    <3>2. CASE ~Flushing
      BY <2>1, <3>2 DEF Flushed
    <3> QED BY <3>1, <3>2
  <2> QED BY <1>6, <2>1, <2>2, <2>3 DEF Verify, Flushing
<1> HIDE DEF m
<1>9. Ahead(0)
  BY <1>1 DEF SpecInv, CliInv
<1>10. Len(Transcript) = IF pending = None THEN pos ELSE pos + 1
  <2>1. kv \in [Row -> Cell]
    BY SpecFacts, EngineTypes
  <2> QED BY <1>3, <1>8, <2>1, HeldIs, TranscriptHeld
(* Either the batch is appended, or half the context is used.              *)
<1>11. /\ IInv' /\ pos' <= MaxCtx /\ Len(c) <= pos' /\ pos' \in Nat
       /\ \/ pos' = m.pos + Len(c)
          \/ MaxCtx <= 2 * pos' /\ ~(pos' + DraftK + 2 <= MaxCtx)
  <2>1. CASE m.pos + Len(c) <= MaxCtx
    <3>1. IInv' /\ pos' = m.pos + Len(c)
      BY <1>5, <1>6, <2>1, SpecFacts, VerifyAppends DEF m
    <3> QED BY <1>3, <1>5, <1>8, <2>1, <3>1
  <2>2. CASE ~(m.pos + Len(c) <= MaxCtx)
    <3>1. /\ m.pos = pos + 1 /\ pos + Len(c) = MaxCtx /\ Len(Transcript) = pos + 1
      BY <1>3, <1>5, <1>8, <1>10, <2>2
    <3>2. Len(c) <= pos
      <4>1. Len(history) <= pos + 1 \/ MaxCtx <= 2 * pos
        BY <1>3, <1>5, <1>9, <3>1 DEF Ahead
      <4> QED BY <1>3, <1>4, <1>5, <3>1, <4>1
    <3>3. m.pos + Len(c) > MaxCtx /\ Len(c) <= m.pos
      BY <1>3, <1>5, <3>1, <3>2
    <3>4. IInv' /\ pos' = m.pos
      BY <1>5, <1>6, <1>7, <3>3, SpecFacts, VerifyFallsBack DEF m
    <3> QED BY <1>3, <1>4, <1>5, <3>1, <3>2, <3>4
  <2> QED BY <2>1, <2>2
<1>12. /\ rows' \in Seq(Seq(Token)) /\ Len(rows') = Len(c)
       /\ \A i \in 1 .. Len(c) : Len(rows'[i]) = pos' - Len(c) + i
  <2>1. Len(c) \in Nat
    BY <1>5
  <2> QED BY <1>6, <1>11, <2>1, RowsNext
<1>13. UNCHANGED <<oracle, driver, eos, history, prompted, emitted, attempted, accepted, full>>
  BY <1>1 DEF setup, counters
<1>14. LoopTypes'
  <2>1. draft' \in Seq(Token) /\ Len(draft') <= DraftK
    BY <1>2, <1>4
  <2>2. rows' \in Seq(Seq(Token)) /\ Len(rows') <= DraftK + 1
    BY <1>3, <1>4, <1>5, <1>12
  <2> QED BY <1>1, <1>13, <2>1, <2>2, SpecFacts DEF LoopTypes, Setup
<1>15. Ahead(Len(draft) + 1)'
  <2>1. Len(Transcript') = IF pending' = None THEN pos' ELSE pos' + 1
    <3>1. kv' \in [Row -> Cell] /\ pos' \in Nat /\ pending' \in Cell
      BY <1>11 DEF IInv, Sound, State, Dev
    <3> QED BY <3>1, HeldIs, TranscriptHeld
  <2>2. draft' = d /\ history' = history /\ attempted' = attempted /\ accepted' = accepted
    BY <1>2, <1>13
  <2>3. CASE pos' = m.pos + Len(c)
    <3>1. /\ Len(Transcript') = Len(Transcript) + (Len(d) + 1) /\ Len(Transcript) \in Nat
          /\ pos' \in Nat /\ pos <= pos'
      BY <1>3, <1>5, <1>8, <1>10, <2>1, <2>3
    <3>2. Len(history) + 0 <= Len(Transcript) \/ MaxCtx <= 2 * pos
      BY <1>9 DEF Ahead
    <3>3. pos + DraftK + 2 <= MaxCtx =>
            Len(Transcript) - Len(history) = (attempted - accepted) + 0
      BY <1>9 DEF Ahead
    <3>4. Len(history) + (Len(d) + 1) <= Len(Transcript') \/ MaxCtx <= 2 * pos'
      <4>1. CASE Len(history) + 0 <= Len(Transcript)
        <5>1. Len(history) + (Len(d) + 1) <= Len(Transcript) + (Len(d) + 1)
          BY <1>5, <3>1, <4>1
        <5> QED BY <3>1, <5>1
      <4>2. CASE MaxCtx <= 2 * pos
        BY <1>3, <3>1, <4>2, Slack, Zenon
      <4> QED BY <3>2, <4>1, <4>2
    <3>5. pos' + DraftK + 2 <= MaxCtx => pos + DraftK + 2 <= MaxCtx
      BY <1>3, <3>1, Slack, Zenon
    <3>6. ASSUME pos' + DraftK + 2 <= MaxCtx
          PROVE  Len(Transcript') - Len(history) = (attempted - accepted) + (Len(d) + 1)
      <4>1. Len(Transcript) - Len(history) = (attempted - accepted) + 0
        BY <3>3, <3>5, <3>6
      <4> QED BY <1>3, <1>5, <3>1, <4>1
    <3> QED BY <2>2, <3>4, <3>6 DEF Ahead
  <2>4. CASE MaxCtx <= 2 * pos' /\ ~(pos' + DraftK + 2 <= MaxCtx)
    BY <2>4 DEF Ahead
  <2> QED BY <1>11, <2>3, <2>4
<1>16. CliInv'
  <2>1. draft' # <<>> /\ Len(rows') = Len(draft') + 1
    BY <1>2, <1>5, <1>12
  <2>2. ASSUME NEW i \in 1 .. Len(rows') PROVE rows'[i] # <<>>
    <3>1. Len(rows'[i]) = pos' - Len(c) + i /\ i \in Nat /\ 1 <= i
      BY <1>12
    <3>2. Len(rows'[i]) # 0
      BY <1>5, <1>11, <3>1
    <3> QED BY <3>2
  <2> QED BY <1>1, <1>15, <2>1, <2>2 DEF CliInv
<1>17. Fresh' /\ ToolInv'
  BY <1>1, <1>13 DEF Fresh, ToolInv
<1> QED BY <1>11, <1>14, <1>16, <1>17 DEF SpecInv

LEMMA AcceptInv ==
  ASSUME SpecInv, Accept
  PROVE  SpecInv'
<1> DEFINE a == CliAccepted
           j == IF a < Len(draft) THEN a + 1 ELSE Len(draft)
           c == Greedy(rows[j])
<1>1. /\ driver = "cli" /\ stage = "judge"
      /\ history' = history \o Append(SubSeq(draft, 1, a), c)
      /\ emitted' = emitted + a + 1
      /\ attempted' = attempted + Len(draft) + 1 /\ accepted' = accepted + a + 1
      /\ stage' = "loop"
      /\ UNCHANGED <<vars, setup, prompted, carry, draft, rows, full>>
  BY DEF Accept
<1>2. /\ draft # <<>> /\ Len(rows) = Len(draft) + 1
      /\ \A i \in 1 .. Len(rows) : rows[i] # <<>>
      /\ Ahead(Len(draft) + 1)
  BY <1>1 DEF SpecInv, CliInv
<1>3. /\ history \in Seq(Token) /\ attempted \in Int /\ accepted \in Int /\ emitted \in Nat
      /\ emitted < NPredict /\ draft \in Seq(Token) /\ rows \in Seq(Seq(Token))
      /\ Len(draft) <= DraftK
  BY <1>1, SpecFacts DEF LoopTypes
<1>4. Len(draft) \in Nat /\ 1 <= Len(draft)
  BY <1>2, <1>3, EmptySeq
<1>5. a \in 0 .. Len(draft)
  <2> DEFINE S == {m \in 0 .. Len(draft) : \A i \in 1 .. m : Greedy(rows[i + 1]) = draft[i]}
  <2>1. S \in SUBSET (0 .. Len(draft)) /\ 0 \in S
    BY <1>4
  <2>2. a = Last(S)
    BY DEF CliAccepted
  <2> HIDE DEF S, a
  <2>3. Last(S) \in S
    BY <1>4, <2>1, LastIsMax
  <2> QED BY <2>1, <2>2, <2>3
<1> HIDE DEF a
<1>6. j \in 1 .. Len(rows)
  BY <1>2, <1>4, <1>5
<1> HIDE DEF j
<1>7. c \in Token
  <2>1. rows[j] \in Seq(Token) /\ rows[j] # <<>>
    BY <1>2, <1>3, <1>6
  <2> QED BY <2>1, SpecFacts, GreedyIs DEF LoopTypes, Setup
<1> HIDE DEF c
<1>8. history' \in Seq(Token) /\ Len(history') = Len(history) + a + 1 /\ Len(history) \in Nat
  <2>1. PICK k \in 0 .. Len(draft) : k = a
    BY <1>5
  <2>2. SubSeq(draft, 1, k) \in Seq(Token) /\ Len(SubSeq(draft, 1, k)) = k
    BY <1>3, <1>4
  <2>3. /\ Append(SubSeq(draft, 1, k), c) \in Seq(Token)
        /\ Len(Append(SubSeq(draft, 1, k), c)) = k + 1
    BY <1>7, <2>2
  <2> QED BY <1>1, <1>3, <2>1, <2>3
<1>9. UNCHANGED <<oracle, driver, eos, prompted, draft, rows, full, pos>>
  BY <1>1 DEF setup, vars
<1>10. IInv' /\ pos' <= MaxCtx /\ Transcript' = Transcript
  BY <1>1, StutterIInv, HoldingKept DEF SpecInv, vars
<1>11. LoopTypes'
  <2>1. emitted' \in Nat /\ emitted' <= NPredict + DraftK /\ attempted' \in Int
        /\ accepted' \in Int
    BY <1>1, <1>3, <1>4, <1>5, SpecFacts
  <2> QED BY <1>1, <1>8, <1>9, <2>1, SpecFacts DEF LoopTypes, Setup
<1>12. Ahead(0)'
  <2>1. Len(Transcript) \in Nat
    BY SpecFacts, EngineTypes, HeldIs, TranscriptHeld
  <2>2. Len(history') + 0 <= Len(Transcript) \/ MaxCtx <= 2 * pos
    BY <1>2, <1>4, <1>5, <1>8, <2>1, SpecFacts DEF Ahead
  <2>3. ASSUME pos + DraftK + 2 <= MaxCtx
        PROVE  Len(Transcript) - Len(history') = (attempted' - accepted') + 0
    <3>1. Len(Transcript) - Len(history) = (attempted - accepted) + (Len(draft) + 1)
      BY <1>2, <2>3 DEF Ahead
    <3>2. /\ Len(Transcript) \in Int /\ Len(history) \in Int /\ attempted \in Int
          /\ accepted \in Int /\ Len(draft) \in Int /\ a \in Int
      BY <1>3, <1>4, <1>5, <1>8, <2>1
    <3>3. Len(Transcript) - (Len(history) + a + 1)
            = ((attempted + Len(draft) + 1) - (accepted + a + 1)) + 0
      BY <3>1, <3>2
    <3>4. /\ Len(history') = Len(history) + a + 1 /\ attempted' = attempted + Len(draft) + 1
          /\ accepted' = accepted + a + 1
      BY <1>1, <1>8
    <3> QED BY <3>3, <3>4, Zenon
  <2> QED BY <1>9, <1>10, <2>2, <2>3 DEF Ahead
<1>13. Fresh' /\ ToolInv' /\ CliInv'
  BY <1>1, <1>9, <1>12 DEF Fresh, ToolInv, CliInv
<1> QED BY <1>10, <1>11, <1>13 DEF SpecInv

(* The driver never changes, so the tool alone needs no batched verify.    *)
LEMMA SpecNextInv ==
  ASSUME SpecInv, ScratchFits, driver = "cli" => CliBatches, [SpecNext]_specAll
  PROVE  SpecInv'
<1>1. ASSUME NEW p \in Prompts, PrefillPrompt(p) PROVE SpecInv'
  BY <1>1, PrefillPromptInv
<1>2. CASE InitStep
  BY <1>2, InitStepInv
<1>3. CASE LoopEnds
  BY <1>3, HaltInv DEF LoopEnds
<1>4. CASE StepCarry
  BY <1>4, StepCarryInv
<1>5. CASE VerifyDraft
  BY <1>5, VerifyDraftInv
<1>6. CASE AcceptAll
  BY <1>6, AcceptAllInv
<1>7. CASE RejectTail
  BY <1>7, RejectTailInv
<1>8. CASE Correct
  BY <1>8, CorrectInv
<1>9. CASE NextToken \/ VerifyRefused
  BY <1>9, NextTokenInv
<1>10. CASE VerifyWithLast
  BY <1>10, VerifyWithLastInv DEF VerifyWithLast
<1>11. CASE Accept
  BY <1>11, AcceptInv
<1>12. CASE UNCHANGED specAll
  <2>1. UNCHANGED vars /\ UNCHANGED specVars
    BY <1>12 DEF specAll
  <2>2. IInv' /\ pos' <= MaxCtx /\ Transcript' = Transcript /\ Context' = Context
    BY <2>1, StutterIInv, HoldingKept DEF SpecInv, vars
  <2>3. LoopTypes'
    BY <2>1 DEF SpecInv, LoopTypes, Setup, specVars, setup
  <2>4. Fresh'
    BY <2>1 DEF SpecInv, Fresh, specVars, setup, vars
  <2>5. UNCHANGED <<oracle, driver, stage, history, prompted, carry, draft, rows, emitted,
                    attempted, accepted, full, pos, kv, pending>>
    BY <2>1 DEF specVars, setup, vars
  <2>6. ToolInv'
    <3>1. Matched' = Matched
      BY <2>5 DEF Matched, Agrees, Greedy
    <3>2. GreedyFrom(Context)' <=> GreedyFrom(Context)
      BY <2>2, <2>5 DEF GreedyFrom, Greedy
    <3>3. (GreedyFrom(carry)' <=> GreedyFrom(carry)) /\ Greedy(carry)' = Greedy(carry)
      BY <2>5 DEF GreedyFrom, Greedy
    <3>4. ToolLoop => ToolLoop'
      BY <2>2, <2>5, <3>2 DEF ToolLoop
    <3>5. ToolJudge => ToolJudge'
      BY <2>2, <2>5, <3>3 DEF ToolJudge
    <3>6. ToolCorrect => ToolCorrect'
      BY <2>2, <2>5, <3>1, <3>2 DEF ToolCorrect
    <3> QED BY <2>5, <3>4, <3>5, <3>6 DEF SpecInv, ToolInv
  <2>7. CliInv'
    BY <2>2, <2>5 DEF SpecInv, CliInv, Ahead
  <2> QED BY <2>2, <2>3, <2>4, <2>6, <2>7 DEF SpecInv
<1> QED
  BY <1>1, <1>2, <1>3, <1>4, <1>5, <1>6, <1>7, <1>8, <1>9, <1>10, <1>11, <1>12 DEF SpecNext

-----------------------------------------------------------------------------
(* The theorems.                                                           *)

(* With a batched verify, the loops keep the invariant whichever drives.   *)
LEMMA SpecInvariant ==
  ASSUME ScratchFits, CliBatches
  PROVE  SpecSpec => []SpecInv
<1>1. SpecInit => SpecInv
  BY SpecInitInv
<1>2. SpecInv /\ [SpecNext]_specAll => SpecInv'
  BY SpecNextInv
<1> QED BY <1>1, <1>2, PTL DEF SpecSpec

(* The tool's verify, rollback and correction leave the engine holding a   *)
(* greedy continuation of its prompt whatever was drafted, and the carried *)
(* row is the one after it; nothing is asked of how the verify runs.       *)
THEOREM ToolStaysGreedy ==
  ASSUME ScratchFits
  PROVE  SpecSpec => []ContextStaysGreedy
<1> DEFINE Tooled == driver \in {"tool", "cli"} /\ (driver = "tool" => SpecInv)
<1>1. SpecInit => Tooled
  BY SpecInitInv, SpecAssumption DEF SpecInit
<1>2. Tooled /\ [SpecNext]_specAll => Tooled'
  <2> SUFFICES ASSUME Tooled, [SpecNext]_specAll PROVE Tooled'
    OBVIOUS
  <2>1. driver' = driver
    BY DEF SpecNext, specAll, specVars, setup, PrefillPrompt, InitStep, LoopEnds, Halt,
           StepCarry, VerifyDraft, AcceptAll, RejectTail, Correct, NextToken,
           VerifyWithLast, VerifyRefused, Accept
  <2>2. driver = "tool" => SpecInv'
    BY SpecNextInv
  <2> QED BY <2>1, <2>2
<1>3. Tooled => ContextStaysGreedy
  <2> SUFFICES ASSUME SpecInv, driver = "tool", stage = "loop"
               PROVE  /\ \A i \in prompted + 2 .. pos :
                           Context[i] = Greedy(SubSeq(Context, 1, i - 1))
                      /\ carry = Context
    BY DEF ContextStaysGreedy
  <2>1. GreedyFrom(Context) /\ carry = Context
    BY DEF SpecInv, ToolInv, ToolLoop
  <2>2. Len(Context) = pos
    BY SpecFacts, ContextTokens
  <2> QED BY <2>1, <2>2 DEF GreedyFrom
<1> HIDE DEF Tooled
<1> QED BY <1>1, <1>2, <1>3, PTL DEF SpecSpec

(* Both loops count what their engine did: the tool the tokens it decoded, *)
(* the cli how far its engine ran ahead of the transcript.                 *)
THEOREM CountsAreTrue ==
  ASSUME ScratchFits, CliBatches
  PROVE  SpecSpec => []CountersMean
<1>1. SpecInv => SpecTypeOK
  BY DEF SpecInv, SpecTypeOK, LoopTypes, Setup, IInv, Sound, State, Dev, SlotsOK, TypeOK
<1>2. SpecInv => EmittedCounted
  BY DEF SpecInv, EmittedCounted, ToolInv, ToolLoop
<1>3. SpecInv => DriftIsRejected
  <2> SUFFICES ASSUME SpecInv, driver = "cli", stage = "loop", pos + DraftK + 2 <= MaxCtx
               PROVE  Len(Transcript) - Len(history) = attempted - accepted
    BY DEF DriftIsRejected
  <2>1. Len(Transcript) - Len(history) = (attempted - accepted) + 0
    BY DEF SpecInv, CliInv, Ahead
  <2>2. attempted \in Int /\ accepted \in Int
    BY SpecFacts DEF LoopTypes
  <2> QED BY <2>1, <2>2
<1>4. SpecInv => CountersMean
  BY <1>1, <1>2, <1>3 DEF CountersMean
<1> QED BY <1>4, SpecInvariant, PTL

(* Neither drafter invents: the ring of tt_ngram_draft gives what a plain  *)
(* history of its last tokens would, and ngram_lookup_draft copies what    *)
(* followed an earlier copy of the window.                                 *)
THEOREM DraftsContinue ==
  ASSUME ScratchFits, CliBatches
  PROVE  SpecSpec => []DraftsAreContinuations
<1>1. SpecInv => DraftsAreContinuations
  <2> SUFFICES ASSUME SpecInv, NEW k \in 1 .. DraftK
               PROVE  /\ \A cap \in Window + k + 1 .. MaxCtx :
                           RingDraft(history, cap, Window, k)
                             = Continuation(Recent(history, cap), Window, k)
                      /\ LET d == Lookup(history, Window, k)
                         IN d # <<>> => \E c \in Window .. Len(history) - Window :
                              /\ SubSeq(history, c - Window + 1, c) = Recent(history, Window)
                              /\ d = SubSeq(history, c + 1, c + Len(d))
    BY DEF DraftsAreContinuations
  <2>1. history \in Seq(Token)
    BY SpecFacts DEF LoopTypes
  <2>2. Window \in Nat \ {0} /\ k \in Nat \ {0} /\ MaxCtx \in Nat
    BY SpecAssumption, EngineAssumption
  <2>3. \A cap \in Window + k + 1 .. MaxCtx : cap \in Nat \ {0}
    BY <2>2
  <2>4. \A cap \in Window + k + 1 .. MaxCtx :
          RingDraft(history, cap, Window, k) = Continuation(Recent(history, cap), Window, k)
    BY <2>1, <2>2, <2>3, RingIsContinuation
  <2>5. ASSUME NEW d, d = Lookup(history, Window, k), d # <<>>
        PROVE  \E c \in Window .. Len(history) - Window :
                 /\ SubSeq(history, c - Window + 1, c) = Recent(history, Window)
                 /\ d = SubSeq(history, c + 1, c + Len(d))
    <3>1. Window \in Nat \ {0} /\ k \in Nat \ {0}
      BY <2>2
    <3>2. CopiedFrom(history, Window, d)
      BY <2>1, <2>5, <3>1, LookupProposes
    <3> QED BY <3>2, Zenon DEF CopiedFrom
  <2> QED BY <2>4, <2>5, Zenon
<1> QED BY <1>1, SpecInvariant, PTL

=============================================================================
