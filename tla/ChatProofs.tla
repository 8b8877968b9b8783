---------------------------- MODULE ChatProofs ------------------------------
(***************************************************************************)
(* What holds of Chat for every family, conversation, vocabulary, set of   *)
(* stop strings and size of its buffers, and every capacity of the engine. *)
(***************************************************************************)
EXTENDS Chat, EngineProofs, WellFoundedInduction, FiniteSetTheorems

-----------------------------------------------------------------------------
(* Numbers.                                                                *)

(* Induction, for a set of numbers.                                        *)
LEMMA Upwards ==
  ASSUME NEW S, 0 \in S, \A n \in Nat : n \in S => n + 1 \in S
  PROVE  \A n \in Nat : n \in S
<1> DEFINE T == {n \in Nat : n \notin S}
           R == OpToRel(<, Nat)
<1>1. SUFFICES ASSUME T # {} PROVE FALSE
  OBVIOUS
<1>2. IsWellFoundedOn(R, Nat)
  BY NatLessThanWellFounded
<1>3. T \subseteq Nat
  OBVIOUS
<1> HIDE DEF R
<1>4. PICK n \in T : \A m \in T : ~(<<m, n>> \in R)
  BY <1>1, <1>2, <1>3, WFMin
<1>5. n \in Nat \ {0} /\ n - 1 \in Nat /\ n - 1 < n
  OBVIOUS
<1>6. <<n - 1, n>> \in R
  BY <1>5 DEF R, OpToRel
<1>7. n - 1 \in S
  BY <1>4, <1>5, <1>6
<1>8. (n - 1) + 1 \in S
  BY <1>5, <1>7
<1> QED BY <1>5, <1>8

(* Numbers up to a bound have a least and a greatest one.                  *)
LEMMA Extremes ==
  ASSUME NEW n \in Nat, NEW S, S \subseteq 1 .. n, S # {}
  PROVE  /\ \E i \in S : \A j \in S : i <= j
         /\ \E i \in S : \A j \in S : j <= i
<1> DEFINE R == OpToRel(<, Nat)
           D == {n - i : i \in S}
<1>1. IsWellFoundedOn(R, Nat)
  BY NatLessThanWellFounded
<1>2. S \subseteq Nat /\ D \subseteq Nat /\ D # {}
  <2>1. PICK i \in S : TRUE
    OBVIOUS
  <2>2. n - i \in D
    OBVIOUS
  <2> QED BY <2>2
<1>3. \A i, j \in Nat : <<i, j>> \in R <=> i < j
  BY DEF OpToRel
<1> HIDE DEF R, D
<1>4. PICK i \in S : \A j \in S : ~(<<j, i>> \in R)
  BY <1>1, <1>2, WFMin
<1>5. PICK d \in D : \A e \in D : ~(<<e, d>> \in R)
  BY <1>1, <1>2, WFMin
<1>6. PICK k \in S : d = n - k
  BY DEF D
<1>7. ASSUME NEW j \in S PROVE j <= k
  <2>1. n - j \in D
    BY DEF D
  <2>2. ~(n - j < n - k)
    BY <1>2, <1>3, <1>5, <1>6, <2>1
  <2> QED BY <2>2
<1>8. ASSUME NEW j \in S PROVE i <= j
  <2>1. i \in Nat /\ j \in Nat /\ ~(j < i)
    BY <1>2, <1>3, <1>4
  <2> QED BY <2>1
<1> QED BY <1>7, <1>8

-----------------------------------------------------------------------------
(* Texts put together from pieces.                                         *)

(* f[i] is the first i pieces of s, joined.                                *)
Chain(s, n, f) ==
  f = [i \in 1 .. n |-> IF i = 1 THEN s[i] ELSE f[i - 1] \o s[i]]

LEMMA ChainExists ==
  ASSUME NEW s
  PROVE  \A n \in Nat : \E f : Chain(s, n, f)
<1> DEFINE S == {n \in Nat : \E f : Chain(s, n, f)}
<1>1. 0 \in S
  <2>1. \A f : 1 .. 0 = {} /\ [i \in 1 .. 0 |-> IF i = 1 THEN s[i] ELSE f[i - 1] \o s[i]] = <<>>
    OBVIOUS
  <2>2. Chain(s, 0, <<>>)
    BY <2>1 DEF Chain
  <2> QED BY <2>2
<1>2. ASSUME NEW n \in Nat, n \in S PROVE n + 1 \in S
  <2>1. PICK f : Chain(s, n, f)
    BY <1>2
  <2> DEFINE g == [i \in 1 .. n + 1 |-> IF i = 1 THEN s[i] ELSE f[i - 1] \o s[i]]
  <2>2. ASSUME NEW j \in 1 .. n PROVE f[j] = g[j]
    <3>1. f[j] = IF j = 1 THEN s[j] ELSE f[j - 1] \o s[j]
      BY <2>1 DEF Chain
    <3>2. j \in 1 .. n + 1
      OBVIOUS
    <3> QED BY <3>1, <3>2
  <2>3. ASSUME NEW i \in 1 .. n + 1, i # 1 PROVE f[i - 1] = g[i - 1]
    <3>1. i - 1 \in 1 .. n
      BY <2>3
    <3> QED BY <2>2, <3>1
  <2>4. g = [i \in 1 .. n + 1 |-> IF i = 1 THEN s[i] ELSE g[i - 1] \o s[i]]
    <3> DEFINE h == [i \in 1 .. n + 1 |-> IF i = 1 THEN s[i] ELSE g[i - 1] \o s[i]]
    <3>1. \A i \in 1 .. n + 1 : g[i] = h[i]
      BY <2>3
    <3> QED BY <3>1
  <2> HIDE DEF g
  <2>5. Chain(s, n + 1, g)
    BY <2>4 DEF Chain
  <2> QED BY <2>5
<1> HIDE DEF S
<1>3. \A n \in Nat : n \in S
  BY <1>1, <1>2, Upwards
<1> QED BY <1>3 DEF S

(* Two chains over pieces that agree, agree; and join what they are to.    *)
LEMMA ChainsAgree ==
  ASSUME NEW s, NEW r, NEW f, NEW g, NEW n \in Nat, NEW m \in Nat, n <= m,
         \A i \in 1 .. n : s[i] = r[i], Chain(s, n, f), Chain(r, m, g)
  PROVE  \A i \in 1 .. n : f[i] = g[i]
<1> DEFINE S == {i \in Nat : i \in 1 .. n => f[i] = g[i]}
<1>1. 0 \in S
  OBVIOUS
<1>2. ASSUME NEW i \in Nat, i \in S PROVE i + 1 \in S
  <2> SUFFICES ASSUME i + 1 \in 1 .. n PROVE f[i + 1] = g[i + 1]
    OBVIOUS
  <2>1. i + 1 \in 1 .. m /\ (i + 1) - 1 = i /\ (i + 1 # 1 => i \in 1 .. n)
    OBVIOUS
  <2>2. f[i + 1] = IF i + 1 = 1 THEN s[i + 1] ELSE f[i] \o s[i + 1]
    BY <2>1 DEF Chain
  <2>3. g[i + 1] = IF i + 1 = 1 THEN r[i + 1] ELSE g[i] \o r[i + 1]
    BY <2>1 DEF Chain
  <2> QED BY <1>2, <2>1, <2>2, <2>3
<1> HIDE DEF S
<1>3. \A i \in Nat : i \in S
  BY <1>1, <1>2, Upwards
<1> QED BY <1>3 DEF S

LEMMA ChainTyped ==
  ASSUME NEW T, NEW s, NEW f, NEW n \in Nat, \A i \in 1 .. n : s[i] \in Seq(T), Chain(s, n, f)
  PROVE  \A i \in 1 .. n : f[i] \in Seq(T)
<1> DEFINE S == {i \in Nat : i \in 1 .. n => f[i] \in Seq(T)}
<1>1. 0 \in S
  OBVIOUS
<1>2. ASSUME NEW i \in Nat, i \in S PROVE i + 1 \in S
  <2> SUFFICES ASSUME i + 1 \in 1 .. n PROVE f[i + 1] \in Seq(T)
    OBVIOUS
  <2>1. (i + 1) - 1 = i /\ (i + 1 # 1 => i \in 1 .. n)
    OBVIOUS
  <2>2. f[i + 1] = IF i + 1 = 1 THEN s[i + 1] ELSE f[i] \o s[i + 1]
    BY <2>1 DEF Chain
  <2>3. s[i + 1] \in Seq(T)
    OBVIOUS
  <2>4. CASE i + 1 = 1
    BY <2>2, <2>3, <2>4
  <2>5. CASE i + 1 # 1
    <3>1. f[i] \in Seq(T) /\ f[i + 1] = f[i] \o s[i + 1]
      BY <1>2, <2>1, <2>2, <2>5
    <3> QED BY <2>3, <3>1, ConcatProperties
  <2> QED BY <2>4, <2>5
<1> HIDE DEF S
<1>3. \A i \in Nat : i \in S
  BY <1>1, <1>2, Upwards
<1> QED BY <1>3 DEF S

LEMMA FlatChain ==
  ASSUME NEW T, NEW s \in Seq(T), Len(s) # 0
  PROVE  \E f : Chain(s, Len(s), f) /\ FlattenSeq(s) = f[Len(s)]
<1>1. Len(s) \in Nat
  OBVIOUS
<1>2. \E f : Chain(s, Len(s), f)
  BY <1>1, ChainExists
<1> DEFINE flatten == CHOOSE f : Chain(s, Len(s), f)
<1>3. Chain(s, Len(s), flatten)
  BY <1>2
<1>4. FlattenSeq(s) = flatten[Len(s)]
  BY DEF FlattenSeq, Chain
<1> QED BY <1>3, <1>4

(* What joining pieces gives: a text, and a piece more is appended to it.  *)
LEMMA FlatEmpty == FlattenSeq(<<>>) = <<>>
BY DEF FlattenSeq

LEMMA FlatTyped ==
  ASSUME NEW T, NEW s \in Seq(Seq(T))
  PROVE  FlattenSeq(s) \in Seq(T)
<1>1. Len(s) \in Nat /\ \A i \in 1 .. Len(s) : s[i] \in Seq(T)
  OBVIOUS
<1>2. CASE Len(s) = 0
  <2>1. s = <<>>
    BY <1>2, EmptySeq
  <2>2. FlattenSeq(s) = <<>>
    BY <2>1, FlatEmpty
  <2> QED BY <2>2
<1>3. CASE Len(s) # 0
  <2>1. PICK f : Chain(s, Len(s), f) /\ FlattenSeq(s) = f[Len(s)]
    BY <1>3, FlatChain
  <2>2. Len(s) \in 1 .. Len(s)
    BY <1>1, <1>3
  <2> QED BY <1>1, <2>1, <2>2, ChainTyped
<1> QED BY <1>2, <1>3

LEMMA FlatAppend ==
  ASSUME NEW T, NEW s \in Seq(Seq(T)), NEW x \in Seq(T)
  PROVE  FlattenSeq(Append(s, x)) = FlattenSeq(s) \o x
<1> DEFINE r == Append(s, x)
           n == Len(s)
<1>1. /\ r \in Seq(Seq(T)) /\ n \in Nat /\ Len(r) = n + 1 /\ r[n + 1] = x
      /\ \A i \in 1 .. n : s[i] = r[i]
  BY AppendProperties
<1> HIDE DEF r
<1>2. PICK g : Chain(r, Len(r), g) /\ FlattenSeq(r) = g[Len(r)]
  BY <1>1, FlatChain
<1>3. FlattenSeq(r) = IF n + 1 = 1 THEN r[n + 1] ELSE g[(n + 1) - 1] \o r[n + 1]
  <2>1. n + 1 \in 1 .. n + 1
    BY <1>1
  <2> QED BY <1>1, <1>2, <2>1 DEF Chain
<1>4. CASE n = 0
  <2>1. s = <<>>
    BY <1>4, EmptySeq
  <2>2. FlattenSeq(s) \o x = x
    BY <2>1, FlatEmpty, ConcatEmptySeq
  <2> QED BY <1>1, <1>3, <1>4, <2>2 DEF r
<1>5. CASE n # 0
  <2>1. PICK f : Chain(s, n, f) /\ FlattenSeq(s) = f[n]
    BY <1>5, FlatChain
  <2>2. n \in 1 .. n /\ (n + 1) - 1 = n /\ n + 1 # 1 /\ n <= Len(r)
    BY <1>1, <1>5
  <2>3. f[n] = g[n]
    <3> HIDE DEF n
    <3>1. n \in Nat /\ Len(r) \in Nat /\ n <= Len(r)
      BY <1>1
    <3>2. Chain(s, n, f) /\ Chain(r, Len(r), g) /\ \A i \in 1 .. n : s[i] = r[i]
      BY <1>1, <1>2, <2>1
    <3> HIDE DEF r, n
    <3>3. PICK m \in Nat : m = Len(r)
      BY <3>1
    <3>4. n \in Nat /\ n <= m /\ Chain(s, n, f) /\ Chain(r, m, g)
      BY <3>1, <3>2, <3>3
    <3>5. \A i \in 1 .. n : s[i] = r[i]
      BY <3>2
    <3>6. \A i \in 1 .. n : f[i] = g[i]
      BY <3>4, <3>5, ChainsAgree
    <3> QED BY <2>2, <3>6
  <2> QED BY <1>1, <1>3, <2>1, <2>2, <2>3 DEF r
<1> QED BY <1>4, <1>5

-----------------------------------------------------------------------------
(* The user's words in a text.                                             *)

Marked(s) == [i \in 1 .. Len(s) |-> IF s[i] \in UserWords THEN <<s[i]>> ELSE <<>>]

LEMMA UtteredTyped ==
  ASSUME NEW s \in Seq(Cell)
  PROVE  Uttered(s) \in Seq(Cell) /\ Marked(s) \in Seq(Seq(Cell)) /\ Uttered(s) = FlattenSeq(Marked(s))
<1>1. Len(s) \in Nat /\ \A i \in 1 .. Len(s) : s[i] \in Cell
  OBVIOUS
<1>2. \A i \in 1 .. Len(s) : (IF s[i] \in UserWords THEN <<s[i]>> ELSE <<>>) \in Seq(Cell)
  BY <1>1
<1>3. Marked(s) \in [1 .. Len(s) -> Seq(Cell)]
  BY <1>2 DEF Marked
<1>4. Marked(s) \in Seq(Seq(Cell))
  BY <1>1, <1>3
<1>5. Uttered(s) = FlattenSeq(Marked(s))
  BY DEF Uttered, Marked
<1> QED BY <1>4, <1>5, FlatTyped

LEMMA UtteredEmpty == Uttered(<<>>) = <<>>
<1>1. Len(<<>>) = 0 /\ 1 .. 0 = {}
  OBVIOUS
<1>2. Marked(<<>>) = <<>>
  BY <1>1 DEF Marked
<1>3. Uttered(<<>>) = FlattenSeq(Marked(<<>>))
  BY DEF Uttered, Marked
<1> QED BY <1>2, <1>3, FlatEmpty

LEMMA UtteredAppend ==
  ASSUME NEW s \in Seq(Cell), NEW c \in Cell
  PROVE  Uttered(Append(s, c)) = IF c \in UserWords THEN Append(Uttered(s), c) ELSE Uttered(s)
<1> DEFINE r == Append(s, c)
           x == IF c \in UserWords THEN <<c>> ELSE <<>>
<1>1. /\ r \in Seq(Cell) /\ Len(r) = Len(s) + 1 /\ r[Len(s) + 1] = c /\ Len(s) \in Nat
      /\ \A i \in 1 .. Len(s) : r[i] = s[i]
  BY AppendProperties
<1> HIDE DEF r
<1>2. /\ Marked(s) \in Seq(Seq(Cell)) /\ Marked(r) \in Seq(Seq(Cell)) /\ x \in Seq(Cell)
      /\ Uttered(s) \in Seq(Cell)
  BY <1>1, UtteredTyped
<1>3. Len(Marked(s)) = Len(s) /\ Len(Marked(r)) = Len(s) + 1
  <2>1. DOMAIN Marked(s) = 1 .. Len(s) /\ DOMAIN Marked(r) = 1 .. Len(s) + 1
    BY <1>1 DEF Marked
  <2> QED BY <1>1, <1>2, <2>1, LenProperties
<1>4. Marked(r) = Append(Marked(s), x)
  <2> DEFINE q == Append(Marked(s), x)
  <2>1. /\ q \in Seq(Seq(Cell)) /\ Len(q) = Len(s) + 1 /\ q[Len(s) + 1] = x
        /\ \A i \in 1 .. Len(s) : q[i] = Marked(s)[i]
    BY <1>2, <1>3, AppendProperties
  <2> HIDE DEF q
  <2>2. ASSUME NEW i \in 1 .. Len(s) + 1 PROVE Marked(r)[i] = q[i]
    <3>1. Marked(r)[i] = IF r[i] \in UserWords THEN <<r[i]>> ELSE <<>>
      BY <1>1 DEF Marked
    <3>2. CASE i \in 1 .. Len(s)
      <4>1. Marked(s)[i] = IF s[i] \in UserWords THEN <<s[i]>> ELSE <<>>
        BY <3>2 DEF Marked
      <4> QED BY <1>1, <2>1, <3>1, <3>2, <4>1
    <3>3. CASE i = Len(s) + 1
      BY <1>1, <2>1, <3>1, <3>3
    <3> QED BY <1>1, <3>2, <3>3
  <2>3. Marked(r) = q
    BY <1>2, <1>3, <2>1, <2>2, SeqEqual
  <2> QED BY <2>3 DEF q
<1>5. Uttered(r) = Uttered(s) \o x
  <2> HIDE DEF x
  <2>1. FlattenSeq(Append(Marked(s), x)) = FlattenSeq(Marked(s)) \o x
    BY <1>2, FlatAppend
  <2>2. Uttered(s) = FlattenSeq(Marked(s)) /\ Uttered(r) = FlattenSeq(Marked(r))
    BY <1>1, UtteredTyped
  <2> QED BY <1>4, <2>1, <2>2
<1>6. Uttered(s) \o <<>> = Uttered(s) /\ Uttered(s) \o <<c>> = Append(Uttered(s), c)
  BY <1>2, ConcatEmptySeq, AppendIsConcat
<1> QED BY <1>5, <1>6 DEF r

(* The last of a text.                                                     *)
LEMMA Split ==
  ASSUME NEW T, NEW n \in Nat, NEW b \in Seq(T), Len(b) = n + 1
  PROVE  \E c \in Seq(T), x \in T : b = Append(c, x) /\ Len(c) = n
<1> DEFINE c == SubSeq(b, 1, n)
<1>1. c \in Seq(T) /\ Len(c) = n /\ \A i \in 1 .. n : c[i] = b[i]
  BY SubSeqProperties
<1>2. b[n + 1] \in T
  OBVIOUS
<1> HIDE DEF c
<1>3. /\ Append(c, b[n + 1]) \in Seq(T) /\ Len(Append(c, b[n + 1])) = n + 1
      /\ \A i \in 1 .. n + 1 : Append(c, b[n + 1])[i] = b[i]
  BY <1>1, <1>2, AppendProperties
<1>4. b = Append(c, b[n + 1])
  BY <1>3, SeqEqual
<1> QED BY <1>1, <1>2, <1>4

LEMMA UtteredJoined ==
  ASSUME NEW a \in Seq(Cell), NEW b \in Seq(Cell)
  PROVE  Uttered(a \o b) = Uttered(a) \o Uttered(b)
<1> DEFINE S == {n \in Nat : \A w \in Seq(Cell) :
                   Len(w) = n => Uttered(a \o w) = Uttered(a) \o Uttered(w)}
<1>0. Uttered(a) \in Seq(Cell)
  BY UtteredTyped
<1>1. 0 \in S
  <2> SUFFICES ASSUME NEW w \in Seq(Cell), Len(w) = 0
               PROVE  Uttered(a \o w) = Uttered(a) \o Uttered(w)
    OBVIOUS
  <2>1. w = <<>>
    BY EmptySeq
  <2>2. a \o w = a /\ Uttered(w) = <<>> /\ Uttered(a) \o <<>> = Uttered(a)
    BY <1>0, <2>1, ConcatEmptySeq, UtteredEmpty
  <2> QED BY <2>2
<1>2. ASSUME NEW n \in Nat, n \in S PROVE n + 1 \in S
  <2> SUFFICES ASSUME NEW w \in Seq(Cell), Len(w) = n + 1
               PROVE  Uttered(a \o w) = Uttered(a) \o Uttered(w)
    OBVIOUS
  <2>1. PICK c \in Seq(Cell), x \in Cell : w = Append(c, x) /\ Len(c) = n
    BY Split
  <2>2. a \o c \in Seq(Cell) /\ Uttered(c) \in Seq(Cell) /\ <<x>> \in Seq(Cell)
    BY ConcatProperties, UtteredTyped
  <2>3. a \o w = Append(a \o c, x)
    <3>1. w = c \o <<x>> /\ Append(a \o c, x) = (a \o c) \o <<x>>
      BY <2>1, <2>2, AppendIsConcat
    <3> QED BY <2>2, <3>1, ConcatAssociative
  <2>4. Uttered(a \o c) = Uttered(a) \o Uttered(c)
    BY <1>2, <2>1
  <2>5. CASE x \in UserWords
    <3>1. Uttered(a \o w) = Append(Uttered(a) \o Uttered(c), x) /\ Uttered(w) = Append(Uttered(c), x)
      BY <2>1, <2>2, <2>3, <2>4, <2>5, UtteredAppend
    <3>2. Uttered(a) \o Uttered(c) \in Seq(Cell)
      BY <1>0, <2>2, ConcatProperties
    <3>3. /\ Append(Uttered(a) \o Uttered(c), x) = (Uttered(a) \o Uttered(c)) \o <<x>>
          /\ Append(Uttered(c), x) = Uttered(c) \o <<x>>
      BY <2>2, <3>2, AppendIsConcat
    <3>4. (Uttered(a) \o Uttered(c)) \o <<x>> = Uttered(a) \o (Uttered(c) \o <<x>>)
      <4>1. PICK y \in Seq(Cell), z \in Seq(Cell), v \in Seq(Cell) :
              y = Uttered(a) /\ z = Uttered(c) /\ v = <<x>>
        BY <1>0, <2>2
      <4>2. (y \o z) \o v = y \o (z \o v)
        BY ConcatAssociative
      <4> QED BY <4>1, <4>2
    <3> QED BY <3>1, <3>3, <3>4
  <2>6. CASE x \notin UserWords
    <3>1. Uttered(a \o w) = Uttered(a \o c) /\ Uttered(w) = Uttered(c)
      BY <2>1, <2>2, <2>3, <2>6, UtteredAppend
    <3> QED BY <2>4, <3>1
  <2> QED BY <2>5, <2>6
<1> HIDE DEF S
<1>3. \A n \in Nat : n \in S
  BY <1>1, <1>2, Upwards
<1>4. Len(b) \in Nat
  OBVIOUS
<1> QED BY <1>3, <1>4 DEF S

(* What is not the user's.                                                 *)
Other == Token \ UserWords

LEMMA UtteredNothing ==
  ASSUME NEW b \in Seq(Other)
  PROVE  Uttered(b) = <<>> /\ b \in Seq(Cell)
<1> DEFINE S == {n \in Nat : \A w \in Seq(Other) : Len(w) = n => Uttered(w) = <<>>}
<1>0. Other \subseteq Cell /\ Other \subseteq Token
  BY DEF Other, Cell
<1>1. 0 \in S
  BY EmptySeq, UtteredEmpty
<1>2. ASSUME NEW n \in Nat, n \in S PROVE n + 1 \in S
  <2> SUFFICES ASSUME NEW w \in Seq(Other), Len(w) = n + 1 PROVE Uttered(w) = <<>>
    OBVIOUS
  <2>1. PICK c \in Seq(Other), x \in Other : w = Append(c, x) /\ Len(c) = n
    BY Split
  <2>2. c \in Seq(Cell) /\ x \in Cell /\ x \notin UserWords
    BY <1>0 DEF Other
  <2>3. Uttered(c) = <<>>
    BY <1>2, <2>1
  <2> QED BY <2>1, <2>2, <2>3, UtteredAppend
<1> HIDE DEF S
<1>3. \A n \in Nat : n \in S
  BY <1>1, <1>2, Upwards
<1>4. Len(b) \in Nat /\ b \in Seq(Cell)
  BY <1>0
<1> QED BY <1>3, <1>4 DEF S

LEMMA OthersAdd ==
  ASSUME NEW a \in Seq(Cell), NEW b \in Seq(Other)
  PROVE  Uttered(a \o b) = Uttered(a) /\ Uttered(b \o a) = Uttered(a)
<1>1. Uttered(b) = <<>> /\ b \in Seq(Cell) /\ Uttered(a) \in Seq(Cell)
  BY UtteredNothing, UtteredTyped
<1>2. Uttered(a) \o <<>> = Uttered(a) /\ <<>> \o Uttered(a) = Uttered(a)
  BY <1>1, ConcatEmptySeq
<1> QED BY <1>1, <1>2, UtteredJoined

-----------------------------------------------------------------------------
(* Rendering a conversation.                                               *)

Role == {"system", "user", "assistant"}

LEMMA Symbols ==
  /\ \A r \in Role : Header(r) \in TemplateSymbols
  /\ Bos \in TemplateSymbols /\ End \in TemplateSymbols /\ Space \in TemplateSymbols
  /\ TemplateSymbols \subseteq Other /\ Other \subseteq Token /\ Token \subseteq Cell
  /\ Spoken \subseteq Other /\ Guess \subseteq Other
  /\ None \notin Token /\ Inputs \subseteq Seq(Token) /\ System \in Seq(Token)
<1>1. \A r \in Role : Header(r) \in TemplateSymbols
  BY DEF Role, Header, TemplateSymbols
<1>2. Bos \in TemplateSymbols /\ End \in TemplateSymbols /\ Space \in TemplateSymbols
  BY DEF TemplateSymbols
<1>3. /\ TemplateSymbols \subseteq Other /\ Other \subseteq Token /\ Token \subseteq Cell
      /\ Spoken \subseteq Other /\ Guess \subseteq Other
  BY ChatAssumption DEF Other, Cell
<1> QED BY <1>1, <1>2, <1>3, ChatAssumption, EngineAssumption

(* What is rendered of a message is made of its content and the template.  *)
LEMMA TrimTyped ==
  ASSUME NEW T, NEW s \in Seq(T)
  PROVE  Trim(s) \in Seq(T)
<1> DEFINE solid == {i \in 1 .. Len(s) : s[i] # Space}
           lo == CHOOSE i \in solid : \A j \in solid : i <= j
           hi == CHOOSE i \in solid : \A j \in solid : j <= i
<1>1. CASE solid = {}
  BY <1>1 DEF Trim
<1>2. CASE solid # {}
  <2>1. solid \subseteq 1 .. Len(s) /\ Len(s) \in Nat
    OBVIOUS
  <2> HIDE DEF solid
  <2>2. /\ \E i \in solid : \A j \in solid : i <= j
        /\ \E i \in solid : \A j \in solid : j <= i
    BY <1>2, <2>1, Extremes
  <2>3. lo \in solid /\ hi \in solid
    BY <2>2
  <2>4. Trim(s) = SubSeq(s, lo, hi)
    BY <1>2 DEF Trim, solid
  <2> HIDE DEF lo, hi
  <2>5. lo \in 1 .. Len(s) /\ hi \in 1 .. Len(s)
    BY <2>1, <2>3
  <2>6. lo \in Nat /\ lo >= 1 /\ hi \in Nat /\ hi <= Len(s)
    BY <2>5
  <2>7. SubSeq(s, lo, hi) \in Seq(T)
    <3>1. \A i \in lo .. hi : s[i] \in T
      BY <2>1, <2>6
    <3> QED BY <2>6, <3>1, SubSeqProperties
  <2> QED BY <2>4, <2>7
<1> QED BY <1>1, <1>2

LEMMA StripTyped ==
  ASSUME NEW T, NEW s \in Seq(T)
  PROVE  StripThink(s) \in Seq(T)
<1> DEFINE m == [i \in 1 .. Len(s) |-> IF Thinks(s, i) THEN <<>> ELSE <<s[i]>>]
<1>1. Len(s) \in Nat /\ \A i \in 1 .. Len(s) : s[i] \in T
  OBVIOUS
<1>2. \A i \in 1 .. Len(s) : (IF Thinks(s, i) THEN <<>> ELSE <<s[i]>>) \in Seq(T)
  BY <1>1
<1>3. m \in Seq(Seq(T))
  BY <1>1, <1>2
<1>4. StripThink(s) = FlattenSeq(m)
  BY DEF StripThink
<1> HIDE DEF m
<1> QED BY <1>3, <1>4, FlatTyped

(* A turn is written with the symbols of the template, of its message and, *)
(* where it is the second, of the system's.                                *)
LEMMA TurnTyped ==
  ASSUME NEW T, TemplateSymbols \subseteq T, NEW f \in Family, NEW msgs \in Seq(Message),
         NEW i \in 1 .. Len(msgs), msgs[i].content \in Seq(T),
         i = 2 => msgs[1].content \in Seq(T)
  PROVE  Turn(f, msgs, i) \in Seq(T)
<1> DEFINE c == msgs[i].content
           role == msgs[i].role
<1>1. role \in Role /\ c \in Seq(T) /\ Header(role) \in T /\ Header("user") \in T
      /\ End \in T /\ Space \in T
  <2>1. msgs[i] \in Message
    OBVIOUS
  <2>2. role \in Role /\ "user" \in Role
    BY <2>1 DEF Message, Role
  <2> QED BY <2>2, Symbols
<1>2. Trim(c) \in Seq(T) /\ StripThink(c) \in Seq(T) /\ <<End>> \in Seq(T) /\ <<Space>> \in Seq(T)
      /\ <<>> \in Seq(T) /\ <<Header(role)>> \in Seq(T) /\ <<Header("user")>> \in Seq(T)
  BY <1>1, TrimTyped, StripTyped
<1> HIDE DEF c, role
<1>3. ASSUME NEW a \in Seq(T), NEW b \in Seq(T), NEW d \in Seq(T) PROVE a \o b \o d \in Seq(T)
  BY ConcatProperties
<1>4. ASSUME NEW strip \in BOOLEAN PROVE TurnQwen(msgs, i, strip) \in Seq(T)
  <2> DEFINE hd == <<Header(IF role = "system" /\ i # 1 THEN "user" ELSE role)>>
             bd == IF strip /\ role = "assistant" THEN StripThink(c) ELSE c
  <2>1. hd \in Seq(T) /\ bd \in Seq(T)
    BY <1>1, <1>2
  <2>2. TurnQwen(msgs, i, strip) = hd \o bd \o <<End>>
    BY DEF TurnQwen, c, role
  <2> HIDE DEF hd, bd
  <2> QED BY <1>2, <1>3, <2>1, <2>2
<1>5. TurnLlama3(msgs, i) \in Seq(T)
  <2>1. TurnLlama3(msgs, i) = <<Header(role)>> \o Trim(c) \o <<End>>
    BY DEF TurnLlama3, c, role
  <2> QED BY <1>2, <1>3, <2>1
<1>6. TurnGemma(msgs, i) \in Seq(T)
  <2>1. CASE Folded(msgs) /\ i = 1
    BY <1>2, <2>1 DEF TurnGemma
  <2>2. CASE ~(Folded(msgs) /\ i = 1)
    <3> DEFINE fd == IF Folded(msgs) /\ i = 2 THEN msgs[1].content \o <<Space>> ELSE <<>>
    <3>1. fd \in Seq(T)
      BY <1>2, ConcatProperties
    <3>2. TurnGemma(msgs, i) = <<Header(role)>> \o fd \o Trim(c) \o <<End>>
      BY <2>2 DEF TurnGemma, c, role
    <3> HIDE DEF fd
    <3>3. <<Header(role)>> \o fd \o Trim(c) \in Seq(T)
      BY <1>2, <1>3, <3>1
    <3> QED BY <1>2, <3>2, <3>3, ConcatProperties
  <2> QED BY <2>1, <2>2
<1> QED BY <1>4, <1>5, <1>6 DEF Turn, Family

(* A message more leaves how those before it are written.                  *)
LEMMA TurnStable ==
  ASSUME NEW f \in Family, NEW msgs \in Seq(Message), NEW m \in Message, NEW i \in 1 .. Len(msgs)
  PROVE  Turn(f, Append(msgs, m), i) = Turn(f, msgs, i)
<1> DEFINE r == Append(msgs, m)
<1>1. Len(msgs) \in Nat /\ 1 \in 1 .. Len(msgs) /\ \A j \in 1 .. Len(msgs) : r[j] = msgs[j]
  BY AppendProperties
<1>2. r[i] = msgs[i] /\ r[1] = msgs[1]
  BY <1>1
<1> HIDE DEF r
<1>3. \A strip \in BOOLEAN : TurnQwen(r, i, strip) = TurnQwen(msgs, i, strip)
  BY <1>2 DEF TurnQwen
<1>4. TurnGemma(r, i) = TurnGemma(msgs, i)
  BY <1>2 DEF TurnGemma, Folded
<1>5. TurnLlama3(r, i) = TurnLlama3(msgs, i)
  BY <1>2 DEF TurnLlama3
<1>6. Turn(f, r, i) = Turn(f, msgs, i)
  BY <1>3, <1>4, <1>5 DEF Turn
<1> QED BY <1>6 DEF r

Turns(f, msgs) == [i \in 1 .. Len(msgs) |-> Turn(f, msgs, i)]
Opening(f) == IF f = "llama3" THEN <<Bos>> ELSE <<>>
Rendered(f, msgs) == Format(f, msgs, FALSE)

LEMMA TurnsTyped ==
  ASSUME NEW f \in Family, NEW msgs \in Seq(Message)
  PROVE  Turns(f, msgs) \in Seq(Seq(Token)) /\ Len(Turns(f, msgs)) = Len(msgs)
<1>1. ASSUME NEW i \in 1 .. Len(msgs) PROVE msgs[i].content \in Seq(Token)
  <2>1. msgs[i] \in Message
    OBVIOUS
  <2> QED BY <2>1 DEF Message
<1>2. TemplateSymbols \subseteq Token
  BY Symbols
<1>3. \A i \in 1 .. Len(msgs) : Turn(f, msgs, i) \in Seq(Token)
  <2> SUFFICES ASSUME NEW i \in 1 .. Len(msgs) PROVE Turn(f, msgs, i) \in Seq(Token)
    OBVIOUS
  <2>1. msgs[i].content \in Seq(Token) /\ (i = 2 => 1 \in 1 .. Len(msgs))
    BY <1>1
  <2>2. i = 2 => msgs[1].content \in Seq(Token)
    BY <1>1, <2>1
  <2> QED BY <1>2, <2>1, <2>2, TurnTyped
<1>4. Len(msgs) \in Nat
  OBVIOUS
<1> QED BY <1>3, <1>4 DEF Turns

(* The rendering, and what a message more and the header of an answer add. *)
LEMMA RenderedIs ==
  ASSUME NEW f \in Family, NEW msgs \in Seq(Message)
  PROVE  /\ Rendered(f, msgs) \in Seq(Token) /\ Format(f, msgs, TRUE) \in Seq(Token)
         /\ Format(f, msgs, TRUE) = Append(Rendered(f, msgs), Header("assistant"))
         /\ Rendered(f, msgs) = Opening(f) \o FlattenSeq(Turns(f, msgs))
<1> DEFINE op == Opening(f)
           fl == FlattenSeq(Turns(f, msgs))
<1>1. op \in Seq(Token) /\ fl \in Seq(Token) /\ <<>> \in Seq(Token) /\ Header("assistant") \in Token
  <2>1. <<Bos>> \in Seq(Token) /\ <<>> \in Seq(Token) /\ Header("assistant") \in Token
    BY Symbols DEF Role
  <2>2. fl \in Seq(Token)
    BY TurnsTyped, FlatTyped
  <2> QED BY <2>1, <2>2 DEF Opening
<1>2. /\ Format(f, msgs, FALSE) = op \o fl \o <<>>
      /\ Format(f, msgs, TRUE) = op \o fl \o <<Header("assistant")>>
  BY DEF Format, Turns, Opening, GenerationPrompt
<1> HIDE DEF op, fl
<1>3. op \o fl \in Seq(Token)
  BY <1>1, ConcatProperties
<1>4. Format(f, msgs, FALSE) = op \o fl
  BY <1>2, <1>3, ConcatEmptySeq
<1>5. Format(f, msgs, TRUE) = Append(op \o fl, Header("assistant"))
  BY <1>1, <1>2, <1>3, AppendIsConcat
<1>6. Append(op \o fl, Header("assistant")) \in Seq(Token)
  BY <1>1, <1>3, AppendProperties
<1> QED BY <1>3, <1>4, <1>5, <1>6 DEF Rendered, op, fl

LEMMA RenderedGrows ==
  ASSUME NEW f \in Family, NEW msgs \in Seq(Message), NEW m \in Message
  PROVE  LET r == Append(msgs, m)
         IN Rendered(f, r) = Rendered(f, msgs) \o Turn(f, r, Len(r))
<1> DEFINE r == Append(msgs, m)
           t == Turn(f, r, Len(r))
<1>1. r \in Seq(Message) /\ Len(r) = Len(msgs) + 1 /\ Len(msgs) \in Nat
  BY AppendProperties
<1>2. \A i \in 1 .. Len(msgs) : Turn(f, r, i) = Turn(f, msgs, i)
  BY TurnStable
<1> HIDE DEF r
<1>3. /\ Turns(f, r) \in Seq(Seq(Token)) /\ Len(Turns(f, r)) = Len(msgs) + 1
      /\ Turns(f, msgs) \in Seq(Seq(Token)) /\ Len(Turns(f, msgs)) = Len(msgs)
  BY <1>1, TurnsTyped
<1>4. \A i \in 1 .. Len(msgs) + 1 : Turns(f, r)[i] = Turn(f, r, i)
  BY <1>1 DEF Turns
<1>5. \A i \in 1 .. Len(msgs) : Turns(f, msgs)[i] = Turn(f, msgs, i)
  BY DEF Turns
<1>6. t \in Seq(Token)
  <2>1. Len(msgs) + 1 \in 1 .. Len(msgs) + 1
    BY <1>1
  <2>2. Turns(f, r)[Len(msgs) + 1] \in Seq(Token)
    BY <1>3, <2>1
  <2> QED BY <1>1, <1>4, <2>1, <2>2
<1>7. Turns(f, r) = Append(Turns(f, msgs), t)
  <2> DEFINE q == Append(Turns(f, msgs), t)
  <2> HIDE DEF t
  <2>1. /\ q \in Seq(Seq(Token)) /\ Len(q) = Len(msgs) + 1 /\ q[Len(msgs) + 1] = t
        /\ \A i \in 1 .. Len(msgs) : q[i] = Turns(f, msgs)[i]
    BY <1>3, <1>6, AppendProperties
  <2> HIDE DEF q
  <2>2. ASSUME NEW i \in 1 .. Len(msgs) + 1 PROVE Turns(f, r)[i] = q[i]
    <3>1. CASE i \in 1 .. Len(msgs)
      BY <1>2, <1>4, <1>5, <2>1, <3>1
    <3>2. CASE i = Len(msgs) + 1
      BY <1>1, <1>4, <2>1, <3>2 DEF t
    <3> QED BY <1>1, <3>1, <3>2
  <2>3. Turns(f, r) = q
    BY <1>3, <2>1, <2>2, SeqEqual
  <2> QED BY <2>3 DEF q
<1> HIDE DEF t
<1>8. FlattenSeq(Turns(f, r)) = FlattenSeq(Turns(f, msgs)) \o t
  BY <1>3, <1>6, <1>7, FlatAppend
<1>9. PICK op \in Seq(Token), fl \in Seq(Token) :
        op = Opening(f) /\ fl = FlattenSeq(Turns(f, msgs))
  <2>1. <<Bos>> \in Seq(Token)
    BY Symbols
  <2>2. Opening(f) \in Seq(Token)
    BY <2>1 DEF Opening
  <2> QED BY <1>3, <2>2, FlatTyped
<1>10. op \o (fl \o t) = (op \o fl) \o t
  BY <1>6, ConcatAssociative
<1>11. Rendered(f, r) = Rendered(f, msgs) \o t
  BY <1>1, <1>8, <1>9, <1>10, RenderedIs
<1> QED BY <1>11 DEF r, t

-----------------------------------------------------------------------------
(* Stop strings: what is held back of a text is the longest end of it that *)
(* may become one, and a token more makes it longer by one at most.        *)

LEMMA StopsTyped ==
  ASSUME NEW k \in Stops
  PROVE  k \in Seq(Token) /\ Len(k) \in Nat \ {0}
<1>1. k \in Seq(Token) /\ k # <<>>
  BY ChatAssumption
<1>2. Len(k) # 0
  BY <1>1, EmptySeq
<1> QED BY <1>1, <1>2

(* The last of s are the first of k.                                       *)
Ends(s, l, k) == l < Len(k) /\ SubSeq(s, Len(s) - l + 1, Len(s)) = SubSeq(k, 1, l)

LEMMA EndsAre ==
  ASSUME NEW s \in Seq(Token), NEW l \in 1 .. Len(s), NEW k \in Seq(Token)
  PROVE  Ends(s, l, k) <=> l < Len(k) /\ \A j \in 1 .. l : s[Len(s) - l + j] = k[j]
<1>1. l \in Nat /\ Len(s) \in Nat /\ Len(k) \in Nat /\ l <= Len(s)
  OBVIOUS
<1> SUFFICES ASSUME l < Len(k)
             PROVE  SubSeq(s, Len(s) - l + 1, Len(s)) = SubSeq(k, 1, l)
                      <=> \A j \in 1 .. l : s[Len(s) - l + j] = k[j]
  BY DEF Ends
<1> DEFINE a == SubSeq(s, Len(s) - l + 1, Len(s))
           b == SubSeq(k, 1, l)
<1>2. a \in Seq(Token) /\ Len(a) = l /\ \A j \in 1 .. l : a[j] = s[Len(s) - l + j]
  <2>1. /\ Len(s) - l + 1 \in 1 .. Len(s) + 1 /\ Len(s) \in Len(s) - l .. Len(s)
        /\ Len(s) - (Len(s) - l + 1) + 1 = l
    BY <1>1
  <2>2. PICK m \in 1 .. Len(s) + 1 : m = Len(s) - l + 1
    BY <2>1
  <2>3. /\ a = SubSeq(s, m, Len(s)) /\ Len(s) \in m - 1 .. Len(s)
        /\ Len(s) - m + 1 = l
    BY <1>1, <2>2
  <2>4. a \in Seq(Token) /\ Len(a) = l /\ \A j \in 1 .. l : a[j] = s[m + j - 1]
    BY <1>1, <2>3, SubSeqProperties
  <2>5. \A j \in 1 .. l : m + j - 1 = Len(s) - l + j
    BY <1>1, <2>2
  <2> QED BY <2>4, <2>5
<1>3. b \in Seq(Token) /\ Len(b) = l /\ \A j \in 1 .. l : b[j] = k[j]
  BY <1>1, SubSeqProperties
<1> HIDE DEF a, b
<1>4. a = b <=> \A j \in 1 .. l : a[j] = b[j]
  BY <1>2, <1>3, SeqEqual
<1>5. (\A j \in 1 .. l : a[j] = b[j]) <=> \A j \in 1 .. l : s[Len(s) - l + j] = k[j]
  BY <1>2, <1>3
<1> QED BY <1>4, <1>5 DEF a, b

LEMMA HoldsIs ==
  ASSUME NEW s \in Seq(Token)
  PROVE  Holds(s) = {l \in 1 .. Len(s) : \E k \in Stops : Ends(s, l, k)}
BY DEF Holds, Ends

LEMMA HoldbackIs ==
  ASSUME NEW s \in Seq(Token)
  PROVE  /\ Holdback(s) \in Nat /\ Holdback(s) <= Len(s)
         /\ \A l \in Holds(s) : l <= Holdback(s)
         /\ Holdback(s) = 0 \/ Holdback(s) \in Holds(s)
<1>1. Len(s) \in Nat /\ Holds(s) \subseteq 1 .. Len(s)
  BY DEF Holds
<1>2. CASE Holds(s) = {}
  BY <1>1, <1>2 DEF Holdback
<1>3. CASE Holds(s) # {}
  <2>1. \E l \in Holds(s) : \A m \in Holds(s) : m <= l
    BY <1>1, <1>3, Extremes
  <2>2. Holdback(s) = CHOOSE l \in Holds(s) : \A m \in Holds(s) : m <= l
    BY <1>3 DEF Holdback
  <2>3. Holdback(s) \in Holds(s) /\ \A m \in Holds(s) : m <= Holdback(s)
    BY <2>1, <2>2
  <2> QED BY <1>1, <2>3
<1> QED BY <1>2, <1>3

(* A token more.                                                           *)
LEMMA HoldsGrow ==
  ASSUME NEW s \in Seq(Token), NEW t \in Token, NEW l \in Holds(Append(s, t)), l # 1
  PROVE  l - 1 \in Holds(s)
<1> DEFINE r == Append(s, t)
<1>1. /\ r \in Seq(Token) /\ Len(r) = Len(s) + 1 /\ Len(s) \in Nat
      /\ \A i \in 1 .. Len(s) : r[i] = s[i]
  BY AppendProperties
<1>2. l \in Holds(r)
  OBVIOUS
<1> HIDE DEF r
<1>3. PICK k \in Stops : Ends(r, l, k)
  BY <1>1, <1>2, HoldsIs
<1>4. l \in 1 .. Len(s) + 1 /\ l \in 1 .. Len(r)
  BY <1>1, <1>2 DEF Holds
<1>5. k \in Seq(Token) /\ Len(k) \in Nat
  BY StopsTyped
<1>6. l < Len(k) /\ \A j \in 1 .. l : r[Len(r) - l + j] = k[j]
  BY <1>1, <1>3, <1>4, <1>5, EndsAre
<1>7. l - 1 \in 1 .. Len(s) /\ l - 1 < Len(k)
  BY <1>1, <1>4, <1>5, <1>6
<1>8. ASSUME NEW j \in 1 .. l - 1 PROVE s[Len(s) - (l - 1) + j] = k[j]
  <2>1. j \in 1 .. l /\ Len(r) - l + j = Len(s) - (l - 1) + j /\ Len(s) - (l - 1) + j \in 1 .. Len(s)
    BY <1>1, <1>4
  <2> QED BY <1>1, <1>6, <2>1
<1>9. Ends(s, l - 1, k)
  BY <1>5, <1>7, <1>8, EndsAre
<1> QED BY <1>7, <1>9, HoldsIs

LEMMA HoldbackGrows ==
  ASSUME NEW s \in Seq(Token), NEW t \in Token
  PROVE  Holdback(Append(s, t)) <= Holdback(s) + 1
<1>1. Append(s, t) \in Seq(Token)
  BY AppendProperties
<1>2. /\ Holdback(s) \in Nat /\ Holdback(Append(s, t)) \in Nat
      /\ Holdback(Append(s, t)) = 0 \/ Holdback(Append(s, t)) \in Holds(Append(s, t))
  BY <1>1, HoldbackIs
<1>3. CASE Holdback(Append(s, t)) \in {0, 1}
  BY <1>2, <1>3
<1>4. CASE Holdback(Append(s, t)) \notin {0, 1}
  <2>1. Holdback(Append(s, t)) - 1 \in Holds(s)
    BY <1>2, <1>4, HoldsGrow
  <2>2. Holdback(Append(s, t)) - 1 <= Holdback(s)
    BY <2>1, HoldbackIs
  <2> QED BY <1>2, <2>2
<1> QED BY <1>3, <1>4

(* A stop string that a token completes ends with it, and what was there   *)
(* of it was held back.                                                    *)
LEMMA StopCompleted ==
  ASSUME NEW s \in Seq(Token), NEW t \in Token, StopStarts(s) = {},
         NEW i \in StopStarts(Append(s, t))
  PROVE  i \in 1 .. Len(s) + 1 /\ Len(s) + 1 - i <= Holdback(s)
<1> DEFINE r == Append(s, t)
<1>1. /\ r \in Seq(Token) /\ Len(r) = Len(s) + 1 /\ Len(s) \in Nat
      /\ \A j \in 1 .. Len(s) : r[j] = s[j]
  BY AppendProperties
<1>2. i \in StopStarts(r)
  OBVIOUS
<1> HIDE DEF r
<1>3. PICK k \in Stops : i + Len(k) - 1 <= Len(r) /\ SubSeq(r, i, i + Len(k) - 1) = k
  BY <1>2 DEF StopStarts, At
<1>4. i \in 1 .. Len(s) + 1 /\ i \in Nat /\ i >= 1
  BY <1>1, <1>2 DEF StopStarts
<1>5. k \in Seq(Token) /\ Len(k) \in Nat \ {0}
  BY StopsTyped
<1>6. \A j \in 1 .. Len(k) : r[i + j - 1] = k[j]
  <2> PICK n \in Nat \ {0} : n = Len(k)
    BY <1>5
  <2>0. i + n - 1 \in i .. Len(r)
    BY <1>1, <1>3, <1>4
  <2>1. PICK e \in i .. Len(r) : e = i + n - 1
    BY <2>0
  <2>2. i \in 1 .. Len(r) + 1 /\ e \in i - 1 .. Len(r) /\ (e - i) + 1 = Len(k)
    BY <1>1, <1>4, <1>5, <2>1
  <2>3. \A j \in 1 .. e - i + 1 : SubSeq(r, i, e)[j] = r[i + j - 1]
    BY <1>1, <2>2, SubSeqProperties
  <2> QED BY <1>3, <1>4, <1>5, <2>1, <2>2, <2>3
<1>7. i + Len(k) - 1 = Len(s) + 1
  <2> SUFFICES ASSUME i + Len(k) - 1 <= Len(s) PROVE FALSE
    BY <1>1, <1>3, <1>4, <1>5
  <2> PICK n \in Nat \ {0} : n = Len(k)
    BY <1>5
  <2>0. i + n - 1 \in i .. Len(s)
    BY <1>1, <1>4
  <2>1. PICK e \in i .. Len(s) : e = i + n - 1
    BY <2>0
  <2>2. i \in 1 .. Len(s) + 1 /\ e \in i - 1 .. Len(s) /\ (e - i) + 1 = Len(k) /\ i \in 1 .. Len(s)
    BY <1>1, <1>4, <1>5, <2>1
  <2>3. /\ SubSeq(s, i, e) \in Seq(Token) /\ Len(SubSeq(s, i, e)) = e - i + 1
        /\ \A j \in 1 .. e - i + 1 : SubSeq(s, i, e)[j] = s[i + j - 1]
    BY <2>2, SubSeqProperties
  <2>4. PICK u \in Seq(Token) : u = SubSeq(s, i, e)
    BY <2>3
  <2>5. Len(u) = Len(k) /\ \A j \in 1 .. Len(k) : u[j] = s[i + j - 1]
    BY <1>4, <2>2, <2>3, <2>4
  <2>6. ASSUME NEW j \in 1 .. Len(k) PROVE u[j] = k[j]
    <3>1. i + j - 1 \in 1 .. Len(s)
      BY <1>1, <1>4, <1>5, <2>1
    <3> QED BY <1>1, <1>6, <2>5, <3>1
  <2>7. u = k
    BY <1>5, <2>5, <2>6, SeqEqual
  <2>8. k \in At(s, i)
    BY <2>1, <2>4, <2>7 DEF At
  <2> QED BY <2>2, <2>8 DEF StopStarts
<1>8. CASE i = Len(s) + 1
  BY <1>1, <1>8, HoldbackIs
<1>9. CASE i # Len(s) + 1
  <2>1. PICK l \in Nat : l = Len(s) + 1 - i
    BY <1>1, <1>4
  <2>2. l \in 1 .. Len(s) /\ l < Len(k) /\ l = Len(k) - 1
    BY <1>1, <1>4, <1>5, <1>7, <1>9, <2>1
  <2>3. ASSUME NEW j \in 1 .. l PROVE s[Len(s) - l + j] = k[j]
    <3>1. j \in 1 .. Len(k) /\ Len(s) - l + j = i + j - 1 /\ i + j - 1 \in 1 .. Len(s)
      BY <1>1, <1>4, <1>5, <2>1, <2>2
    <3> QED BY <1>1, <1>6, <3>1
  <2>4. Ends(s, l, k)
    BY <1>5, <2>2, <2>3, EndsAre
  <2>5. l \in Holds(s)
    BY <2>2, <2>4, HoldsIs
  <2>6. l <= Holdback(s)
    BY <2>5, HoldbackIs
  <2> QED BY <1>4, <2>1, <2>6
<1> QED BY <1>4, <1>8, <1>9

LEMMA CutIs ==
  ASSUME NEW s \in Seq(Token), StopStarts(s) # {}
  PROVE  \E i \in StopStarts(s) : Cut(s) = i - 1
<1>1. Len(s) \in Nat /\ StopStarts(s) \subseteq 1 .. Len(s)
  BY DEF StopStarts
<1>2. \E i \in StopStarts(s) : \A j \in StopStarts(s) : i <= j
  BY <1>1, Extremes
<1>3. PICK k : k = CHOOSE i \in StopStarts(s) : \A j \in StopStarts(s) : i <= j
  OBVIOUS
<1>4. k \in StopStarts(s) /\ Cut(s) = k - 1
  BY <1>2, <1>3 DEF Cut
<1> QED BY <1>4

(* What is held back begins a stop string.                                 *)
LEMMA HeldBegins ==
  ASSUME NEW s \in Seq(Token)
  PROVE  \E k \in Stops : IsStrictPrefix(SubSeq(s, Len(s) - Holdback(s) + 1, Len(s)), k)
<1> DEFINE h == Holdback(s)
<1>1. Len(s) \in Nat /\ h \in Nat /\ h <= Len(s) /\ (h = 0 \/ h \in Holds(s))
  BY HoldbackIs
<1> HIDE DEF h
<1>2. CASE h = 0
  <2>1. PICK k \in Stops : TRUE
    BY ChatAssumption
  <2>2. k \in Seq(Token) /\ Len(k) \in Nat \ {0}
    BY StopsTyped
  <2>3. SubSeq(s, Len(s) - h + 1, Len(s)) = <<>>
    <3>1. Len(s) - h + 1 = Len(s) + 1
      BY <1>1, <1>2
    <3> QED BY <1>1, <3>1, SubSeqEmpty
  <2>4. SubSeq(<<>>, 1, 0) = <<>> /\ SubSeq(k, 1, 0) = <<>> /\ Len(<<>>) = 0 /\ k # <<>>
    BY <2>2, SubSeqEmpty
  <2>5. IsStrictPrefix(<<>>, k)
    BY <2>2, <2>4 DEF IsStrictPrefix, IsPrefix
  <2> QED BY <2>3, <2>5 DEF h
<1>3. CASE h \in Holds(s)
  <2>1. h \in 1 .. Len(s)
    BY <1>3 DEF Holds
  <2>2. PICK k \in Stops : h < Len(k) /\ SubSeq(s, Len(s) - h + 1, Len(s)) = SubSeq(k, 1, h)
    BY <1>3 DEF Holds
  <2>3. k \in Seq(Token) /\ Len(k) \in Nat
    BY StopsTyped
  <2>a. 1 \in 1 .. Len(k) + 1 /\ h \in 1 - 1 .. Len(k) /\ h - 1 + 1 = h
    BY <1>1, <2>2, <2>3
  <2>b. SubSeq(k, 1, h) \in Seq(Token) /\ Len(SubSeq(k, 1, h)) = h
    BY <2>3, <2>a, SubSeqProperties
  <2>4. PICK u \in Seq(Token) : u = SubSeq(k, 1, h) /\ Len(u) = h
    BY <2>b
  <2>5. SubSeq(u, 1, h) = u
    BY <2>4, SubSeqFull
  <2>6. IsStrictPrefix(u, k)
    BY <2>2, <2>3, <2>4, <2>5 DEF IsStrictPrefix, IsPrefix
  <2> QED BY <2>2, <2>4, <2>6 DEF h
<1> QED BY <1>1, <1>2, <1>3


-----------------------------------------------------------------------------
(* What is shown of an answer.                                             *)

Stages == {"idle", "score", "answer", "end"}
Running == /\ tl = 0 \/ Len(text) = tl
           /\ StopStarts(Answer) = {} /\ shown = tl - Holdback(Answer)
Counted == /\ stage \in Stages /\ text \in Seq(Spoken)
           /\ tl \in Nat /\ tl <= Len(text) /\ shown \in Nat /\ shown <= tl
TextOK == /\ Counted
          /\ stage \in {"score", "answer"} => Running
          /\ AnswerShown

LEMMA AnswerIs ==
  ASSUME NEW T, NEW x \in Seq(T), NEW n \in Nat, n <= Len(x)
  PROVE  /\ Upto(x, n) = SubSeq(x, 1, n) /\ Upto(x, n) \in Seq(T) /\ Len(Upto(x, n)) = n
         /\ n = Len(x) => Upto(x, n) = x
         /\ n = 0 => Upto(x, n) = <<>>
<1>1. Len(x) \in Nat
  OBVIOUS
<1>2. (IF n < Len(x) THEN n ELSE Len(x)) = n
  BY <1>1
<1>3. Upto(x, n) = SubSeq(x, 1, n)
  BY <1>2 DEF Upto
<1>4. 1 \in 1 .. Len(x) + 1 /\ n \in 1 - 1 .. Len(x) /\ n - 1 + 1 = n
  BY <1>1
<1>5. SubSeq(x, 1, n) \in Seq(T) /\ Len(SubSeq(x, 1, n)) = n
  BY <1>4, SubSeqProperties
<1>6. n = Len(x) => SubSeq(x, 1, n) = x
  BY SubSeqFull
<1>7. n = 0 => SubSeq(x, 1, n) = <<>>
  BY SubSeqEmpty
<1> QED BY <1>3, <1>5, <1>6, <1>7

LEMMA SpokenTyped ==
  ASSUME NEW s \in Seq(Spoken)
  PROVE  s \in Seq(Token)
<1>1. Spoken \subseteq Token
  BY ChatAssumption
<1> QED BY <1>1

(* Nothing was heard yet.                                                  *)
LEMMA NothingHeard == StopStarts(<<>>) = {} /\ Holdback(<<>>) = 0
<1>1. <<>> \in Seq(Token) /\ Len(<<>>) = 0
  OBVIOUS
<1>2. Holdback(<<>>) \in Nat /\ Holdback(<<>>) <= 0
  BY <1>1, HoldbackIs
<1>3. StopStarts(<<>>) = {}
  BY <1>1 DEF StopStarts
<1> QED BY <1>2, <1>3

(* An answer that ends without a stop string.                              *)
LEMMA EndsQuietly ==
  ASSUME NEW s \in Seq(Token), NEW n \in Nat, Len(s) = n, NEW v \in Nat, v = n - Holdback(s)
  PROVE  \E k \in Stops : IsStrictPrefix(SubSeq(s, v + 1, n), k)
BY HeldBegins

(* One token more: what Hear and Shows make of it.                         *)
LEMMA Heard ==
  ASSUME Counted, Running, NEW t \in Spoken, Hear(t), Shows(text')
  PROVE  /\ text' \in Seq(Spoken) /\ tl' \in Nat /\ tl' <= Len(text') /\ Len(text') = tl'
         /\ Answer' = text' /\ shown' \in Nat /\ shown' <= tl'
         /\ StopStarts(text') # {} => shown' = Cut(text')
         /\ StopStarts(text') = {} => shown' = tl' - Holdback(text')
<1> DEFINE s == Answer
           h == Holdback(s)
<1>1. /\ s \in Seq(Spoken) /\ Len(s) = tl /\ tl \in Nat /\ shown \in Nat
      /\ tl = Len(text) => s = text
      /\ s \in Seq(Token)
  BY AnswerIs, SpokenTyped DEF Counted, Answer
<1>2. /\ h \in Nat /\ h <= tl /\ shown = tl - h /\ StopStarts(s) = {}
      /\ tl = 0 \/ tl = Len(text)
  BY <1>1, HoldbackIs DEF Running
<1>3. CASE tl + 1 < TextCap
  <2> DEFINE r == Append(s, t)
  <2>1. text' = r /\ tl' = tl + 1
    BY <1>3 DEF Hear
  <2>2. /\ r \in Seq(Spoken) /\ Len(r) = tl + 1 /\ t \in Token /\ r \in Seq(Token)
    BY <1>1, AppendProperties, SpokenTyped, ChatAssumption
  <2>3. tl' \in Nat /\ tl' = Len(text') /\ text' \in Seq(Spoken)
    BY <1>1, <2>1, <2>2
  <2>4. Answer' = text'
    BY <2>3, AnswerIs DEF Answer
  <2>5. /\ Holdback(r) \in Nat /\ Holdback(r) <= tl + 1 /\ Holdback(r) <= h + 1
    BY <1>1, <2>2, HoldbackIs, HoldbackGrows
  <2>6. ASSUME StopStarts(r) # {}
        PROVE  Cut(r) \in Nat /\ Cut(r) <= tl /\ Cut(r) >= shown
    <3>1. PICK i \in StopStarts(r) : Cut(r) = i - 1
      BY <2>2, <2>6, CutIs
    <3>2. i \in 1 .. tl + 1 /\ tl + 1 - i <= h
      BY <1>1, <1>2, <2>2, StopCompleted
    <3> QED BY <1>1, <1>2, <3>1, <3>2
  <2> HIDE DEF r, s, h
  <2>7. CASE StopStarts(r) # {}
    <3>1. shown' = Beyond(Cut(r))
      BY <2>1, <2>7 DEF Shows
    <3>2. shown' = Cut(r)
      BY <1>1, <2>6, <2>7, <3>1 DEF Beyond
    <3> QED BY <1>1, <2>1, <2>3, <2>4, <2>6, <2>7, <3>2
  <2>8. CASE StopStarts(r) = {}
    <3>1. shown' = Beyond(Len(r) - Holdback(r))
      BY <2>1, <2>8 DEF Shows
    <3>2. shown' = tl' - Holdback(r) /\ shown' \in Nat /\ shown' <= tl'
      BY <1>1, <1>2, <2>1, <2>2, <2>5, <3>1 DEF Beyond
    <3> QED BY <2>1, <2>3, <2>4, <2>8, <3>2
  <2> QED BY <2>7, <2>8
<1>4. CASE ~(tl + 1 < TextCap)
  <2>1. text' = text /\ tl' = tl /\ tl # 0
    <3>1. TextCap \in Nat /\ TextCap # 0 /\ TextCap # 1
      BY ChatAssumption
    <3>2. 1 < TextCap
      BY <3>1
    <3>3. tl # 0
      BY <1>4, <3>2
    <3>4. UNCHANGED <<text, tl>>
      BY <1>4 DEF Hear
    <3> QED BY <3>3, <3>4
  <2>2. s = text /\ Len(text) = tl
    BY <1>1, <1>2, <2>1
  <2>3. Answer' = text'
    BY <2>1, <2>2 DEF Answer
  <2> HIDE DEF s, h
  <2>4. shown' = Beyond(tl - h)
    BY <1>2, <2>1, <2>2 DEF Shows, h
  <2>5. shown' = shown
    BY <1>1, <1>2, <2>4 DEF Beyond
  <2> QED BY <1>1, <1>2, <2>1, <2>2, <2>3, <2>5 DEF Counted, h
<1> QED BY <1>3, <1>4


LEMMA TextInit ==
  ASSUME ChatInit
  PROVE  TextOK
<1>1. stage = "idle" /\ text \in {<<>>} \cup {<<t>> : t \in Spoken} /\ tl = 0 /\ shown = 0
  BY DEF ChatInit
<1>2. text \in Seq(Spoken) /\ Len(text) \in Nat
  <2>1. CASE text = <<>>
    BY <2>1
  <2>2. ASSUME NEW t \in Spoken, text = <<t>> PROVE text \in Seq(Spoken) /\ Len(text) \in Nat
    BY <2>2
  <2> QED BY <1>1, <2>1, <2>2
<1> QED BY <1>1, <1>2 DEF TextOK, Counted, Stages, AnswerShown

(* A turn that has said nothing yet.                                       *)
LEMMA TurnStarts ==
  ASSUME text \in Seq(Spoken), text' = text, tl' = 0, shown' = 0,
         stage' \in {"score", "answer"}
  PROVE  TextOK'
<1>1. Len(text') \in Nat /\ 0 <= Len(text')
  OBVIOUS
<1>2. Answer' = <<>>
  BY <1>1, AnswerIs DEF Answer
<1>3. Counted'
  BY <1>1 DEF Counted, Stages
<1>4. Running'
  BY <1>2, NothingHeard DEF Running
<1> QED BY <1>3, <1>4 DEF TextOK, AnswerShown

(* A step that leaves the text alone.                                      *)
LEMMA TextKept ==
  ASSUME TextOK, UNCHANGED <<text, tl, shown>>, stage' \in Stages,
         stage' \in {"score", "answer"} => stage \in {"score", "answer"},
         stage' = "end" => stage = "answer" \/ stage = "end"
  PROVE  TextOK'
<1>1. Counted' /\ Answer' = Answer
  BY DEF TextOK, Counted, Answer
<1>2. stage' \in {"score", "answer"} => Running'
  BY <1>1 DEF TextOK, Running
<1>3. ASSUME stage' = "end", stage = "answer" PROVE AnswerShown'
  <2>1. /\ Answer \in Seq(Token) /\ Len(Answer) = tl /\ tl \in Nat /\ shown \in Nat
    BY AnswerIs, SpokenTyped DEF TextOK, Counted, Answer
  <2>2. StopStarts(Answer) = {} /\ shown = tl - Holdback(Answer)
    BY <1>3 DEF TextOK, Running
  <2>3. \E k \in Stops : IsStrictPrefix(SubSeq(Answer, shown + 1, tl), k)
    BY <2>1, <2>2, EndsQuietly
  <2> QED BY <1>1, <2>2, <2>3 DEF AnswerShown
<1>4. AnswerShown'
  BY <1>1, <1>3 DEF TextOK, AnswerShown
<1> QED BY <1>1, <1>2, <1>4 DEF TextOK

LEMMA TextNext ==
  ASSUME TextOK, [ChatNext]_chatAll
  PROVE  TextOK'
<1>1. ASSUME NEW u \in Inputs, Ask(u) PROVE TextOK'
  <2>1. /\ stage = "idle" /\ text' = text
        /\ \/ tl' = 0 /\ shown' = 0 /\ stage' \in {"score", "answer"}
           \/ UNCHANGED <<stage, tl, shown>>
    BY <1>1 DEF Ask
  <2> QED BY <2>1, TurnStarts, TextKept DEF TextOK, Counted, Stages
<1>2. CASE Score
  <2>1. stage = "score" /\ stage' \in {"answer", "idle"} /\ UNCHANGED <<text, tl, shown>>
    BY <1>2 DEF Score
  <2> QED BY <2>1, TextKept DEF Stages
<1>3. CASE SayEos
  <2>1. stage = "answer" /\ stage' = "end" /\ UNCHANGED <<text, tl, shown>>
    BY <1>3 DEF SayEos
  <2> QED BY <2>1, TextKept DEF Stages
<1>4. CASE Say
  <2>1. PICK t \in Spoken \ Eos : Hear(t) /\ Shows(text')
    BY <1>4 DEF Say
  <2>2. /\ stage = "answer" /\ stage' \in {"end", "answer"}
        /\ StopStarts(text') # {} => stage' = "end"
    BY <1>4 DEF Say
  <2>3. Counted /\ Running
    BY <2>2 DEF TextOK
  <2>4. /\ text' \in Seq(Spoken) /\ tl' \in Nat /\ tl' <= Len(text') /\ Len(text') = tl'
        /\ Answer' = text' /\ shown' \in Nat /\ shown' <= tl'
        /\ StopStarts(text') # {} => shown' = Cut(text')
        /\ StopStarts(text') = {} => shown' = tl' - Holdback(text')
    BY <2>1, <2>3, Heard
  <2>5. Counted' /\ text' \in Seq(Token)
    BY <2>2, <2>4, SpokenTyped DEF Counted, Stages
  <2>6. ASSUME StopStarts(text') = {}
        PROVE  \E k \in Stops : IsStrictPrefix(SubSeq(text', shown' + 1, tl'), k)
    BY <2>4, <2>5, <2>6, EndsQuietly
  <2>7. AnswerShown'
    BY <2>4, <2>6 DEF AnswerShown
  <2>8. stage' \in {"score", "answer"} => Running'
    BY <2>2, <2>4 DEF Running
  <2> QED BY <2>5, <2>7, <2>8 DEF TextOK
<1>5. CASE AnswerDone
  <2>1. stage = "answer" /\ stage' = "end" /\ UNCHANGED <<text, tl, shown>>
    BY <1>5 DEF AnswerDone
  <2> QED BY <2>1, TextKept DEF Stages
<1>6. CASE EndTurn
  <2>1. stage' = "idle" /\ UNCHANGED <<text, tl, shown>>
    BY <1>6 DEF EndTurn
  <2> QED BY <2>1, TextKept DEF Stages
<1>7. CASE UNCHANGED chatAll
  <2>1. UNCHANGED <<stage, text, tl, shown>>
    BY <1>7 DEF chatAll, chatVars
  <2> QED BY <2>1, TextKept DEF TextOK, Counted
<1> QED BY <1>1, <1>2, <1>3, <1>4, <1>5, <1>6, <1>7 DEF ChatNext, ChatTurn

(* At the end of every turn the text before the first stop string, and     *)
(* nothing of one, was shown; without one all but what could begin one:    *)
(* chat_holdback_len lets no stop string through in pieces, whatever the   *)
(* stop strings are and however they overlap.                              *)
THEOREM ShownUpToStop == ChatSpec => []AnswerShown
<1>1. ChatInit => TextOK
  BY TextInit
<1>2. TextOK /\ [ChatNext]_chatAll => TextOK'
  BY TextNext
<1>3. TextOK => AnswerShown
  BY DEF TextOK
<1> QED BY <1>1, <1>2, <1>3, PTL DEF ChatSpec


-----------------------------------------------------------------------------
(* What a step of the engine adds to its context.                          *)

Appended(t) == Context' = Append(Context, t) /\ hid' = Context' /\ pos' = pos + 1

LEMMA AdvanceStep ==
  ASSUME IInv, NEW t \in Token, pos + 1 <= MaxCtx, kv' = Advance(Dev, t).kv,
         hid' = Advance(Dev, t).hid, pos' = pos + 1
  PROVE  Appended(t)
<1>1. Sound(Dev) /\ Dev.pos = pos /\ Dev.kv = kv
  BY EngineTypes
<1>2. PICK h : h = Advance(Dev, t)
  OBVIOUS
<1>3. /\ h.pos = Dev.pos + 1 /\ h.hid = View(h.kv, h.pos)
      /\ View(h.kv, h.pos) = Append(View(Dev.kv, Dev.pos), t)
  BY <1>1, <1>2, AdvanceView
<1> QED BY <1>1, <1>2, <1>3 DEF Appended, Context

LEMMA CommitStep ==
  ASSUME IInv, NEW t \in Token, pos + 1 <= MaxCtx, Commit(Advance(Dev, t))
  PROVE  Appended(t)
<1>1. Advance(Dev, t).pos = pos + 1
  BY EngineTypes, AdvanceSound
<1> QED BY <1>1, AdvanceStep DEF Commit

LEMMA ReplayStep ==
  ASSUME IInv, NEW t \in Token, pos + 1 <= MaxCtx, Replay(t)
  PROVE  Appended(t) /\ logits' = Context'
<1>1. pos' = pos + 1 /\ kv' = Advance(Dev, t).kv /\ hid' = Advance(Dev, t).hid /\ logits' = hid'
  BY DEF Replay, Commit
<1>2. Appended(t)
  BY <1>1, AdvanceStep
<1> QED BY <1>1, <1>2 DEF Appended

LEMMA HostStep ==
  ASSUME IInv, NEW t \in Token, HostReplay(t)
  PROVE  Appended(t) /\ logits' = Context'
<1>1. pos + 1 <= MaxCtx
  BY EngineTypes, EngineAssumption DEF HostReplay
<1>2. CASE Replay(t)
  BY <1>1, <1>2, ReplayStep
<1>3. CASE Commit(Advance(Dev, t)) /\ logits' = Advance(Dev, t).hid
  BY <1>1, <1>3, CommitStep DEF Appended, Commit
<1> QED BY <1>2, <1>3 DEF HostReplay

(* Below the capacity the last row written holds the last token.           *)
LEMMA FedIs ==
  ASSUME IInv', NEW c \in Seq(Cell), NEW x \in Token, NEW t, Context' = Append(c, x),
         pos' = Len(c) + 1, Fed(t), pos' <= MaxCtx
  PROVE  x = t
<1>1. MaxCtx \in Nat \ {0} /\ Len(c) \in Nat
  BY EngineAssumption
<1>2. PICK n \in Nat : n = Len(c)
  BY <1>1
<1>3. Context'[n + 1] = x
  BY <1>2
<1>4. Context' = View(kv', pos')
  BY DEF Context
<1>5. Context'[n + 1] = kv'[n]
  BY <1>1, <1>2, <1>4 DEF View
<1>6. (pos' - 1) % MaxCtx = n
  BY <1>1, <1>2
<1> QED BY <1>3, <1>5, <1>6 DEF Fed

LEMMA EagerStep ==
  ASSUME IInv, NextEager, NEW t, Fed(t)
  PROVE  Appended(t) /\ t \in Token /\ UNCHANGED <<pending, graphVars>>
<1>1. pos + 1 <= MaxCtx
  BY EngineTypes, EngineAssumption DEF NextEager
<1>2. PICK x \in Token : Commit(Advance(Dev, x))
  BY DEF NextEager
<1>3. Appended(x)
  BY <1>1, <1>2, CommitStep
<1>4. IInv'
  BY NextEagerIInv
<1>5. Context \in Seq(Cell) /\ Len(Context) = pos
  BY EngineTypes, ViewLen DEF Context
<1>6. x = t
  BY <1>1, <1>3, <1>4, <1>5, FedIs DEF Appended
<1> QED BY <1>3, <1>6 DEF NextEager

-----------------------------------------------------------------------------
(* Symbols that are not the user's.                                        *)

Grown == \E b \in Seq(Other) : Context' = Context \o b

LEMMA GrownByOne ==
  ASSUME IInv, NEW t \in Other, Context' = Append(Context, t)
  PROVE  Grown
<1>1. Context \in Seq(Cell) /\ t \in Cell /\ <<t>> \in Seq(Other)
  BY EngineTypes, ViewIsSeq, Symbols DEF Context
<1>2. Append(Context, t) = Context \o <<t>>
  BY <1>1, AppendIsConcat
<1> QED BY <1>1, <1>2 DEF Grown


LEMMA GrownByTwo ==
  ASSUME IInv, NEW s \in Other, NEW t \in Other, Context' = Append(Append(Context, s), t)
  PROVE  Grown
<1>1. Context \in Seq(Cell) /\ s \in Cell /\ t \in Cell /\ <<s, t>> \in Seq(Other)
  BY EngineTypes, ViewIsSeq, Symbols DEF Context
<1>2. PICK c \in Seq(Cell) : c = Context
  BY <1>1
<1>3. Append(Append(c, s), t) = c \o <<s, t>>
  BY <1>1
<1> QED BY <1>1, <1>2, <1>3 DEF Grown

LEMMA GrownByNone == IInv /\ UNCHANGED <<kv, pos>> => Grown
<1> SUFFICES ASSUME IInv, UNCHANGED <<kv, pos>> PROVE Grown
  OBVIOUS
<1>1. Context \in Seq(Cell) /\ <<>> \in Seq(Other)
  BY EngineTypes, ViewIsSeq DEF Context
<1>2. Context' = Context \o <<>>
  BY <1>1 DEF Context
<1> QED BY <1>1, <1>2 DEF Grown

Pended == pending \in Guess \cup {None}

(* What a sample feeds before it, and, if graphs are given up, itself.     *)
LEMMA SampleStep ==
  ASSUME IInv, Pended, NEW t \in Guess, NextSample,
         IF pending' = None THEN Fed(t) ELSE pending' = t
  PROVE  Grown /\ Pended' /\ pos' \in Nat /\ pos' >= pos
<1>1. /\ Sound(Dev) /\ Dev.pos = pos /\ Dev.kv = kv /\ pos \in Nat /\ MaxCtx \in Nat
      /\ pos < MaxCtx - 1 /\ t \in Other /\ t \in Token
      /\ pending = None \/ (pending \in Other /\ pending \in Token /\ pending # None)
  BY EngineTypes, EngineAssumption, Symbols DEF NextSample, Pended
<1>2. Context \in Seq(Cell) /\ Len(Context) = pos
  BY <1>1, EngineTypes, ViewLen DEF Context
<1>3. PICK m : m = IF pending = None THEN Dev ELSE Advance(Dev, pending)
  OBVIOUS
<1>4. PICK x \in Token :
        \/ Commit(m) /\ pending' = x
        \/ pending' = None /\ Commit(Advance(m, x))
  BY <1>3, Zenon DEF NextSample
<1>5. Pended'
  BY DEF Pended
<1>6. CASE pending = None
  <2>1. CASE Commit(m)
    <3>1. UNCHANGED <<kv, pos>>
      BY <1>1, <1>3, <1>6, <2>1 DEF Commit
    <3> QED BY <1>1, <1>5, <3>1, GrownByNone
  <2>2. CASE pending' = None /\ Commit(Advance(m, x))
    <3>1. Appended(x)
      BY <1>1, <1>3, <1>6, <2>2, CommitStep
    <3>2. x = t
      BY <1>1, <1>2, <2>2, <3>1, NextSampleIInv, FedIs DEF Appended
    <3> QED BY <1>1, <1>5, <3>1, <3>2, GrownByOne DEF Appended
  <2> QED BY <1>4, <2>1, <2>2
<1>7. CASE pending # None
  <2>1. m = Advance(Dev, pending)
    BY <1>3, <1>7
  <2>2. /\ Sound(m) /\ m.pos = pos + 1 /\ View(m.kv, m.pos) = Append(Context, pending)
    BY <1>1, <1>7, <2>1, AdvanceView DEF Context
  <2>3. CASE Commit(m)
    <3>1. Context' = Append(Context, pending) /\ pos' = pos + 1
      BY <2>2, <2>3 DEF Commit, Context
    <3> QED BY <1>1, <1>5, <1>7, <3>1, GrownByOne
  <2>4. CASE pending' = None /\ Commit(Advance(m, x))
    <3>1. PICK h : h = Advance(m, x)
      OBVIOUS
    <3>2. h.pos = m.pos + 1 /\ View(h.kv, h.pos) = Append(View(m.kv, m.pos), x)
      BY <1>1, <2>2, <3>1, AdvanceView
    <3>3. Context' = Append(Append(Context, pending), x) /\ pos' = pos + 2
      BY <1>1, <2>2, <2>4, <3>1, <3>2 DEF Commit, Context
    <3>4. pending \in Cell
      BY <1>1, <1>7 DEF Cell
    <3>5. Append(Context, pending) \in Seq(Cell) /\ Len(Append(Context, pending)) = pos + 1
      BY <1>2, <3>4, AppendProperties
    <3>6. PICK c \in Seq(Cell) : c = Append(Context, pending) /\ Len(c) = pos + 1
      BY <3>5
    <3>7. x = t
      BY <1>1, <2>4, <3>3, <3>6, NextSampleIInv, FedIs
    <3> QED BY <1>1, <1>5, <1>7, <3>3, <3>7, GrownByTwo
  <2> QED BY <1>4, <2>3, <2>4
<1> QED BY <1>6, <1>7

LEMMA EngineNextStep ==
  ASSUME IInv, Pended, NEW t \in Guess, EngineNext(t)
  PROVE  IInv' /\ Grown /\ Pended' /\ pos' \in Nat /\ pos' >= pos
<1>1. t \in Other /\ t \in Token /\ pos \in Nat /\ MaxCtx \in Nat
  BY Symbols, EngineTypes, EngineAssumption
<1>2. CASE NextEager /\ Fed(t)
  <2>1. Appended(t) /\ pending' = pending
    BY <1>2, EagerStep
  <2> QED BY <1>1, <1>2, <2>1, NextEagerIInv, GrownByOne DEF Appended, Pended
<1>3. CASE NextReplay /\ pending' = t
  <2>1. pending \in Other /\ pending \in Token /\ pos + 1 <= MaxCtx /\ Replay(pending)
    BY <1>1, <1>3, Symbols DEF NextReplay, Pended
  <2>2. Appended(pending)
    BY <2>1, ReplayStep
  <2> QED BY <1>1, <1>3, <2>1, <2>2, NextReplayIInv, GrownByOne DEF Appended, Pended
<1>4. CASE NextSample /\ IF pending' = None THEN Fed(t) ELSE pending' = t
  BY <1>4, SampleStep, NextSampleIInv
<1> QED BY <1>2, <1>3, <1>4 DEF EngineNext


-----------------------------------------------------------------------------
(* A conversation that grows.                                              *)

LEMMA UptoAll ==
  ASSUME NEW T, NEW x \in Seq(T), NEW n \in Nat
  PROVE  /\ Upto(x, n) \in Seq(T)
         /\ Len(x) <= n => Upto(x, n) = x
<1>1. Len(x) \in Nat
  OBVIOUS
<1>2. CASE Len(x) <= n
  <2>1. (IF n < Len(x) THEN n ELSE Len(x)) = Len(x)
    BY <1>1, <1>2
  <2> QED BY <2>1, SubSeqFull DEF Upto
<1>3. CASE ~(Len(x) <= n)
  <2>1. (IF n < Len(x) THEN n ELSE Len(x)) = n /\ n <= Len(x)
    BY <1>1, <1>3
  <2>2. SubSeq(x, 1, n) \in Seq(T)
    BY <1>1, <2>1, AnswerIs
  <2> QED BY <1>3, <2>1, <2>2 DEF Upto
<1> QED BY <1>2, <1>3

LEMMA PrefixSplits ==
  ASSUME NEW T, NEW s \in Seq(T), NEW t \in Seq(T), IsPrefix(s, t)
  PROVE  LET w == SubSeq(t, Len(s) + 1, Len(t)) IN w \in Seq(T) /\ t = s \o w
<1>1. Len(s) \in Nat /\ Len(t) \in Nat /\ Len(s) <= Len(t) /\ s = SubSeq(t, 1, Len(s))
  BY SubSeqFull DEF IsPrefix
<1>2. /\ 1 \in 1 .. Len(t) + 1 /\ Len(s) \in 1 - 1 .. Len(t) /\ Len(t) \in Len(s) .. Len(t)
      /\ Len(s) + 1 \in Int /\ Len(t) \in Int
      /\ \A i \in Len(s) + 1 .. Len(t) : t[i] \in T
  BY <1>1
<1>3. SubSeq(t, 1, Len(s)) \o SubSeq(t, Len(s) + 1, Len(t)) = SubSeq(t, 1, Len(t))
  BY <1>2, ConcatAdjacentSubSeq
<1>4. SubSeq(t, Len(s) + 1, Len(t)) \in Seq(T)
  BY <1>2, SubSeqProperties
<1> QED BY <1>1, <1>3, <1>4, SubSeqFull

LEMMA PrefixOfConcat ==
  ASSUME NEW T, NEW s \in Seq(T), NEW w \in Seq(T)
  PROVE  IsPrefix(s, s \o w)
<1>1. Len(s \o w) = Len(s) + Len(w) /\ Len(s) \in Nat /\ Len(w) \in Nat
  OBVIOUS
<1>2. SubSeq(s \o w, 1, Len(s)) = s /\ SubSeq(s, 1, Len(s)) = s
  BY SubSeqOfConcat1, SubSeqFull
<1> QED BY <1>1, <1>2 DEF IsPrefix


(* A message more, unless the table is full.                               *)
LEMMA PushIs ==
  ASSUME NEW msgs \in Seq(Message), Len(msgs) \in 1 .. MaxMsgs, NEW r \in Role,
         NEW c \in Seq(Token)
  PROVE  /\ Push(msgs, r, c) \in Seq(Message) /\ Len(Push(msgs, r, c)) \in 1 .. MaxMsgs
         /\ \/ Len(msgs) = MaxMsgs /\ Push(msgs, r, c) = msgs
            \/ \E m \in Message : /\ m.role = r /\ m.content = c
                                  /\ Push(msgs, r, c) = Append(msgs, m)
                                  /\ Len(Push(msgs, r, c)) = Len(msgs) + 1
<1>1. MaxMsgs \in Nat \ {0} /\ Len(msgs) \in Nat
  BY TemplateAssumption
<1>2. CASE Len(msgs) >= MaxMsgs
  BY <1>1, <1>2 DEF Push
<1>3. CASE Len(msgs) < MaxMsgs
  <2>1. PICK m : m = [role |-> r, content |-> c]
    OBVIOUS
  <2>2. m \in Message /\ m.role = r /\ m.content = c
    BY <2>1 DEF Message, Role
  <2>3. Push(msgs, r, c) = Append(msgs, m)
    BY <1>1, <1>3, <2>1 DEF Push
  <2>4. Append(msgs, m) \in Seq(Message) /\ Len(Append(msgs, m)) = Len(msgs) + 1
    BY <2>2, AppendProperties
  <2> QED BY <1>1, <1>3, <2>2, <2>3, <2>4
<1> QED BY <1>1, <1>2, <1>3

(* What it adds to the rendering is text of its own, and if it is not the  *)
(* user's and not the second, nothing of the user's.                       *)
LEMMA TurnAdds ==
  ASSUME NEW f \in Family, NEW msgs \in Seq(Message), NEW m \in Message
  PROVE  /\ \E w \in Seq(Token) : Rendered(f, Append(msgs, m)) = Rendered(f, msgs) \o w
         /\ Len(msgs) >= 2 /\ m.content \in Seq(Other) =>
              \E w \in Seq(Other) : Rendered(f, Append(msgs, m)) = Rendered(f, msgs) \o w
<1> DEFINE r == Append(msgs, m)
           n == Len(msgs) + 1
<1>1. /\ r \in Seq(Message) /\ Len(r) = n /\ Len(msgs) \in Nat /\ r[n] = m /\ n \in 1 .. Len(r)
      /\ Len(msgs) >= 1 => r[1] = msgs[1] /\ 1 \in 1 .. Len(msgs)
  BY AppendProperties
<1>2. Rendered(f, r) = Rendered(f, msgs) \o Turn(f, r, Len(r))
  BY RenderedGrows
<1>3. \A i \in 1 .. Len(r) : r[i].content \in Seq(Token)
  <2>1. \A i \in 1 .. Len(r) : r[i] \in Message
    BY <1>1
  <2> QED BY <2>1 DEF Message
<1> HIDE DEF r
<1>4. Turn(f, r, n) \in Seq(Token)
  <2>1. r[n].content \in Seq(Token) /\ (n = 2 => r[1].content \in Seq(Token))
    BY <1>1, <1>3
  <2>2. TemplateSymbols \subseteq Token
    BY Symbols
  <2> QED BY <1>1, <2>1, <2>2, TurnTyped
<1>5. ASSUME Len(msgs) >= 2, m.content \in Seq(Other) PROVE Turn(f, r, n) \in Seq(Other)
  <2>1. r[n].content \in Seq(Other) /\ n # 2
    BY <1>1, <1>5
  <2>2. TemplateSymbols \subseteq Other
    BY Symbols
  <2> QED BY <1>1, <2>1, <2>2, TurnTyped
<1> QED BY <1>1, <1>2, <1>4, <1>5 DEF r

LEMMA PushRenders ==
  ASSUME NEW f \in Family, NEW msgs \in Seq(Message), Len(msgs) \in 1 .. MaxMsgs, NEW r \in Role,
         NEW c \in Seq(Token)
  PROVE  /\ \E w \in Seq(Token) : Rendered(f, Push(msgs, r, c)) = Rendered(f, msgs) \o w
         /\ (Len(msgs) >= 2 \/ Len(msgs) = MaxMsgs) /\ c \in Seq(Other)
              => \E w \in Seq(Other) : Rendered(f, Push(msgs, r, c)) = Rendered(f, msgs) \o w
<1>1. CASE Push(msgs, r, c) = msgs
  <2>1. Rendered(f, msgs) \in Seq(Token)
    BY RenderedIs
  <2>2. <<>> \in Seq(Other) /\ <<>> \in Seq(Token) /\ Rendered(f, msgs) \o <<>> = Rendered(f, msgs)
    BY <2>1
  <2> QED BY <1>1, <2>2
<1>2. CASE Push(msgs, r, c) # msgs
  <2>1. PICK m \in Message : m.content = c /\ Push(msgs, r, c) = Append(msgs, m) /\ Len(msgs) # MaxMsgs
    <3>1. PICK m \in Message : /\ m.content = c /\ Push(msgs, r, c) = Append(msgs, m)
                               /\ Len(Push(msgs, r, c)) = Len(msgs) + 1
      BY <1>2, PushIs
    <3>2. Len(Push(msgs, r, c)) \in 1 .. MaxMsgs
      BY PushIs
    <3>3. MaxMsgs \in Nat \ {0}
      BY TemplateAssumption
    <3> QED BY <3>1, <3>2, <3>3
  <2> QED BY <2>1, TurnAdds
<1> QED BY <1>1, <1>2


-----------------------------------------------------------------------------
(* The user's messages.                                                    *)

Sizes == /\ fam \in Families /\ eager \in BOOLEAN /\ cut \in BOOLEAN
         /\ gen \in 0 .. MaxTokens /\ drawn \in Seq(Cell)
HistOK == /\ hist \in Seq(Message) /\ Len(hist) \in 1 .. MaxMsgs
          /\ stage # "idle" => Len(hist) >= 2 \/ Len(hist) = MaxMsgs
Follows(r) == \E w \in Seq(Token) : r = prev \o w
PrevOK == /\ prev \in Seq(Token) /\ Len(prev) < FmtCap
          /\ stage # "idle" => prev = Format(fam, hist, TRUE)
          /\ stage = "idle" => \/ Follows(Rendered(fam, hist))
                               \/ pos >= MaxCtx - 1
                               \/ Len(Rendered(fam, hist)) >= FmtCap
Heeded == InSlab /\ ~cut => Uttered(Context) = Uttered(prev)
TalkInv == IInv /\ TextOK /\ Pended /\ Sizes /\ HistOK /\ PrevOK /\ Heeded

(* The model's tokens are not the user's.                                  *)
LEMMA HeededKept ==
  ASSUME IInv, Heeded, Grown, pos \in Nat, pos' \in Nat, pos' >= pos, UNCHANGED <<prev, cut>>
  PROVE  Heeded'
<1>1. PICK b \in Seq(Other) : Context' = Context \o b
  BY DEF Grown
<1>2. Context \in Seq(Cell)
  BY EngineTypes, ViewIsSeq DEF Context
<1>3. Uttered(Context') = Uttered(Context)
  BY <1>1, <1>2, OthersAdd
<1>4. MaxCtx \in Nat
  BY EngineAssumption
<1>5. InSlab' => InSlab
  BY <1>4 DEF InSlab
<1>6. Uttered(Context)' = Uttered(Context') /\ Uttered(prev)' = Uttered(prev')
  BY DEF Uttered
<1> QED BY <1>3, <1>5, <1>6 DEF Heeded

LEMMA TalkInit == ChatInit => TalkInv
<1> SUFFICES ASSUME ChatInit PROVE TalkInv
  OBVIOUS
<1>1. IInv
  BY FreshIInv DEF ChatInit
<1>2. TextOK /\ Pended
  BY TextInit DEF ChatInit, Pended
<1>3. Sizes
  <2>1. MaxTokens \in Nat \ {0} /\ 0 \in 0 .. MaxTokens /\ <<>> \in Seq(Cell)
    BY ChatAssumption
  <2> QED BY <2>1 DEF ChatInit, Sizes
<1>4. /\ hist = Append(<<>>, [role |-> "system", content |-> System])
      /\ [role |-> "system", content |-> System] \in Message
  BY Symbols, TemplateAssumption DEF ChatInit, Push, Message
<1>5. HistOK
  <2>1. PICK m \in Message : hist = Append(<<>>, m)
    BY <1>4
  <2>2. hist \in Seq(Message) /\ Len(hist) = 1 /\ 1 \in 1 .. MaxMsgs
    BY <2>1, TemplateAssumption
  <2> QED BY <2>2 DEF ChatInit, HistOK
<1>6. Rendered(fam, hist) \in Seq(Token)
  BY <1>5, RenderedIs, ChatAssumption DEF ChatInit, HistOK
<1>7. Follows(Rendered(fam, hist))
  BY <1>6 DEF ChatInit, Follows
<1>8. PrevOK
  BY <1>7, ChatAssumption DEF ChatInit, PrevOK
<1>9. Context = <<>>
  <2>1. Context \in Seq(Cell) /\ Len(Context) = 0
    BY <1>1, EngineTypes, ViewLen DEF ChatInit, Context
  <2> QED BY <2>1, EmptySeq
<1>10. Heeded
  BY <1>9 DEF ChatInit, Heeded
<1> QED BY <1>1, <1>2, <1>3, <1>5, <1>8, <1>10 DEF TalkInv

(* A step in the middle of a turn.                                         *)
LEMMA TalkKept ==
  ASSUME TalkInv, IInv', TextOK', Pended', Grown, pos' \in Nat, pos' >= pos, Sizes',
         UNCHANGED <<hist, prev, fam, cut>>, stage # "idle",
         stage' = "idle" => pos' >= MaxCtx - 1
  PROVE  TalkInv'
<1>1. Heeded'
  BY HeededKept, EngineTypes DEF TalkInv
<1>2. HistOK'
  BY DEF TalkInv, HistOK
<1>3. Format(fam, hist, TRUE)' = Format(fam', hist', TRUE)
  BY DEF Format
<1>4. PrevOK'
  BY <1>3 DEF TalkInv, PrevOK
<1> QED BY <1>1, <1>2, <1>4 DEF TalkInv


(* The text of the prompt is what was rendered since, and maybe a BOS.     *)
LEMMA EncodedIs ==
  ASSUME NEW f, NEW s \in Seq(Token)
  PROVE  Encoded(f, s) \in Seq(Token) /\ Uttered(Encoded(f, s)) = Uttered(s)
<1>1. s \in Seq(Cell) /\ <<Bos>> \in Seq(Other) /\ Bos \in Token
  BY Symbols
<1>2. CASE AddsBos(f)
  <2>1. Encoded(f, s) = <<Bos>> \o s
    BY <1>2 DEF Encoded
  <2>2. <<Bos>> \o s \in Seq(Token)
    BY <1>1
  <2>3. Uttered(<<Bos>> \o s) = Uttered(s)
    BY <1>1, OthersAdd
  <2> QED BY <2>1, <2>2, <2>3
<1>3. CASE ~AddsBos(f)
  <2>1. <<>> \o s = s
    OBVIOUS
  <2> QED BY <1>3, <2>1 DEF Encoded
<1> QED BY <1>2, <1>3

(* What a turn that is not begun leaves to the next.                       *)
LEMMA AskRefused ==
  ASSUME TalkInv, NEW u \in Inputs, stage = "idle", hist' = Push(hist, "user", u),
         UNCHANGED <<vars, fam, eager, stage, prev, gen, text, tl, shown, drawn, cut>>
  PROVE  TalkInv'
<1>1. hist' \in Seq(Message) /\ Len(hist') \in 1 .. MaxMsgs
  BY Symbols, PushIs DEF TalkInv, HistOK, Role
<1>2. PICK w \in Seq(Token) : Rendered(fam, hist') = Rendered(fam, hist) \o w
  <2>1. /\ u \in Seq(Token) /\ fam \in Family /\ "user" \in Role
        /\ hist \in Seq(Message) /\ Len(hist) \in 1 .. MaxMsgs
    BY Symbols, ChatAssumption DEF TalkInv, HistOK, Role, Sizes
  <2> QED BY <2>1, PushRenders
<1>3. HistOK'
  BY <1>1 DEF HistOK
<1>4. PICK r \in Seq(Token) : r = Rendered(fam, hist)
  BY RenderedIs, ChatAssumption DEF TalkInv, HistOK, Sizes
<1>5. Rendered(fam, hist)' = r \o w /\ Len(r \o w) >= Len(r)
  <2>1. Rendered(fam, hist)' = Rendered(fam, hist')
    BY DEF Rendered, Format
  <2>2. Len(r \o w) >= Len(r)
    OBVIOUS
  <2> QED BY <1>2, <1>4, <2>1, <2>2
<1>6. ASSUME Follows(r) PROVE Follows(r \o w)'
  <2>1. PICK v \in Seq(Token) : r = prev \o v
    BY <1>6 DEF Follows
  <2>2. r \o w = prev \o (v \o w) /\ v \o w \in Seq(Token)
    BY <2>1 DEF TalkInv, PrevOK
  <2> QED BY <2>2 DEF Follows
<1>7. FmtCap \in Nat /\ Len(r \o w) \in Nat /\ Len(r) \in Nat
  BY ChatAssumption
<1>8. PrevOK'
  <2>1. Follows(r) \/ pos >= MaxCtx - 1 \/ Len(r) >= FmtCap
    BY <1>4 DEF TalkInv, PrevOK
  <2>2. Follows(r \o w)' \/ pos' >= MaxCtx - 1 \/ Len(r \o w) >= FmtCap
    BY <1>5, <1>6, <1>7, <2>1 DEF vars
  <2>3. Follows(r \o w)' => Follows(Rendered(fam, hist))'
    BY <1>5 DEF Follows
  <2> QED BY <1>5, <2>2, <2>3 DEF TalkInv, PrevOK
<1>9. IInv'
  BY StutterIInv DEF TalkInv
<1>10. TextOK'
  BY TextKept DEF TalkInv, TextOK, Counted
<1>11. Heeded'
  BY HoldingKept DEF TalkInv, Heeded, InSlab, Uttered, vars
<1> QED BY <1>3, <1>8, <1>9, <1>10, <1>11 DEF TalkInv, Sizes, Pended, vars

(* A prompt that is fed holds what the user said since.                    *)
LEMMA AskFed ==
  ASSUME ScratchFits, IInv, Pended, Heeded, prev \in Seq(Token), NEW f \in Seq(Token),
         IsPrefix(prev, f), NEW p, p = Encoded(fam, SubSeq(f, Len(prev) + 1, Len(f))),
         Prefill(Upto(p, PromptCap)), prev' = f, cut' = (cut \/ Len(p) > PromptCap)
  PROVE  IInv' /\ Heeded'
<1>1. PICK w \in Seq(Token) : w = SubSeq(f, Len(prev) + 1, Len(f)) /\ f = prev \o w
  BY PrefixSplits
<1>2. p \in Seq(Token) /\ Uttered(p) = Uttered(w) /\ PromptCap \in Nat
  BY <1>1, EncodedIs, ChatAssumption
<1>3. Upto(p, PromptCap) \in Seq(Token) /\ (Len(p) <= PromptCap => Upto(p, PromptCap) = p)
  BY <1>2, UptoAll
<1>4. IInv'
  BY <1>3, PrefillIInv
<1>5. ASSUME InSlab', ~cut' PROVE Uttered(Context') = Uttered(prev')
  <2>1. Len(p) <= PromptCap /\ ~cut
    <3>1. ~(Len(p) > PromptCap) /\ ~cut
      BY <1>5, Zenon
    <3> QED BY <1>2, <3>1
  <2>2. pos' \in Nat /\ pos' >= pos /\ pos \in Nat
    BY <1>3, PrefillHidden, EngineTypes
  <2>3. pos' <= MaxCtx /\ MaxCtx \in Nat
    BY <1>5, EngineAssumption DEF InSlab
  <2>4. Uttered(Context) = Uttered(prev)
    BY <2>1, <2>2, <2>3 DEF InSlab, Heeded
  <2>5. Context' = Led \o p
    BY <1>2, <1>3, <2>1, <2>3, PrefillGrows
  <2>6. Context \in Seq(Cell) /\ p \in Seq(Cell) /\ w \in Seq(Cell) /\ prev \in Seq(Cell)
    <3>1. Context \in Seq(Cell)
      BY EngineTypes, ViewIsSeq DEF Context
    <3>2. Token \subseteq Cell
      BY Symbols
    <3> QED BY <1>1, <1>2, <3>1, <3>2, SeqMonotonic
  <2>7. Uttered(Led) = Uttered(Context) /\ Led \in Seq(Cell)
    <3>1. CASE Flushing
      <4>1. pending \in Other /\ pending \in Cell /\ pending \notin UserWords
        BY <3>1, Symbols DEF Flushing, Pended, Other
      <4> QED BY <2>6, <3>1, <4>1, UtteredAppend, AppendProperties DEF Led
    <3>2. CASE ~Flushing
      BY <2>6, <3>2 DEF Led
    <3> QED BY <3>1, <3>2
  <2>8. Uttered(Led \o p) = Uttered(Led) \o Uttered(p)
    BY <2>6, <2>7, UtteredJoined
  <2>9. Uttered(prev \o w) = Uttered(prev) \o Uttered(w)
    BY <2>6, UtteredJoined
  <2> QED BY <1>1, <1>2, <2>4, <2>5, <2>7, <2>8, <2>9
<1>6. Uttered(Context)' = Uttered(Context') /\ Uttered(prev)' = Uttered(prev')
  BY DEF Uttered
<1> QED BY <1>4, <1>5, <1>6 DEF Heeded


LEMMA AskTalk ==
  ASSUME ScratchFits, TalkInv, NEW u \in Inputs, Ask(u)
  PROVE  TalkInv'
<1>1. PICK h : h = Push(hist, "user", u)
  OBVIOUS
<1>2. PICK f : f = Format(fam, h, TRUE)
  OBVIOUS
<1>3. PICK p : p = Encoded(fam, SubSeq(f, Len(prev) + 1, Len(f)))
  OBVIOUS
<1>4. /\ u \in Seq(Token) /\ fam \in Family /\ "user" \in Role
      /\ hist \in Seq(Message) /\ Len(hist) \in 1 .. MaxMsgs
  BY Symbols, ChatAssumption DEF TalkInv, HistOK, Role, Sizes
<1>5. /\ h \in Seq(Message) /\ Len(h) \in 1 .. MaxMsgs
      /\ Len(h) = MaxMsgs \/ Len(h) = Len(hist) + 1
  BY <1>1, <1>4, PushIs
<1>6. f \in Seq(Token)
  BY <1>2, <1>4, <1>5, RenderedIs
<1>7. /\ stage = "idle" /\ hist' = h /\ UNCHANGED <<fam, eager, text, drawn>>
      /\ IF Len(f) < FmtCap /\ IsPrefix(prev, f) /\ pos + Len(Upto(p, PromptCap)) <= MaxCtx
           THEN /\ Prefill(Upto(p, PromptCap)) /\ prev' = f
                /\ stage' = IF eager THEN "answer" ELSE "score"
                /\ gen' = 0 /\ tl' = 0 /\ shown' = 0 /\ cut' = (cut \/ Len(p) > PromptCap)
           ELSE UNCHANGED <<vars, stage, prev, gen, tl, shown, cut>>
  BY <1>1, <1>2, <1>3 DEF Ask
<1>8. CASE Len(f) < FmtCap /\ IsPrefix(prev, f) /\ pos + Len(Upto(p, PromptCap)) <= MaxCtx
  <2>1. /\ Prefill(Upto(p, PromptCap)) /\ prev' = f /\ stage' \in {"score", "answer"}
        /\ gen' = 0 /\ tl' = 0 /\ shown' = 0 /\ cut' = (cut \/ Len(p) > PromptCap)
    BY <1>7, <1>8
  <2>2. IInv' /\ Heeded'
    <3>1. IInv /\ Pended /\ Heeded /\ prev \in Seq(Token)
      BY DEF TalkInv, PrevOK
    <3> QED BY <1>3, <1>6, <1>8, <2>1, <3>1, AskFed
  <2>3. TextOK'
    <3>1. text \in Seq(Spoken) /\ text' = text
      BY <1>7 DEF TalkInv, TextOK, Counted
    <3> QED BY <2>1, <3>1, TurnStarts
  <2>4. Pended'
    BY <2>1 DEF Prefill, TalkInv, Pended
  <2>5. Sizes'
    <3>1. MaxTokens \in Nat /\ 0 \in 0 .. MaxTokens
      BY ChatAssumption
    <3>2. cut' \in BOOLEAN
      BY <2>1, Zenon
    <3> QED BY <1>7, <2>1, <3>1, <3>2 DEF TalkInv, Sizes
  <2>6. HistOK'
    <3>1. Len(h) >= 2 \/ Len(h) = MaxMsgs
      BY <1>4, <1>5
    <3> QED BY <1>5, <1>7, <3>1 DEF HistOK
  <2>7. PrevOK'
    <3>1. Format(fam, hist, TRUE)' = f
      BY <1>2, <1>7 DEF Format
    <3>2. stage' # "idle"
      BY <2>1
    <3> QED BY <1>6, <1>8, <2>1, <3>1, <3>2 DEF PrevOK
  <2> QED BY <2>2, <2>3, <2>4, <2>5, <2>6, <2>7 DEF TalkInv
<1>9. CASE ~(Len(f) < FmtCap /\ IsPrefix(prev, f) /\ pos + Len(Upto(p, PromptCap)) <= MaxCtx)
  BY <1>1, <1>7, <1>9, AskRefused
<1> QED BY <1>8, <1>9

(* The answer that joins the history leaves no words of the user's.        *)
LEMMA AnswerAdds ==
  ASSUME TalkInv, stage = "end", NEW h, h = Push(hist, "assistant", text)
  PROVE  /\ h \in Seq(Message) /\ Len(h) \in 1 .. MaxMsgs /\ Rendered(fam, h) \in Seq(Token)
         /\ Uttered(Rendered(fam, h)) = Uttered(prev)
<1>1. /\ fam \in Family /\ "assistant" \in Role /\ hist \in Seq(Message)
      /\ Len(hist) \in 1 .. MaxMsgs /\ (Len(hist) >= 2 \/ Len(hist) = MaxMsgs)
  BY ChatAssumption DEF TalkInv, HistOK, Role, Sizes
<1>2. text \in Seq(Other) /\ text \in Seq(Token)
  <2>1. text \in Seq(Spoken) /\ Spoken \subseteq Other
    BY Symbols DEF TalkInv, TextOK, Counted
  <2> QED BY <2>1, SpokenTyped, SeqMonotonic
<1>3. h \in Seq(Message) /\ Len(h) \in 1 .. MaxMsgs
  BY <1>1, <1>2, PushIs
<1>4. PICK w \in Seq(Other) : Rendered(fam, h) = Rendered(fam, hist) \o w
  BY <1>1, <1>2, PushRenders
<1>5. PICK r \in Seq(Token) : r = Rendered(fam, hist) /\ prev = Append(r, Header("assistant"))
  BY <1>1, RenderedIs DEF TalkInv, PrevOK
<1>6. r \in Seq(Cell) /\ <<Header("assistant")>> \in Seq(Other)
  BY <1>1, Symbols, SeqMonotonic
<1>7. Append(r, Header("assistant")) = r \o <<Header("assistant")>>
  BY <1>6, Symbols, AppendIsConcat
<1>8. Uttered(r \o <<Header("assistant")>>) = Uttered(r) /\ Uttered(r \o w) = Uttered(r)
  BY <1>6, OthersAdd
<1>9. Rendered(fam, h) \in Seq(Token)
  BY <1>1, <1>3, RenderedIs
<1> QED BY <1>3, <1>4, <1>5, <1>7, <1>8, <1>9

LEMMA EndTalk == TalkInv /\ EndTurn => TalkInv'
<1> SUFFICES ASSUME TalkInv, EndTurn PROVE TalkInv'
  OBVIOUS
<1>1. PICK h : h = Push(hist, "assistant", text)
  OBVIOUS
<1>2. PICK f : f = Rendered(fam, h)
  OBVIOUS
<1>3. /\ stage = "end" /\ stage' = "idle" /\ hist' = h
      /\ IF eager /\ pos < MaxCtx - 1 THEN NextEager /\ \E t \in Guess : Fed(t)
                                      ELSE UNCHANGED vars
      /\ prev' = IF Len(f) < FmtCap THEN f ELSE prev
      /\ UNCHANGED <<fam, eager, gen, text, tl, shown, drawn, cut>>
  BY <1>1, <1>2 DEF EndTurn, Rendered
<1>4. h \in Seq(Message) /\ Len(h) \in 1 .. MaxMsgs /\ f \in Seq(Token) /\ Uttered(f) = Uttered(prev)
  BY <1>1, <1>2, <1>3, AnswerAdds
<1>5. IInv /\ pos \in Nat /\ Pended
  BY EngineTypes DEF TalkInv
<1>6. IInv' /\ Grown /\ pos' \in Nat /\ pos' >= pos /\ pending' = pending
  <2>1. CASE UNCHANGED vars
    BY <1>5, <2>1, StutterIInv, GrownByNone DEF vars
  <2>2. ASSUME NextEager, NEW t \in Guess, Fed(t)
        PROVE  IInv' /\ Grown /\ pos' \in Nat /\ pos' >= pos /\ pending' = pending
    <3>1. Appended(t) /\ pending' = pending /\ t \in Other
      BY <1>5, <2>2, EagerStep, Symbols
    <3> QED BY <1>5, <2>2, <3>1, NextEagerIInv, GrownByOne DEF Appended
  <2> QED BY <1>3, <2>1, <2>2
<1>7. ASSUME InSlab', ~cut' PROVE Uttered(Context') = Uttered(prev')
  <2>1. PICK b \in Seq(Other) : Context' = Context \o b
    BY <1>6 DEF Grown
  <2>2. Context \in Seq(Cell)
    BY <1>5, EngineTypes, ViewIsSeq DEF Context
  <2>3. Uttered(Context') = Uttered(Context)
    BY <2>1, <2>2, OthersAdd
  <2>4. Uttered(Context) = Uttered(prev)
    BY <1>3, <1>5, <1>6, <1>7, EngineAssumption DEF TalkInv, Heeded, InSlab
  <2> QED BY <1>3, <1>4, <2>3, <2>4
<1>8. Heeded'
  <2>1. Uttered(Context)' = Uttered(Context') /\ Uttered(prev)' = Uttered(prev')
    BY DEF Uttered
  <2> QED BY <1>7, <2>1 DEF Heeded
<1>9. TextOK'
  BY <1>3, TextKept DEF TalkInv, Stages
<1>10. HistOK'
  BY <1>3, <1>4 DEF HistOK
<1>11. PrevOK'
  <2>1. Rendered(fam, hist)' = f
    BY <1>2, <1>3 DEF Rendered, Format
  <2>2. prev \in Seq(Token) /\ Len(prev) < FmtCap /\ Len(f) \in Nat /\ FmtCap \in Nat
    BY <1>4, ChatAssumption DEF TalkInv, PrevOK
  <2>3. CASE Len(f) < FmtCap
    <3>1. prev' = f /\ f = f \o <<>> /\ <<>> \in Seq(Token)
      BY <1>3, <1>4, <2>3
    <3>2. Follows(f)'
      BY <3>1 DEF Follows
    <3>3. Follows(f)' => Follows(Rendered(fam, hist))'
      BY <2>1 DEF Follows
    <3> QED BY <1>3, <1>4, <2>3, <3>1, <3>2, <3>3 DEF PrevOK
  <2>4. CASE ~(Len(f) < FmtCap)
    <3>1. prev' = prev /\ Len(Rendered(fam, hist)') >= FmtCap
      BY <1>3, <2>1, <2>2, <2>4
    <3> QED BY <1>3, <2>2, <3>1 DEF PrevOK
  <2> QED BY <2>3, <2>4
<1> QED BY <1>3, <1>5, <1>6, <1>8, <1>9, <1>10, <1>11 DEF TalkInv, Sizes, Pended


LEMMA StepTalk ==
  ASSUME IInv, Pended, NEW t \in Spoken, Step(t)
  PROVE  /\ IInv' /\ Grown /\ Pended' /\ pos' \in Nat /\ pos' >= pos
         /\ drawn \in Seq(Cell) => drawn' \in Seq(Cell)
<1>1. t \in Token /\ t \in Other /\ HostReplay(t)
  BY Symbols DEF Step
<1>2. Appended(t) /\ IInv'
  BY <1>1, HostStep, HostReplayIInv
<1>3. logits' \in Seq(Cell)
  BY <1>2 DEF IInv
<1>4. drawn' = logits' \/ drawn' = drawn
  BY DEF Step
<1>5. Pended'
  BY DEF Step, Pended
<1> QED BY <1>1, <1>2, <1>3, <1>4, <1>5, GrownByOne, EngineTypes DEF Appended

LEMMA ScoreTalk == TalkInv /\ Score => TalkInv'
<1> SUFFICES ASSUME TalkInv, Score PROVE TalkInv'
  OBVIOUS
<1>1. /\ stage = "score" /\ stage' \in {"answer", "idle"}
      /\ UNCHANGED <<fam, eager, hist, prev, gen, text, tl, shown, cut>>
  BY DEF Score
<1>2. IInv /\ Pended /\ pos \in Nat /\ MaxCtx \in Nat
  BY EngineTypes, EngineAssumption DEF TalkInv
<1>3. TextOK'
  BY <1>1, TextKept DEF TalkInv, Stages
<1>4. CASE pos < MaxCtx - 1
  <2>1. PICK t \in Guess : EngineNext(t)
    BY <1>4 DEF Score
  <2>2. drawn' = logits' /\ stage' = "answer"
    BY <1>4 DEF Score
  <2>3. IInv' /\ Grown /\ Pended' /\ pos' \in Nat /\ pos' >= pos
    BY <1>2, <2>1, EngineNextStep
  <2>4. Sizes'
    BY <1>1, <2>2, <2>3 DEF TalkInv, Sizes, IInv
  <2> QED BY <1>1, <1>3, <2>2, <2>3, <2>4, TalkKept
<1>5. CASE ~(pos < MaxCtx - 1)
  <2>1. UNCHANGED vars /\ drawn' = drawn
    BY <1>5 DEF Score
  <2>2. IInv' /\ Grown /\ Pended' /\ pos' = pos
    BY <1>2, <2>1, StutterIInv, GrownByNone DEF vars, Pended
  <2>3. Sizes'
    BY <1>1, <2>1 DEF TalkInv, Sizes
  <2> QED BY <1>1, <1>2, <1>3, <1>5, <2>2, <2>3, TalkKept
<1> QED BY <1>4, <1>5

LEMMA SayTalk ==
  ASSUME TalkInv, stage = "answer", stage' \in {"answer", "end"}, TextOK',
         NEW t \in Spoken,
         IF eager THEN NextEager /\ Fed(t) /\ UNCHANGED drawn ELSE Step(t),
         gen' \in 0 .. MaxTokens, UNCHANGED <<fam, eager, hist, prev, cut>>
  PROVE  TalkInv'
<1>1. IInv /\ Pended /\ pos \in Nat /\ drawn \in Seq(Cell)
  BY EngineTypes DEF TalkInv, Sizes
<1>2. IInv' /\ Grown /\ Pended' /\ pos' \in Nat /\ pos' >= pos /\ drawn' \in Seq(Cell)
  <2>1. CASE Step(t)
    BY <1>1, <2>1, StepTalk
  <2>2. CASE NextEager /\ Fed(t) /\ UNCHANGED drawn
    <3>1. Appended(t) /\ pending' = pending /\ t \in Other
      BY <1>1, <2>2, EagerStep, Symbols
    <3> QED BY <1>1, <2>2, <3>1, NextEagerIInv, GrownByOne DEF Appended, Pended
  <2> QED BY <2>1, <2>2
<1>3. Sizes'
  BY <1>2 DEF TalkInv, Sizes
<1> QED BY <1>2, <1>3, TalkKept

LEMMA TalkNext ==
  ASSUME ScratchFits, TalkInv, [ChatNext]_chatAll
  PROVE  TalkInv'
<1>1. TextOK'
  BY TextNext DEF TalkInv
<1>2. ASSUME NEW u \in Inputs, Ask(u) PROVE TalkInv'
  BY <1>2, AskTalk
<1>3. CASE Score
  BY <1>3, ScoreTalk
<1>4. MaxTokens \in Nat /\ gen \in 0 .. MaxTokens
  BY ChatAssumption DEF TalkInv, Sizes
<1>5. CASE SayEos
  <2>1. PICK t \in Eos : IF eager THEN NextEager /\ Fed(t) /\ UNCHANGED drawn ELSE Step(t)
    BY <1>5 DEF SayEos
  <2>2. t \in Spoken
    BY ChatAssumption
  <2>3. /\ stage = "answer" /\ stage' \in {"answer", "end"} /\ gen' \in 0 .. MaxTokens
        /\ UNCHANGED <<fam, eager, hist, prev, cut>>
    BY <1>4, <1>5 DEF SayEos
  <2> QED BY <1>1, <2>1, <2>2, <2>3, SayTalk
<1>6. CASE Say
  <2>1. PICK t \in Spoken : IF eager THEN NextEager /\ Fed(t) /\ UNCHANGED drawn ELSE Step(t)
    BY <1>6 DEF Say
  <2>2. stage = "answer" /\ stage' \in {"answer", "end"} /\ UNCHANGED <<fam, eager, hist, prev, cut>>
    BY <1>6 DEF Say
  <2>3. gen' \in 0 .. MaxTokens
    <3>1. gen < MaxTokens /\ (gen' = gen + 1 \/ gen' = gen)
      BY <1>6 DEF Say, Goes
    <3> QED BY <1>4, <3>1
  <2> QED BY <1>1, <2>1, <2>2, <2>3, SayTalk
<1>7. CASE AnswerDone \/ UNCHANGED chatAll
  <2>1. /\ UNCHANGED <<vars, fam, eager, hist, prev, gen, cut, drawn>>
        /\ \/ stage = "answer" /\ stage' = "end"
           \/ stage' = stage
    BY <1>7 DEF AnswerDone, chatAll, chatVars
  <2>2. IInv' /\ Pended' /\ Sizes' /\ Grown /\ pos' = pos /\ pos \in Nat
    BY <2>1, StutterIInv, GrownByNone, EngineTypes DEF TalkInv, Pended, Sizes, vars
  <2>3. CASE stage # "idle"
    BY <1>1, <2>1, <2>2, <2>3, TalkKept
  <2>4. CASE stage = "idle"
    <3>1. Heeded'
      BY <2>1, <2>2, HeededKept DEF TalkInv
    <3>2. HistOK'
      BY <2>1, <2>4 DEF TalkInv, HistOK
    <3>3. Rendered(fam, hist)' = Rendered(fam, hist)
      BY <2>1 DEF Rendered, Format
    <3>4. Follows(Rendered(fam, hist))' <=> Follows(Rendered(fam, hist))
      BY <2>1, <3>3 DEF Follows
    <3>5. PrevOK'
      BY <2>1, <2>2, <2>4, <3>3, <3>4 DEF TalkInv, PrevOK
    <3> QED BY <1>1, <2>2, <3>1, <3>2, <3>5 DEF TalkInv
  <2> QED BY <2>3, <2>4
<1>8. CASE EndTurn
  BY <1>8, EndTalk
<1> QED BY <1>2, <1>3, <1>5, <1>6, <1>7, <1>8 DEF ChatNext, ChatTurn

(* What the next rendering extends.                                        *)
LEMMA NextExtends ==
  ASSUME TalkInv, stage = "idle", pos < MaxCtx - 1, NEW u \in Inputs, NEW f,
         f = Format(fam, Push(hist, "user", u), TRUE), Len(f) < FmtCap
  PROVE  IsPrefix(prev, f)
<1>1. PICK h : h = Push(hist, "user", u)
  OBVIOUS
<1>2. /\ u \in Seq(Token) /\ fam \in Family /\ "user" \in Role
      /\ hist \in Seq(Message) /\ Len(hist) \in 1 .. MaxMsgs
  BY Symbols, ChatAssumption DEF TalkInv, HistOK, Role, Sizes
<1>3. h \in Seq(Message) /\ \E w \in Seq(Token) : Rendered(fam, h) = Rendered(fam, hist) \o w
  BY <1>1, <1>2, PushIs, PushRenders
<1>4. PICK w \in Seq(Token) : Rendered(fam, h) = Rendered(fam, hist) \o w
  BY <1>3
<1>5. PICK r \in Seq(Token) : r = Rendered(fam, hist)
  BY <1>2, RenderedIs
<1>6. Header("assistant") \in Token
  BY Symbols DEF Role
<1>7. PICK a \in Seq(Token) : a = <<Header("assistant")>>
  <2>1. <<Header("assistant")>> \in Seq(Token)
    BY <1>6
  <2> QED BY <2>1
<1>8. f = (r \o w) \o a
  <2>1. f = Append(Rendered(fam, h), Header("assistant")) /\ Rendered(fam, h) \in Seq(Token)
    BY <1>1, <1>2, <1>3, RenderedIs
  <2> QED BY <1>4, <1>5, <1>6, <1>7, <2>1, AppendIsConcat
<1>9. Len(r) < FmtCap
  <2>1. r \o w \in Seq(Token) /\ Len(r \o w) = Len(r) + Len(w)
    BY ConcatProperties
  <2>2. Len(f) = Len(r \o w) + Len(a)
    BY <1>8, <2>1, ConcatProperties
  <2>3. Len(r) \in Nat /\ Len(w) \in Nat /\ Len(a) \in Nat /\ FmtCap \in Nat
    BY ChatAssumption
  <2>4. PICK i, j, k \in Nat : i = Len(r) /\ j = Len(w) /\ k = Len(a)
    BY <2>3
  <2>5. PICK n : n = Len(f)
    OBVIOUS
  <2>6. n = (i + j) + k /\ n < FmtCap
    BY <2>1, <2>2, <2>4, <2>5
  <2>7. i < FmtCap
    BY <2>3, <2>4, <2>6
  <2> QED BY <2>4, <2>7
<1>10. Follows(r)
  BY <1>5, <1>9, EngineTypes, EngineAssumption, ChatAssumption DEF TalkInv, PrevOK
<1>11. PICK v \in Seq(Token) : r = prev \o v
  BY <1>10 DEF Follows
<1>12. prev \in Seq(Token)
  BY DEF TalkInv, PrevOK
<1>13. f = prev \o (v \o w \o a) /\ v \o w \o a \in Seq(Token)
  <2>1. /\ v \o w \in Seq(Token) /\ (v \o w) \o a \in Seq(Token)
        /\ (prev \o v) \o w \in Seq(Token)
    BY <1>12, ConcatProperties
  <2>2. (prev \o v) \o w = prev \o (v \o w)
    BY <1>12, ConcatAssociative
  <2>3. PICK q \in Seq(Token) : q = v \o w
    BY <2>1
  <2>4. (prev \o q) \o a = prev \o (q \o a)
    BY <1>12, ConcatAssociative
  <2> QED BY <1>8, <1>11, <2>1, <2>2, <2>3, <2>4
<1> QED BY <1>12, <1>13, PrefixOfConcat

(* The invariant of the conversation.                                      *)
THEOREM ChatInvariant ==
  ASSUME ScratchFits
  PROVE  ChatSpec => []TalkInv
<1>1. ChatInit => TalkInv
  BY TalkInit
<1>2. TalkInv /\ [ChatNext]_chatAll => TalkInv'
  BY TalkNext
<1> QED BY <1>1, <1>2, PTL DEF ChatSpec

LEMMA TalkTypes == TalkInv => ChatTypeOK
<1> SUFFICES ASSUME TalkInv PROVE ChatTypeOK
  OBVIOUS
<1>1. TypeOK
  BY DEF TalkInv, IInv, Sound, State, Dev, SlotsOK, TypeOK
<1>2. text \in Seq(Token) /\ tl \in 0 .. Len(text) /\ shown \in 0 .. tl
  BY SpokenTyped DEF TalkInv, TextOK, Counted
<1>3. Len(hist) <= MaxMsgs
  BY TemplateAssumption DEF TalkInv, HistOK
<1> QED BY <1>1, <1>2, <1>3 DEF TalkInv, Sizes, HistOK, PrevOK, TextOK, Counted, Stages, ChatTypeOK

(* Within the capacity, and unless a prompt was cut off, what the user said*)
(* behind the cursor reached the K/V cache once and in order, and the next *)
(* rendering extends what was fed, whatever the model answered, however    *)
(* full the history is and whatever was refused.                           *)
THEOREM MessagesArrive ==
  ASSUME ScratchFits
  PROVE  ChatSpec => []MessagesReachCache
<1>1. TalkInv => MessagesReachCache
  BY NextExtends DEF TalkInv, Heeded, MessagesReachCache
<1> QED BY <1>1, ChatInvariant, PTL


-----------------------------------------------------------------------------
(* What the host samples from.                                             *)

(* Captures do not fail, and the table has a slot for every dispatch key.  *)
GraphsWork == /\ EmbedInGraph /\ CaptureFaults = {}
              /\ Cardinality({Dispatch[p] : p \in 0 .. MaxCtx}) <= GraphSlots

(* With a slot to a key, one is free for a key that has none.              *)
LEMMA CaptureSucceeds ==
  ASSUME GraphsWork, IInv, NEW p \in 0 .. MaxCtx, ~HasGraph(p)
  PROVE  ~CaptureSoft /\ ~CaptureHard
<1> DEFINE K == {Dispatch[q] : q \in 0 .. MaxCtx}
           c == Captured(p)
           T == graphs \cup {c}
           d == [q \in 0 .. MaxCtx |-> Dispatch[q]]
           f == [g \in T |-> g.key]
<1>1. IsFiniteSet(K) /\ Cardinality(K) \in Nat
  <2>1. MaxCtx \in Int /\ IsFiniteSet(0 .. MaxCtx)
    <3>1. 0 \in Int /\ MaxCtx \in Int
      BY EngineAssumption
    <3> QED BY <3>1, FS_Interval
  <2>2. d \in Surjection(0 .. MaxCtx, K)
    BY DEF Surjection
  <2> QED BY <2>1, <2>2, FS_Surjection, FS_CardinalityType
<1>2. c.key = Dispatch[p] /\ c.key \in K /\ \A g \in graphs : g.key # c.key
  BY DEF Captured, HasGraph
<1>3. \A g \in graphs : g.key \in K
  BY DEF IInv, SlotsOK, Graph
<1>4. f \in Injection(T, K)
  <2>1. f \in [T -> K]
    BY <1>2, <1>3
  <2>2. ASSUME NEW g \in T, NEW h \in T, f[g] = f[h] PROVE g = h
    <3>1. g.key = h.key
      BY <2>2
    <3> QED BY <1>2, <3>1 DEF IInv, SlotsOK, GraphKeysUnique
  <2> QED BY <2>1, <2>2 DEF Injection, IsInjective
<1>5. IsFiniteSet(T) /\ Cardinality(T) <= Cardinality(K)
  BY <1>1, <1>4, FS_Injection
<1>6. c \notin graphs
  BY <1>2
<1>7. IsFiniteSet(graphs)
  BY <1>5, FS_Subset
<1>8. Cardinality(T) = Cardinality(graphs) + 1 /\ Cardinality(graphs) \in Nat
  BY <1>6, <1>7, FS_AddElement, FS_CardinalityType
<1> HIDE DEF T, K
<1>9. Cardinality(graphs) < GraphSlots
  BY <1>1, <1>5, <1>8, EngineAssumption DEF GraphsWork, K
<1>10. GraphSlots \in Nat
  BY EngineAssumption
<1> QED BY <1>8, <1>9, <1>10 DEF GraphsWork, CaptureSoft, CaptureHard


(* The engine's part, in either mode, and what the graph mode adds.        *)
Drawing == /\ ~noGraph
           /\ pending # None => graphs # {}
           /\ stage = "score" => pending = None
           /\ stage = "answer" => logits = Context
           /\ stage \in {"answer", "end", "idle"} /\ pending # None => drawn = Context
DrawInv == hid = Context /\ (~eager => Drawing)

LEMMA DrawInit == ChatInit => DrawInv
<1> SUFFICES ASSUME ChatInit PROVE DrawInv
  OBVIOUS
<1>1. pos = 0 /\ kv \in [Row -> Cell] /\ hid = <<>>
  BY DEF ChatInit, Cell
<1>2. Context \in Seq(Cell) /\ Len(Context) = 0
  BY <1>1, ViewLen DEF Context
<1>3. hid = Context
  BY <1>1, <1>2, EmptySeq
<1> QED BY <1>3 DEF ChatInit, DrawInv, Drawing

LEMMA HasGraphs == ASSUME NEW p, HasGraph(p) PROVE graphs # {}
BY DEF HasGraph

LEMMA CapturedGraphs ==
  ASSUME NEW p, ~HasGraph(p), CaptureOk(p)
  PROVE  graphs' # {} /\ graphs' # graphs
<1>1. Captured(p).key = Dispatch[p]
  BY DEF Captured
<1>2. Captured(p) \notin graphs
  BY <1>1 DEF HasGraph
<1>3. graphs' = graphs \cup {Captured(p)}
  BY DEF CaptureOk
<1> QED BY <1>2, <1>3

(* Sampling: the logits are of all that is held.                           *)
LEMMA SampleDraws ==
  ASSUME GraphsWork, IInv, hid = Context, NextSample
  PROVE  hid' = Context' /\ logits' = Context' /\ noGraph' = noGraph /\ graphs' # {}
<1>1. /\ Sound(Dev) /\ Dev.pos = pos /\ Dev.kv = kv /\ Dev.hid = hid /\ pos \in Nat
      /\ MaxCtx \in Nat /\ pos < MaxCtx - 1 /\ pending \in Cell
  BY EngineTypes, EngineAssumption DEF NextSample
<1>2. PICK m : m = IF pending = None THEN Dev ELSE Advance(Dev, pending)
  OBVIOUS
<1>3. m.pos \in 0 .. MaxCtx /\ m.hid = View(m.kv, m.pos)
  <2>1. CASE pending = None
    BY <1>1, <1>2, <2>1 DEF Context
  <2>2. CASE pending # None
    <3>1. pending \in Token /\ m = Advance(Dev, pending)
      BY <1>1, <1>2, <2>2 DEF Cell
    <3>2. m.pos = Dev.pos + 1 /\ m.hid = View(m.kv, m.pos)
      BY <1>1, <3>1, AdvanceView
    <3> QED BY <1>1, <3>2
  <2> QED BY <2>1, <2>2
<1>4. PICK x \in Token :
        /\ logits' = m.hid
        /\ \/ /\ Commit(m) /\ noGraph' = noGraph
              /\ IF HasGraph(m.pos) THEN UNCHANGED <<graphs, ready>>
                                    ELSE CaptureOk(m.pos) \/ CaptureSoft
           \/ ~HasGraph(m.pos) /\ CaptureHard
  BY <1>2, Zenon DEF NextSample
<1>5. ~HasGraph(m.pos) => ~CaptureSoft /\ ~CaptureHard
  BY <1>3, CaptureSucceeds
<1>6. Commit(m) /\ noGraph' = noGraph /\ logits' = m.hid
  BY <1>4, <1>5
<1>7. graphs' # {}
  BY <1>4, <1>5, HasGraphs, CapturedGraphs
<1> QED BY <1>3, <1>6, <1>7 DEF Commit, Context

LEMMA StepDraws ==
  ASSUME GraphsWork, IInv, NEW t \in Spoken, Step(t)
  PROVE  /\ hid' = Context' /\ logits' = Context' /\ noGraph' = noGraph /\ graphs' # {}
         /\ drawn' = Context'
<1>1. t \in Token /\ HostReplay(t) /\ pos \in 0 .. MaxCtx
  BY Symbols, EngineTypes, EngineAssumption DEF Step, HostReplay
<1>2. hid' = Context' /\ logits' = Context'
  BY <1>1, HostStep DEF Appended
<1>3. CASE HasGraph(pos)
  <2>1. Replay(t)
    BY <1>1, <1>3 DEF HostReplay
  <2>2. noGraph' = noGraph /\ graphs' = graphs
    BY <2>1 DEF Replay, graphVars
  <2>3. drawn' = logits'
    BY <1>3 DEF Step
  <2> QED BY <1>2, <1>3, <2>2, <2>3, HasGraphs
<1>4. CASE ~HasGraph(pos)
  <2>1. ~CaptureSoft /\ ~CaptureHard
    BY <1>1, <1>4, CaptureSucceeds
  <2>2. CaptureOk(pos) /\ noGraph' = noGraph
    BY <1>1, <1>4, <2>1 DEF HostReplay
  <2>3. graphs' # {} /\ graphs' # graphs
    BY <1>4, <2>2, CapturedGraphs
  <2>4. drawn' = logits'
    BY <2>3 DEF Step
  <2> QED BY <1>2, <2>2, <2>3, <2>4
<1> QED BY <1>3, <1>4

LEMMA EngineNextDraws ==
  ASSUME GraphsWork, IInv, hid = Context, NEW t \in Guess, EngineNext(t)
  PROVE  /\ hid' = Context'
         /\ ~noGraph => logits' = Context' /\ noGraph' = noGraph /\ graphs' # {}
<1>1. CASE NextEager /\ Fed(t)
  <2>1. Appended(t) /\ noGraph
    BY <1>1, EagerStep DEF NextEager
  <2> QED BY <2>1 DEF Appended
<1>2. CASE NextReplay
  <2>1. pending \in Token /\ pos + 1 <= MaxCtx /\ Replay(pending) /\ HasGraph(pos)
    BY <1>2, EngineTypes, EngineAssumption DEF NextReplay, Cell
  <2>2. Appended(pending) /\ logits' = Context'
    BY <2>1, ReplayStep
  <2> QED BY <2>1, <2>2, HasGraphs DEF Replay, graphVars, Appended
<1>3. CASE NextSample
  BY <1>3, SampleDraws
<1> QED BY <1>1, <1>2, <1>3 DEF EngineNext


LEMMA DrawNext ==
  ASSUME ScratchFits, GraphsWork, TalkInv, DrawInv, [ChatNext]_chatAll
  PROVE  DrawInv'
<1>1. IInv /\ Pended /\ hid = Context
  BY DEF TalkInv, DrawInv
<1>2. ASSUME UNCHANGED <<vars, eager, drawn>>,
             \/ stage' = stage
             \/ stage \in {"answer", "end"} /\ stage' \in {"end", "idle"}
             \/ stage = "score" /\ stage' = "idle"
      PROVE  DrawInv'
  <2>1. hid' = Context' /\ Context' = Context
    BY <1>1, <1>2, HoldingKept DEF vars
  <2>2. ~eager => Drawing'
    BY <1>2, <2>1 DEF DrawInv, Drawing, vars
  <2> QED BY <1>2, <2>1, <2>2 DEF DrawInv
<1>3. ASSUME NEW t, Fed(t), NextEager, eager, eager' = eager PROVE DrawInv'
  <2>1. hid' = Context'
    BY <1>1, <1>3, EagerStep DEF Appended
  <2> QED BY <1>3, <2>1 DEF DrawInv
<1>4. ASSUME NEW u \in Inputs, Ask(u) PROVE DrawInv'
  <2>1. PICK f, p : f = Format(fam, Push(hist, "user", u), TRUE)
                    /\ p = Encoded(fam, SubSeq(f, Len(prev) + 1, Len(f)))
    OBVIOUS
  <2>2. /\ eager' = eager /\ drawn' = drawn
        /\ \/ UNCHANGED <<vars, stage>>
           \/ /\ Prefill(Upto(p, PromptCap)) /\ IsPrefix(prev, f)
              /\ stage' = IF eager THEN "answer" ELSE "score"
    BY <1>4, <2>1 DEF Ask
  <2>3. CASE UNCHANGED <<vars, stage>>
    BY <1>2, <2>2, <2>3
  <2>4. CASE /\ Prefill(Upto(p, PromptCap)) /\ IsPrefix(prev, f)
             /\ stage' = IF eager THEN "answer" ELSE "score"
    <3>1. f \in Seq(Token) /\ prev \in Seq(Token)
      <4>1. /\ u \in Seq(Token) /\ fam \in Family /\ "user" \in Role
            /\ hist \in Seq(Message) /\ Len(hist) \in 1 .. MaxMsgs
        BY Symbols, ChatAssumption DEF TalkInv, HistOK, Role, Sizes
      <4>2. Push(hist, "user", u) \in Seq(Message)
        BY <4>1, PushIs
      <4> QED BY <2>1, <4>1, <4>2, RenderedIs DEF TalkInv, PrevOK
    <3>2. PICK w \in Seq(Token) : w = SubSeq(f, Len(prev) + 1, Len(f))
      BY <2>4, <3>1, PrefixSplits
    <3>3. p \in Seq(Token)
      BY <2>1, <3>2, EncodedIs
    <3>4. Upto(p, PromptCap) \in Seq(Token)
      BY <3>3, UptoAll, ChatAssumption
    <3>5. hid' = Context'
      BY <1>1, <2>4, <3>4, PrefillHidden
    <3>6. ASSUME ~eager PROVE Drawing'
      <4>1. ~noGraph /\ (pending # None => graphs # {})
        BY <3>6 DEF DrawInv, Drawing
      <4>2. pending # None => Flushing
        BY <1>1, <4>1 DEF Flushing, IInv, SlotsOK, ReadyIffGraphs
      <4>3. pending' = None /\ graphs' = graphs /\ noGraph' = noGraph
        BY <2>4, <4>2 DEF Prefill, graphVars
      <4> QED BY <2>4, <3>6, <4>1, <4>3 DEF Drawing
    <3> QED BY <2>2, <3>5, <3>6 DEF DrawInv
  <2> QED BY <2>2, <2>3, <2>4
<1>5. CASE Score
  <2>1. CASE pos < MaxCtx - 1
    <3>1. PICK t \in Guess : EngineNext(t)
      BY <1>5, <2>1 DEF Score
    <3>2. drawn' = logits' /\ stage' = "answer" /\ eager' = eager
      BY <1>5, <2>1 DEF Score
    <3>3. /\ hid' = Context'
          /\ ~noGraph => logits' = Context' /\ noGraph' = noGraph /\ graphs' # {}
      BY <1>1, <3>1, EngineNextDraws
    <3>4. ~eager => Drawing'
      BY <3>2, <3>3 DEF DrawInv, Drawing
    <3> QED BY <3>2, <3>3, <3>4 DEF DrawInv
  <2>2. CASE ~(pos < MaxCtx - 1)
    <3>1. UNCHANGED <<vars, eager, drawn>> /\ stage = "score" /\ stage' = "idle"
      BY <1>5, <2>2 DEF Score
    <3> QED BY <1>2, <3>1
  <2> QED BY <2>1, <2>2
<1>6. ASSUME NEW t \in Spoken, stage' \in {"answer", "end"}, eager' = eager,
             IF eager THEN NextEager /\ Fed(t) /\ UNCHANGED drawn ELSE Step(t)
      PROVE  DrawInv'
  <2>1. CASE eager
    BY <1>3, <1>6, <2>1
  <2>2. CASE ~eager
    <3>1. /\ hid' = Context' /\ logits' = Context' /\ noGraph' = noGraph /\ graphs' # {}
          /\ drawn' = Context'
      BY <1>1, <1>6, <2>2, StepDraws
    <3>2. Drawing'
      BY <1>6, <2>2, <3>1 DEF DrawInv, Drawing
    <3> QED BY <3>1, <3>2 DEF DrawInv
  <2> QED BY <2>1, <2>2
<1>7. CASE SayEos
  BY <1>6, <1>7, ChatAssumption DEF SayEos
<1>8. CASE Say
  BY <1>6, <1>8 DEF Say
<1>9. CASE AnswerDone
  BY <1>2, <1>9 DEF AnswerDone
<1>10. CASE EndTurn
  <2>1. /\ stage = "end" /\ stage' = "idle" /\ eager' = eager /\ drawn' = drawn
        /\ IF eager /\ pos < MaxCtx - 1 THEN NextEager /\ \E t \in Guess : Fed(t)
                                        ELSE UNCHANGED vars
    BY <1>10 DEF EndTurn
  <2> QED BY <1>2, <1>3, <2>1
<1>11. CASE UNCHANGED chatAll
  BY <1>2, <1>11 DEF chatAll, chatVars
<1> QED BY <1>4, <1>5, <1>7, <1>8, <1>9, <1>10, <1>11 DEF ChatNext, ChatTurn

(* In graph mode, if no capture fails, the host always samples from logits *)
(* of exactly what the cache holds, and the token a turn leaves pending was*)
(* drawn from all of it, whatever was fed, captured or refused before.     *)
THEOREM DrawsFromContext ==
  ASSUME ScratchFits, GraphsWork
  PROVE  ChatSpec => []DrawnFromContext
<1>1. ChatInit => DrawInv
  BY DrawInit
<1>2. TalkInv /\ DrawInv /\ [ChatNext]_chatAll => DrawInv'
  BY DrawNext
<1>3. TalkInv /\ DrawInv => DrawnFromContext
  BY TalkTypes DEF DrawInv, Drawing, DrawnFromContext
<1> QED BY <1>1, <1>2, <1>3, ChatInvariant, PTL DEF ChatSpec

=============================================================================
