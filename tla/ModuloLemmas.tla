---------------------------- MODULE ModuloLemmas ----------------------------
(***************************************************************************)
(* Arithmetic of counters that are reduced modulo the size of a ring.      *)
(***************************************************************************)
EXTENDS Integers, TLAPS

(* Division with remainder.                                                *)
LEMMA Division ==
  ASSUME NEW n \in Nat \ {0}, NEW a \in Int
  PROVE  a = n * (a \div n) + (a % n) /\ a % n \in 0 .. n - 1 /\ a \div n \in Int
OBVIOUS

(* The remainder is the only one.                                          *)
LEMMA Remainder ==
  ASSUME NEW n \in Nat \ {0}, NEW q \in Int, NEW r \in 0 .. n - 1
  PROVE  (n * q + r) % n = r
<1> DEFINE a == n * q + r
           p == a \div n
           s == a % n
<1>0. a \in Int /\ a = n * q + r
  OBVIOUS
<1> HIDE DEF a
<1>1. a = n * p + s /\ s \in 0 .. n - 1 /\ p \in Int
  BY <1>0, Division
<1>2. n * (q - p) = s - r /\ q - p \in Int
  <2>1. n * (q - p) = n * q - n * p
    BY <1>1
  <2> QED BY <2>1, <1>0, <1>1
<1>3. n * (q - p) < n /\ n * (q - p) > -n
  BY <1>1, <1>2
<1> HIDE DEF p, s
<1>4. ASSUME NEW d \in Int, n * d < n, n * d > -n PROVE d = 0
  <2>1. CASE d >= 1
    <3>1. n * d >= n BY <2>1, <1>4
    <3> QED BY <3>1, <1>4
  <2>2. CASE d <= -1
    <3>1. n * d <= -n BY <2>2, <1>4
    <3> QED BY <3>1, <1>4
  <2> QED BY <2>1, <2>2, <1>4
<1>5. q - p = 0
  BY <1>2, <1>3, <1>4
<1>6. s = r
  BY <1>2, <1>5, <1>1
<1> QED BY <1>6 DEF s, a

(* Remainders that agree are a multiple of n apart.                        *)
LEMMA SameRemainder ==
  ASSUME NEW n \in Nat \ {0}, NEW a \in Int, NEW b \in Int, a % n = b % n
  PROVE  \E k \in Int : b - a = n * k
<1>1. b - a = n * (b \div n) - n * (a \div n)
  BY Division
<1>2. b - a = n * ((b \div n) - (a \div n)) /\ (b \div n) - (a \div n) \in Int
  BY <1>1, Division
<1> QED BY <1>2

(* Adding a multiple of n changes no remainder.                            *)
LEMMA Multiple ==
  ASSUME NEW n \in Nat \ {0}, NEW a \in Int, NEW k \in Int
  PROVE  (a + n * k) % n = a % n
<1> DEFINE q == (a \div n) + k
<1>1. a + n * k = n * q + (a % n) /\ q \in Int /\ a % n \in 0 .. n - 1
  BY Division
<1> HIDE DEF q
<1> QED BY <1>1, Remainder

(* A counter may be reduced before it is moved on.                         *)
LEMMA ReducedFirst ==
  ASSUME NEW n \in Nat \ {0}, NEW a \in Int, NEW b \in Int
  PROVE  ((a % n) + b) % n = (a + b) % n
<1>1. a + b = ((a % n) + b) + n * (a \div n) /\ (a % n) + b \in Int /\ a \div n \in Int
  BY Division
<1> QED BY <1>1, Multiple

(* Counters less than n apart name different places of a ring.             *)
LEMMA Apart ==
  ASSUME NEW n \in Nat \ {0}, NEW a \in Int, NEW b \in Int, a < b, b - a < n
  PROVE  a % n # b % n
<1> SUFFICES ASSUME a % n = b % n PROVE FALSE
  OBVIOUS
<1>1. PICK k \in Int : b - a = n * k
  BY SameRemainder
<1>2. CASE k >= 1
  <2>1. n * k >= n BY <1>2
  <2> QED BY <2>1, <1>1
<1>3. CASE k <= 0
  <2>1. n * k <= 0 BY <1>3
  <2> QED BY <2>1, <1>1
<1> QED BY <1>2, <1>3

=============================================================================
