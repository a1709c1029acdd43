--------------------------- MODULE FixedWidth_proofs ---------------------------
EXTENDS FixedWidth, WellFoundedInduction, TLAPS

(* Induction over the naturals, for a set of them.                         *)
LEMMA SetInduction ==
    ASSUME NEW S, 0 \in S, \A n \in Nat : n \in S => n + 1 \in S
    PROVE  Nat \subseteq S
<1>1. SUFFICES ASSUME Nat \ S # {} PROVE FALSE
    OBVIOUS
<1>2. \E x \in Nat \ S : \A y \in Nat \ S : <<y, x>> \notin OpToRel(<, Nat)
    BY <1>1, WFMin, NatLessThanWellFounded
<1>3. PICK x \in Nat \ S : \A y \in Nat \ S : <<y, x>> \notin OpToRel(<, Nat)
    BY <1>2
<1>4. x # 0 /\ x - 1 \in Nat
    OBVIOUS
<1>5. x - 1 \notin S
    BY <1>4
<1>6. <<x - 1, x>> \in OpToRel(<, Nat)
    BY <1>4 DEF OpToRel
<1> QED
    BY <1>3, <1>4, <1>5, <1>6

-----------------------------------------------------------------------------
(* Pow2 is what its definition says: the functions that satisfy it up to   *)
(* some number exist and agree with each other.                            *)
Doubles(g, k) == g \in [0..k -> Nat \ {0}] /\ g[0] = 1 /\ \A i \in 1..k : g[i] = 2 * g[i - 1]

LEMMA DoublesExists == \A k \in Nat : \E g : Doubles(g, k)
<1> DEFINE S == {k \in Nat : \E g : Doubles(g, k)}
<1>1. 0 \in S
  <2>1. Doubles([i \in 0..0 |-> 1], 0)
    BY DEF Doubles
  <2> QED BY <2>1
<1>2. ASSUME NEW k \in Nat, k \in S PROVE k + 1 \in S
  <2>1. PICK g : Doubles(g, k)
    BY <1>2
  <2> DEFINE h == [i \in 0..(k + 1) |-> IF i = k + 1 THEN 2 * g[k] ELSE g[i]]
  <2>2. h \in [0..(k + 1) -> Nat \ {0}]
    BY <2>1 DEF Doubles
  <2>3. h[0] = 1
    BY <2>1 DEF Doubles
  <2>4. \A i \in 1..(k + 1) : h[i] = 2 * h[i - 1]
    BY <2>1 DEF Doubles
  <2>5. Doubles(h, k + 1)
    BY <2>2, <2>3, <2>4 DEF Doubles
  <2> QED BY <2>5
<1> HIDE DEF S
<1>3. Nat \subseteq S
  BY <1>1, <1>2, SetInduction
<1> QED BY <1>3 DEF S

LEMMA DoublesAgree ==
    ASSUME NEW k \in Nat, NEW l \in Nat, NEW g, NEW h, Doubles(g, k), Doubles(h, l), k <= l
    PROVE  \A i \in 0..k : g[i] = h[i]
<1> DEFINE S == {i \in Nat : i <= k => g[i] = h[i]}
<1>1. 0 \in S
  BY DEF Doubles
<1>2. ASSUME NEW i \in Nat, i \in S PROVE i + 1 \in S
  <2>1. ASSUME i + 1 <= k PROVE g[i + 1] = h[i + 1]
    <3>1. g[i] = h[i]
      BY <1>2, <2>1
    <3>2. i + 1 \in 1..k /\ i + 1 \in 1..l /\ (i + 1) - 1 = i
      BY <2>1
    <3> QED BY <3>1, <3>2 DEF Doubles
  <2> QED BY <2>1
<1> HIDE DEF S
<1>3. Nat \subseteq S
  BY <1>1, <1>2, SetInduction
<1> QED BY <1>3 DEF S

LEMMA Pow2Def == Pow2 = [n \in Nat |-> IF n = 0 THEN 1 ELSE 2 * Pow2[n - 1]]
<1> DEFINE G(k) == CHOOSE g : Doubles(g, k)
           f == [n \in Nat |-> G(n)[n]]
<1>1. \A k \in Nat : Doubles(G(k), k)
  BY DoublesExists, Zenon
<1> HIDE DEF G
<1>2. ASSUME NEW n \in Nat, n # 0 PROVE G(n)[n] = 2 * G(n - 1)[n - 1]
  <2>1. n - 1 \in Nat /\ n - 1 <= n
    BY <1>2
  <2>2. Doubles(G(n), n) /\ Doubles(G(n - 1), n - 1)
    BY <1>1, <2>1
  <2>3. G(n)[n] = 2 * G(n)[n - 1]
    BY <2>2, <1>2 DEF Doubles
  <2>4. G(n - 1)[n - 1] = G(n)[n - 1]
    BY <2>1, <2>2, DoublesAgree
  <2> QED BY <2>3, <2>4
<1>3. G(0)[0] = 1
  BY <1>1 DEF Doubles
<1>4. f = [n \in Nat |-> IF n = 0 THEN 1 ELSE 2 * f[n - 1]]
  BY <1>2, <1>3
<1> HIDE DEF f
<1>5. \E g : g = [n \in Nat |-> IF n = 0 THEN 1 ELSE 2 * g[n - 1]]
  BY <1>4
<1> QED BY <1>5, Zenon DEF Pow2

LEMMA Pow2Zero == Pow2[0] = 1
BY Pow2Def

LEMMA Pow2Next == ASSUME NEW n \in Nat PROVE Pow2[n + 1] = 2 * Pow2[n]
<1>1. n + 1 \in Nat /\ n + 1 # 0 /\ (n + 1) - 1 = n
  OBVIOUS
<1> QED BY <1>1, Pow2Def

LEMMA Pow2Type == \A n \in Nat : Pow2[n] \in Nat \ {0}
<1> DEFINE S == {n \in Nat : Pow2[n] \in Nat \ {0}}
<1>1. 0 \in S
  BY Pow2Zero
<1>2. ASSUME NEW n \in Nat, n \in S PROVE n + 1 \in S
  BY <1>2, Pow2Next
<1> HIDE DEF S
<1>3. Nat \subseteq S
  BY <1>1, <1>2, SetInduction
<1> QED BY <1>3 DEF S

(* A larger power is a multiple of a smaller one.                          *)
LEMMA Pow2Sum == \A i, j \in Nat : Pow2[i + j] = Pow2[i] * Pow2[j]
<1> SUFFICES ASSUME NEW i \in Nat PROVE \A j \in Nat : Pow2[i + j] = Pow2[i] * Pow2[j]
  OBVIOUS
<1> DEFINE S == {j \in Nat : Pow2[i + j] = Pow2[i] * Pow2[j]}
<1>1. 0 \in S
  BY Pow2Zero, Pow2Type
<1>2. ASSUME NEW j \in Nat, j \in S PROVE j + 1 \in S
  <2>1. i + j \in Nat /\ i + (j + 1) = (i + j) + 1
    OBVIOUS
  <2>2. Pow2[i + (j + 1)] = 2 * Pow2[i + j]
    BY <2>1, Pow2Next
  <2>3. Pow2[j + 1] = 2 * Pow2[j] /\ Pow2[i] \in Int /\ Pow2[j] \in Int
    BY Pow2Next, Pow2Type
  <2>4. Pow2[i + j] = Pow2[i] * Pow2[j]
    BY <1>2
  <2>5. \A a, b \in Int : 2 * (a * b) = a * (2 * b)
    OBVIOUS
  <2> QED BY <2>2, <2>3, <2>4, <2>5
<1> HIDE DEF S
<1>3. Nat \subseteq S
  BY <1>1, <1>2, SetInduction
<1> QED BY <1>3 DEF S

-----------------------------------------------------------------------------
(* Division.                                                               *)
LEMMA DivMod ==
    ASSUME NEW n \in Int, NEW d \in Nat \ {0}
    PROVE  /\ n \div d \in Int /\ n % d \in 0..(d - 1)
           /\ n = d * (n \div d) + (n % d)
OBVIOUS

LEMMA DivUnique ==
    ASSUME NEW d \in Nat \ {0}, NEW q \in Int, NEW r \in 0..(d - 1)
    PROVE  (d * q + r) \div d = q /\ (d * q + r) % d = r
<1> DEFINE n == d * q + r
           p == n \div d
           s == n % d
<1>1. n \in Int /\ p \in Int /\ s \in 0..(d - 1) /\ n = d * p + s
  BY DivMod
<1>2. d * (p - q) = r - s
  BY <1>1
<1>3. p - q \in Int /\ r - s \in Int /\ r - s < d /\ r - s > -d
  BY <1>1
<1> HIDE DEF n, p, s
<1>4. \A x \in Int : x >= 1 => d * x >= d
  OBVIOUS
<1>5. \A x \in Int : x <= -1 => d * x <= -d
  OBVIOUS
<1>6. p - q = 0
  BY <1>2, <1>3, <1>4, <1>5
<1>7. p = q /\ r = s
  BY <1>1, <1>2, <1>6
<1> QED BY <1>7 DEF n, p, s

LEMMA DivDiv ==
    ASSUME NEW n \in Int, NEW c \in Nat \ {0}, NEW d \in Nat \ {0}
    PROVE  n \div (c * d) = (n \div c) \div d
<1> DEFINE q == n \div c
           r == n % c
           p == q \div d
           s == q % d
<1>1. q \in Int /\ r \in 0..(c - 1) /\ n = c * q + r
  BY DivMod
<1>2. p \in Int /\ s \in 0..(d - 1) /\ q = d * p + s
  BY <1>1, DivMod
<1> HIDE DEF q, r, p, s
<1>3. c * d \in Nat \ {0}
  OBVIOUS
<1>4. n = (c * d) * p + (c * s + r)
  BY <1>1, <1>2
<1>5. c * s + r \in 0..(c * d - 1)
  <2>1. c * s \in Nat /\ c * s <= c * (d - 1)
    BY <1>2
  <2>2. c * (d - 1) = c * d - c
    OBVIOUS
  <2> QED BY <1>1, <2>1, <2>2, <1>3
<1>6. n \div (c * d) = p
  BY <1>2, <1>3, <1>4, <1>5, DivUnique
<1> QED BY <1>6 DEF p, q

LEMMA AddMultiple ==
    ASSUME NEW n \in Int, NEW q \in Int, NEW d \in Nat \ {0}
    PROVE  (n + d * q) \div d = (n \div d) + q /\ (n + d * q) % d = n % d
<1> DEFINE p == n \div d
           r == n % d
<1>1. p \in Int /\ r \in 0..(d - 1) /\ n = d * p + r
  BY DivMod
<1> HIDE DEF p, r
<1>2. n + d * q = d * (p + q) + r /\ p + q \in Int
  BY <1>1
<1>3. (n + d * q) \div d = p + q /\ (n + d * q) % d = r
  BY <1>1, <1>2, DivUnique
<1> QED BY <1>3 DEF p, r

-----------------------------------------------------------------------------
(* Bits.                                                                   *)
LEMMA BitType == ASSUME NEW n \in Int, NEW i \in Nat PROVE Bit(n, i) \in {0, 1}
<1>1. n \div Pow2[i] \in Int
  BY Pow2Type, DivMod
<1> QED BY <1>1, DivMod DEF Bit

LEMMA LowBit == ASSUME NEW n \in Int PROVE Bit(n, 0) = n % 2
BY Pow2Zero DEF Bit

LEMMA HalfBits == ASSUME NEW n \in Int, NEW i \in Nat PROVE Bit(n \div 2, i) = Bit(n, i + 1)
<1>1. (n \div 2) \div Pow2[i] = n \div (2 * Pow2[i])
  BY Pow2Type, DivDiv
<1> QED BY <1>1, Pow2Next DEF Bit

LEMMA DivBits ==
    ASSUME NEW n \in Int, NEW i \in Nat, NEW k \in Nat
    PROVE  Bit(n \div Pow2[k], i) = Bit(n, i + k)
<1>1. (n \div Pow2[k]) \div Pow2[i] = n \div (Pow2[k] * Pow2[i])
  BY Pow2Type, DivDiv
<1>2. Pow2[k] * Pow2[i] = Pow2[i + k]
  <2>1. Pow2[k + i] = Pow2[k] * Pow2[i] /\ k + i = i + k
    BY Pow2Sum
  <2> QED BY <2>1
<1> QED BY <1>1, <1>2 DEF Bit

(* The bits below k do not see multiples of 2^k.                           *)
LEMMA MultipleBits ==
    ASSUME NEW n \in Int, NEW q \in Int, NEW k \in Nat, NEW i \in 0..(k - 1)
    PROVE  Bit(n + Pow2[k] * q, i) = Bit(n, i)
<1> DEFINE c == Pow2[k - 1 - i]
           p == Pow2[i]
           a == n \div p
<1>1. c \in Nat \ {0} /\ p \in Nat \ {0} /\ i \in Nat
  <2>1. k - 1 - i \in Nat /\ i \in Nat
    OBVIOUS
  <2> QED BY <2>1, Pow2Type
<1>2. Pow2[k] = p * (2 * c)
  <2>1. /\ i \in Nat /\ (k - 1 - i) + 1 \in Nat /\ k - 1 - i \in Nat
        /\ i + ((k - 1 - i) + 1) = k
    OBVIOUS
  <2>2. Pow2[(k - 1 - i) + 1] = 2 * c
    BY <2>1, Pow2Next
  <2>3. Pow2[i + ((k - 1 - i) + 1)] = p * Pow2[(k - 1 - i) + 1]
    BY <2>1, Pow2Sum
  <2> QED BY <2>1, <2>2, <2>3
<1> HIDE DEF c, p
<1> DEFINE e == c * q
           f == 2 * e
<1>3. e \in Int /\ Pow2[k] * q = p * f
  BY <1>1, <1>2
<1> HIDE DEF e
<1>4. f \in Int
  BY <1>3
<1> HIDE DEF f
<1>5. (n + p * f) \div p = a + f
  BY <1>1, <1>4, AddMultiple
<1>6. a \in Int
  BY <1>1, DivMod
<1> HIDE DEF a
<1>7. (a + 2 * e) % 2 = a % 2
  <2>1. 2 \in Nat \ {0}
    OBVIOUS
  <2> QED BY <1>3, <1>6, <2>1, AddMultiple
<1>8. (n + Pow2[k] * q) \div p = a + 2 * e
  BY <1>3, <1>5 DEF f
<1> QED BY <1>7, <1>8 DEF Bit, a, p

LEMMA ModBits ==
    ASSUME NEW n \in Int, NEW k \in Nat, NEW i \in 0..(k - 1)
    PROVE  Bit(n % Pow2[k], i) = Bit(n, i)
<1> DEFINE q == n \div Pow2[k]
           r == n % Pow2[k]
<1>1. Pow2[k] \in Nat \ {0}
  BY Pow2Type
<1>3. q \in Int /\ r \in 0..(Pow2[k] - 1) /\ n = Pow2[k] * q + r
  BY <1>1, DivMod
<1> HIDE DEF q, r
<1>4. r \in Int /\ n = r + Pow2[k] * q
  BY <1>1, <1>3
<1>2. Bit(n, i) = Bit(r, i)
  BY <1>3, <1>4, MultipleBits
<1> QED BY <1>2 DEF r

LEMMA Pow2Monotone == ASSUME NEW k \in Nat, NEW i \in Nat, k <= i PROVE Pow2[k] <= Pow2[i]
<1>1. i - k \in Nat /\ k + (i - k) = i
  OBVIOUS
<1>2. Pow2[i] = Pow2[k] * Pow2[i - k]
  BY <1>1, Pow2Sum
<1>3. Pow2[k] \in Nat /\ Pow2[i - k] \in Nat \ {0}
  BY <1>1, Pow2Type
<1>4. \A a \in Nat, b \in Nat \ {0} : a <= a * b
  OBVIOUS
<1> QED BY <1>2, <1>3, <1>4

LEMMA DivSmall ==
    ASSUME NEW d \in Nat \ {0}
    PROVE  /\ \A n \in 0..(d - 1) : n \div d = 0
           /\ \A n \in -d..-1 : n \div d = -1
<1>1. ASSUME NEW n \in 0..(d - 1) PROVE n \div d = 0
  <2>1. n = d * 0 + n
    OBVIOUS
  <2> QED BY <2>1, DivUnique
<1>2. ASSUME NEW n \in -d..-1 PROVE n \div d = -1
  <2>1. n = d * (-1) + (n + d) /\ n + d \in 0..(d - 1)
    OBVIOUS
  <2> QED BY <2>1, DivUnique
<1> QED BY <1>1, <1>2

(* The bits above those of a number: its sign.                             *)
LEMMA SignBits ==
    ASSUME NEW k \in Nat, NEW n \in -Pow2[k]..(Pow2[k] - 1), NEW i \in Nat, k <= i
    PROVE  Bit(n, i) = IF n < 0 THEN 1 ELSE 0
<1>1. Pow2[k] \in Nat /\ Pow2[i] \in Nat \ {0} /\ Pow2[k] <= Pow2[i]
  BY Pow2Type, Pow2Monotone
<1>2. CASE n < 0
  <2>1. n \in -Pow2[i]..-1
    BY <1>1, <1>2
  <2>2. n \div Pow2[i] = -1
    BY <1>1, <2>1, DivSmall
  <2>3. -1 = 2 * (-1) + 1
    OBVIOUS
  <2>4. (-1) % 2 = 1
    <3>1. 2 \in Nat \ {0} /\ -1 \in Int /\ 1 \in 0..(2 - 1)
      OBVIOUS
    <3>2. (2 * (-1) + 1) % 2 = 1
      BY <3>1, DivUnique
    <3> QED BY <3>2
  <2> QED BY <1>2, <2>2, <2>4 DEF Bit
<1>3. CASE n >= 0
  <2>1. n \in 0..(Pow2[i] - 1)
    BY <1>1, <1>3
  <2>2. n \div Pow2[i] = 0
    BY <1>1, <2>1, DivSmall
  <2> QED BY <1>3, <2>2 DEF Bit
<1> QED BY <1>1, <1>2, <1>3

LEMMA ComplementBits ==
    ASSUME NEW n \in Int, NEW i \in Nat PROVE Bit(-1 - n, i) = 1 - Bit(n, i)
<1> DEFINE d == Pow2[i]
           q == n \div d
           r == n % d
<1>1. d \in Nat \ {0} /\ q \in Int /\ r \in 0..(d - 1) /\ n = d * q + r
  BY Pow2Type, DivMod
<1> HIDE DEF d, q, r
<1>2. -1 - n = d * (-1 - q) + (d - 1 - r) /\ d - 1 - r \in 0..(d - 1) /\ -1 - q \in Int
  BY <1>1
<1>3. (-1 - n) \div d = -1 - q
  BY <1>1, <1>2, DivUnique
<1>4. (-1 - q) % 2 = 1 - (q % 2)
  <2>1. q \div 2 \in Int /\ q % 2 \in 0..1 /\ q = 2 * (q \div 2) + (q % 2)
    BY <1>1, DivMod
  <2>2. -1 - q = 2 * (-1 - (q \div 2)) + (1 - (q % 2))
    BY <1>1, <2>1
  <2>3. -1 - (q \div 2) \in Int /\ 1 - (q % 2) \in 0..(2 - 1)
    BY <2>1
  <2> QED BY <2>2, <2>3, DivUnique
<1> QED BY <1>3, <1>4 DEF Bit, d, q

LEMMA TimesBits ==
    ASSUME NEW n \in Int, NEW k \in Nat, NEW i \in Nat
    PROVE  Bit(n * Pow2[k], i) = IF i < k THEN 0 ELSE Bit(n, i - k)
<1>1. Pow2[k] \in Nat \ {0}
  BY Pow2Type
<1>2. CASE i < k
  <2>1. n * Pow2[k] = 0 + Pow2[k] * n /\ i \in 0..(k - 1)
    BY <1>1, <1>2
  <2>2. Bit(n * Pow2[k], i) = Bit(0, i)
    BY <2>1, MultipleBits
  <2>3. 0 \in -Pow2[0]..(Pow2[0] - 1) /\ 0 <= i
    BY Pow2Zero
  <2>4. Bit(0, i) = 0
    BY <2>3, SignBits
  <2> QED BY <1>2, <2>2, <2>4
<1>3. CASE i >= k
  <2>1. i - k \in Nat /\ (i - k) + k = i /\ n * Pow2[k] \in Int
    BY <1>1, <1>3
  <2>2. Bit((n * Pow2[k]) \div Pow2[k], i - k) = Bit(n * Pow2[k], i)
    <3> DEFINE x == n * Pow2[k]
               j == i - k
    <3>1. x \in Int /\ j \in Nat /\ j + k = i
      BY <2>1
    <3> HIDE DEF x, j
    <3>2. Bit(x \div Pow2[k], j) = Bit(x, j + k)
      BY <3>1, DivBits
    <3> QED BY <3>1, <3>2 DEF x, j
  <2>3. n * Pow2[k] = Pow2[k] * n + 0 /\ 0 \in 0..(Pow2[k] - 1)
    BY <1>1
  <2>4. (n * Pow2[k]) \div Pow2[k] = n
    BY <1>1, <2>3, DivUnique
  <2> QED BY <1>3, <2>2, <2>4
<1> QED BY <1>2, <1>3

-----------------------------------------------------------------------------
(* Numbers of w bits and sets of bits below w stand for each other.        *)
LEMMA HalfType ==
    ASSUME NEW w \in Nat, NEW n \in 0..(Pow2[w + 1] - 1)
    PROVE  n \div 2 \in 0..(Pow2[w] - 1) /\ n % 2 \in {0, 1} /\ n = 2 * (n \div 2) + (n % 2)
<1>1. Pow2[w] \in Nat \ {0} /\ Pow2[w + 1] = 2 * Pow2[w]
  BY Pow2Type, Pow2Next
<1> QED BY <1>1

LEMMA SameBits ==
    \A w \in Nat : \A n, m \in 0..(Pow2[w] - 1) :
       (\A i \in 0..(w - 1) : Bit(n, i) = Bit(m, i)) => n = m
<1> DEFINE S == {w \in Nat : \A n, m \in 0..(Pow2[w] - 1) :
                               (\A i \in 0..(w - 1) : Bit(n, i) = Bit(m, i)) => n = m}
<1>1. 0 \in S
  BY Pow2Zero
<1>2. ASSUME NEW w \in Nat, w \in S PROVE w + 1 \in S
  <2> SUFFICES ASSUME NEW n \in 0..(Pow2[w + 1] - 1), NEW m \in 0..(Pow2[w + 1] - 1),
                      \A i \in 0..((w + 1) - 1) : Bit(n, i) = Bit(m, i)
               PROVE  n = m
    OBVIOUS
  <2>1. n \in Int /\ m \in Int /\ Pow2[w + 1] \in Int
    BY Pow2Type
  <2>2. n \div 2 = m \div 2
    <3>1. ASSUME NEW i \in 0..(w - 1) PROVE Bit(n \div 2, i) = Bit(m \div 2, i)
      <4>1. i \in Nat /\ i + 1 \in 0..((w + 1) - 1)
        OBVIOUS
      <4> QED BY <2>1, <4>1, HalfBits
    <3>2. n \div 2 \in 0..(Pow2[w] - 1) /\ m \div 2 \in 0..(Pow2[w] - 1)
      BY HalfType
    <3> QED BY <1>2, <3>1, <3>2
  <2>3. n % 2 = m % 2
    <3>1. 0 \in 0..((w + 1) - 1)
      OBVIOUS
    <3> QED BY <2>1, <3>1, LowBit
  <2> QED BY <2>2, <2>3, HalfType
<1> HIDE DEF S
<1>3. Nat \subseteq S
  BY <1>1, <1>2, SetInduction
<1> QED BY <1>3 DEF S

LEMMA BitsMake ==
    \A w \in Nat : \A B \in SUBSET (0..(w - 1)) :
       \E n \in 0..(Pow2[w] - 1) : \A i \in 0..(w - 1) : i \in B <=> Bit(n, i) = 1
<1> DEFINE S == {w \in Nat : \A B \in SUBSET (0..(w - 1)) :
                   \E n \in 0..(Pow2[w] - 1) : \A i \in 0..(w - 1) : i \in B <=> Bit(n, i) = 1}
<1>1. 0 \in S
  BY Pow2Zero
<1>2. ASSUME NEW w \in Nat, w \in S PROVE w + 1 \in S
  <2> SUFFICES ASSUME NEW B \in SUBSET (0..((w + 1) - 1))
               PROVE  \E n \in 0..(Pow2[w + 1] - 1) :
                         \A i \in 0..((w + 1) - 1) : i \in B <=> Bit(n, i) = 1
    OBVIOUS
  <2> DEFINE C == {i \in 0..(w - 1) : i + 1 \in B}
  <2>1. PICK h \in 0..(Pow2[w] - 1) : \A i \in 0..(w - 1) : i \in C <=> Bit(h, i) = 1
    BY <1>2
  <2> DEFINE b == IF 0 \in B THEN 1 ELSE 0
             n == 2 * h + b
  <2>2. Pow2[w] \in Nat \ {0} /\ Pow2[w + 1] = 2 * Pow2[w]
    BY Pow2Type, Pow2Next
  <2>3. n \in 0..(Pow2[w + 1] - 1) /\ h \in Int
    BY <2>2
  <2>4. n \div 2 = h /\ n % 2 = b
    <3>1. b \in 0..(2 - 1) /\ 2 \in Nat \ {0}
      OBVIOUS
    <3> HIDE DEF b
    <3> QED BY <2>3, <3>1, DivUnique
  <2>5. ASSUME NEW i \in 0..((w + 1) - 1) PROVE i \in B <=> Bit(n, i) = 1
    <3>1. CASE i = 0
      BY <2>3, <2>4, <3>1, LowBit
    <3>2. CASE i # 0
      <4>1. i - 1 \in 0..(w - 1) /\ i - 1 \in Nat /\ (i - 1) + 1 = i /\ n \in Int
        BY <3>2, <2>3
      <4>2. Bit(h, i - 1) = Bit(n, i)
        BY <4>1, <2>4, HalfBits
      <4> QED BY <4>1, <4>2, <2>1
    <3> QED BY <3>1, <3>2
  <2> HIDE DEF n
  <2> QED BY <2>3, <2>5
<1> HIDE DEF S
<1>3. Nat \subseteq S
  BY <1>1, <1>2, SetInduction
<1> QED BY <1>3 DEF S

(* A number of w bits as an integer of w bits: the polyfill's _bs.         *)
LEMMA SignedBits ==
    ASSUME NEW w \in Nat \ {0}, NEW n \in 0..(Pow2[w] - 1), NEW s,
           s = IF n >= Pow2[w - 1] THEN n - Pow2[w] ELSE n
    PROVE  s \in Fixed(w) /\ \A i \in 0..(w - 1) : Bit(s, i) = Bit(n, i)
<1>1. Pow2[w - 1] \in Nat \ {0} /\ Pow2[w] = 2 * Pow2[w - 1]
  <2>1. w - 1 \in Nat /\ (w - 1) + 1 = w
    OBVIOUS
  <2> QED BY <2>1, Pow2Type, Pow2Next
<1>2. s \in Fixed(w)
  BY <1>1 DEF Fixed
<1>3. ASSUME NEW i \in 0..(w - 1) PROVE Bit(s, i) = Bit(n, i)
  <2>1. CASE n >= Pow2[w - 1]
    <3>1. s = n + Pow2[w] * (-1) /\ n \in Int /\ -1 \in Int /\ w \in Nat
      BY <1>1, <2>1
    <3>2. Bit(n + Pow2[w] * (-1), i) = Bit(n, i)
      BY <3>1, MultipleBits
    <3> QED BY <3>1, <3>2
  <2>2. CASE ~(n >= Pow2[w - 1])
    BY <2>2
  <2> QED BY <2>1, <2>2
<1> QED BY <1>2, <1>3

LEMMA SameFixed ==
    ASSUME NEW w \in Nat \ {0}, NEW n \in Fixed(w), NEW m \in Fixed(w),
           \A i \in 0..(w - 1) : Bit(n, i) = Bit(m, i)
    PROVE  n = m
<1> DEFINE p == Pow2[w]
           a == n \div p
           b == m \div p
           r == n % p
           s == m % p
<1>1. p \in Nat \ {0} /\ Pow2[w - 1] \in Nat \ {0} /\ p = 2 * Pow2[w - 1]
  <2>1. w - 1 \in Nat /\ (w - 1) + 1 = w
    OBVIOUS
  <2> QED BY <2>1, Pow2Type, Pow2Next
<1>2. n \in Int /\ m \in Int /\ n - m < p /\ n - m > -p
  BY <1>1 DEF Fixed
<1>3. /\ a \in Int /\ r \in 0..(p - 1) /\ n = p * a + r
      /\ b \in Int /\ s \in 0..(p - 1) /\ m = p * b + s
  BY <1>1, <1>2, DivMod
<1>4. r = s
  <2>1. ASSUME NEW i \in 0..(w - 1) PROVE Bit(r, i) = Bit(s, i)
    <3>1. Bit(n, i) = Bit(m, i)
      OBVIOUS
    <3> QED BY <3>1, <1>2, ModBits
  <2> HIDE DEF r, s
  <2>2. r \in 0..(Pow2[w] - 1) /\ s \in 0..(Pow2[w] - 1)
    BY <1>3
  <2> QED BY <2>1, <2>2, SameBits
<1> HIDE DEF p, a, b, r, s
<1>5. p * (a - b) = n - m /\ a - b \in Int
  BY <1>1, <1>3, <1>4
<1>6. \A x \in Int : x >= 1 => p * x >= p
  BY <1>1
<1>7. \A x \in Int : x <= -1 => p * x <= -p
  BY <1>1
<1>8. a - b = 0
  BY <1>1, <1>2, <1>5, <1>6, <1>7
<1> QED BY <1>3, <1>4, <1>8

LEMMA IntegerIs ==
    ASSUME NEW w \in Nat \ {0}, NEW B, NEW n \in Fixed(w),
           \A i \in 0..(w - 1) : i \in B <=> Bit(n, i) = 1
    PROVE  Integer(B, w) = n
<1> DEFINE is(x) == \A i \in 0..(w - 1) : i \in B <=> Bit(x, i) = 1
           m == CHOOSE x \in Fixed(w) : is(x)
<1>1. m \in Fixed(w) /\ is(m)
  <2>1. is(n)
    OBVIOUS
  <2> HIDE DEF is
  <2> QED BY <2>1
<1>2. Integer(B, w) = m
  BY DEF Integer
<1> HIDE DEF m
<1>3. ASSUME NEW i \in 0..(w - 1) PROVE Bit(m, i) = Bit(n, i)
  <2>1. Bit(m, i) = 1 <=> Bit(n, i) = 1
    BY <1>1
  <2>2. m \in Int /\ n \in Int /\ i \in Nat
    <3>1. w - 1 \in Nat
      OBVIOUS
    <3> QED BY <1>1, <3>1, Pow2Type DEF Fixed
  <2> QED BY <2>1, <2>2, BitType
<1> QED BY <1>1, <1>2, <1>3, SameFixed

LEMMA FixedMake ==
    ASSUME NEW w \in Nat \ {0}, NEW B \in SUBSET (0..(w - 1))
    PROVE  \E n \in Fixed(w) : \A i \in 0..(w - 1) : i \in B <=> Bit(n, i) = 1
<1>1. PICK n \in 0..(Pow2[w] - 1) : \A i \in 0..(w - 1) : i \in B <=> Bit(n, i) = 1
  BY BitsMake
<1> DEFINE s == IF n >= Pow2[w - 1] THEN n - Pow2[w] ELSE n
<1>2. s \in Fixed(w) /\ \A i \in 0..(w - 1) : Bit(s, i) = Bit(n, i)
  BY SignedBits
<1> HIDE DEF s
<1> QED BY <1>1, <1>2

LEMMA IntegerType ==
    ASSUME NEW w \in Nat \ {0}, NEW B \in SUBSET (0..(w - 1))
    PROVE  Integer(B, w) \in Fixed(w) /\ \A i \in 0..(w - 1) : i \in B <=> Bit(Integer(B, w), i) = 1
<1>1. PICK n \in Fixed(w) : \A i \in 0..(w - 1) : i \in B <=> Bit(n, i) = 1
  BY FixedMake
<1>2. Integer(B, w) = n
  BY <1>1, IntegerIs
<1> QED BY <1>1, <1>2
===============================================================================
