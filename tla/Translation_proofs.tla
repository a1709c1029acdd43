------------------------- MODULE Translation_proofs -------------------------
(***************************************************************************)
(* What the parts of Translation do, each for itself: for values, the      *)
(* library for the lowered operators and the calls of it, in whatever order *)
(* operators are applied, and the literals, whatever their length, mean to *)
(* Lua 5.1 what the program means to Lua 5.5; the lexer names its error, and *)
(* the emitter never refuses; and the two parsers that read a source, valua's *)
(* and Lua 5.5's, obey the equations of their grammars, token by token.    *)
(***************************************************************************)
EXTENDS Translation, FixedWidth_proofs, SequenceTheorems, TLAPS

(* The number whose bits below k are those of r, and whose bit k is s.     *)
LEMMA AddBit ==
    ASSUME NEW k \in Nat, NEW r \in 0..(Pow2[k] - 1), NEW s \in {0, 1}
    PROVE  /\ r + s * Pow2[k] \in 0..(Pow2[k + 1] - 1)
           /\ \A i \in 0..(k - 1) : Bit(r + s * Pow2[k], i) = Bit(r, i)
           /\ Bit(r + s * Pow2[k], k) = s
<1>1. Pow2[k] \in Nat \ {0} /\ Pow2[k + 1] = 2 * Pow2[k]
  BY Pow2Type, Pow2Next
<1>2. r + s * Pow2[k] \in 0..(Pow2[k + 1] - 1)
  BY <1>1
<1>3. r \in Int /\ s \in Int /\ r + s * Pow2[k] = r + Pow2[k] * s
      /\ r + s * Pow2[k] = Pow2[k] * s + r
  BY <1>1
<1>4. \A i \in 0..(k - 1) : Bit(r + Pow2[k] * s, i) = Bit(r, i)
  BY <1>3, MultipleBits
<1>5. (Pow2[k] * s + r) \div Pow2[k] = s
  BY <1>1, <1>3, DivUnique
<1>6. s % 2 = s
  OBVIOUS
<1> QED BY <1>2, <1>3, <1>4, <1>5, <1>6 DEF Bit

-----------------------------------------------------------------------------
(* Calls of the bit library.  Of the result z of a call underway, the bits *)
(* below k are in r already, and the others are still to be made of those  *)
(* of a and b; a shift still has n places to go.                           *)
Joined(method, s, t) ==
    \/ method = "band" /\ s = 1 /\ t = 1
    \/ method = "bor" /\ (s = 1 \/ t = 1)
    \/ method = "bxor" /\ s # t

Positions == 0..(BitWidth - 1)
WordValues     == 0..(Pow2[BitWidth] - 1)

Joining(c, z, k) ==
    /\ c \in [method : Bitwise, a : 0..(Pow2[BitWidth - k] - 1), b : 0..(Pow2[BitWidth - k] - 1),
              r : 0..(Pow2[k] - 1), m : {Pow2[k]}, n : {0}]
    /\ \A i \in Positions :
         Bit(z, i) = 1 <=> IF i < k THEN Bit(c.r, i) = 1
                           ELSE Joined(c.method, Bit(c.a, i - k), Bit(c.b, i - k))

Moving(c, z) ==
    /\ c \in [method : Shifting, a : WordValues, b : {0}, r : {0}, m : {1}, n : 0..(BitWidth - 1)]
    /\ \A i \in Positions :
         Bit(z, i) = 1 <=> IF c.method = "rshift" THEN Bit(c.a, i + c.n) = 1
                           ELSE i >= c.n /\ Bit(c.a, i - c.n) = 1

Negating(c, z) ==
    /\ c \in [method : {"bnot"}, a : {0}, b : {0}, r : WordValues, m : {1}, n : {0}]
    /\ \A i \in Positions : Bit(z, i) = 1 <=> Bit(c.r, i) = 1

Underway(c, z) ==
    /\ z \in Fixed(BitWidth)
    /\ (\E k \in 0..BitWidth : Joining(c, z, k)) \/ Moving(c, z) \/ Negating(c, z)

(* What a call computes is what LuaJIT's library computes of the same      *)
(* operands, and what Lua 5.5 computes until something odd has been met.   *)
OperatorInv ==
    mode = "operator" =>
      /\ value \in Int /\ native \in Int
      /\ IF call = NoCall THEN value = native ELSE Underway(call, native)
      /\ odd = {} => meant = native

-----------------------------------------------------------------------------
SixOperators == {"&", "|", "~", "<<", ">>", "not"}

(* The bits of what an operator makes of integers of w bits.               *)
Made(op, x, y, w, i) ==
    CASE op = "&"   -> Bit(x, i) = 1 /\ Bit(y, i) = 1
      [] op = "|"   -> Bit(x, i) = 1 \/ Bit(y, i) = 1
      [] op = "~"   -> ~(Bit(x, i) = 1 <=> Bit(y, i) = 1)
      [] op = "<<"  -> i - y \in 0..(w - 1) /\ Bit(x, i - y) = 1
      [] op = ">>"  -> i + y \in 0..(w - 1) /\ Bit(x, i + y) = 1
      [] op = "not" -> Bit(x, i) # 1

LEMMA ShiftedBits ==
    ASSUME NEW w \in Nat, NEW x \in Int, NEW n \in Int, NEW i \in 0..(w - 1)
    PROVE  i \in Shifted(Bits(x, w), n, w) <=> i - n \in 0..(w - 1) /\ Bit(x, i - n) = 1
<1>1. ASSUME i \in Shifted(Bits(x, w), n, w) PROVE i - n \in 0..(w - 1) /\ Bit(x, i - n) = 1
  <2>1. PICK j \in Bits(x, w) : i = j + n
    BY <1>1 DEF Shifted
  <2>2. j \in 0..(w - 1) /\ Bit(x, j) = 1
    BY DEF Bits
  <2>3. i - n = j
    BY <2>1, <2>2
  <2> QED BY <2>2, <2>3
<1>2. ASSUME i - n \in 0..(w - 1), Bit(x, i - n) = 1 PROVE i \in Shifted(Bits(x, w), n, w)
  <2>1. i - n \in Bits(x, w)
    BY <1>2 DEF Bits
  <2>2. (i - n) + n = i
    OBVIOUS
  <2> QED BY <2>1, <2>2 DEF Shifted
<1> QED BY <1>1, <1>2

LEMMA AppliedBits ==
    ASSUME NEW w \in Nat \ {0}, NEW x \in Int, NEW y \in Int, NEW op \in SixOperators
    PROVE  /\ Applied(op, x, y, w) \in Fixed(w)
           /\ \A i \in 0..(w - 1) : Bit(Applied(op, x, y, w), i) = 1 <=> Made(op, x, y, w, i)
<1> DEFINE X == Bits(x, w)
           Y == Bits(y, w)
           B == CASE op = "&"   -> X \cap Y
                  [] op = "|"   -> X \cup Y
                  [] op = "~"   -> (X \ Y) \cup (Y \ X)
                  [] op = "<<"  -> Shifted(X, y, w)
                  [] op = ">>"  -> Shifted(X, -y, w)
                  [] op = "not" -> (0..(w - 1)) \ X
<1>1. Applied(op, x, y, w) = Integer(B, w)
  BY DEF Applied
<1>2. X \subseteq 0..(w - 1) /\ Y \subseteq 0..(w - 1)
  BY DEF Bits
<1>3. Shifted(X, y, w) \subseteq 0..(w - 1) /\ Shifted(X, -y, w) \subseteq 0..(w - 1)
  BY DEF Shifted
<1>4. \A i \in 0..(w - 1) : (i \in X <=> Bit(x, i) = 1) /\ (i \in Y <=> Bit(y, i) = 1)
  BY DEF Bits
<1>5. ASSUME NEW i \in 0..(w - 1)
      PROVE  /\ i \in Shifted(X, y, w) <=> i - y \in 0..(w - 1) /\ Bit(x, i - y) = 1
             /\ i \in Shifted(X, -y, w) <=> i + y \in 0..(w - 1) /\ Bit(x, i + y) = 1
  <2>1. i - (-y) = i + y /\ -y \in Int
    OBVIOUS
  <2> QED BY <2>1, ShiftedBits
<1> HIDE DEF X, Y
<1>6. B \in SUBSET (0..(w - 1)) /\ \A i \in 0..(w - 1) : i \in B <=> Made(op, x, y, w, i)
  <2>1. CASE op = "&"
    BY <2>1, <1>2, <1>4 DEF Made
  <2>2. CASE op = "|"
    BY <2>2, <1>2, <1>4 DEF Made
  <2>3. CASE op = "~"
    BY <2>3, <1>2, <1>4 DEF Made
  <2>4. CASE op = "<<"
    BY <2>4, <1>3, <1>5 DEF Made
  <2>5. CASE op = ">>"
    BY <2>5, <1>3, <1>5 DEF Made
  <2>6. CASE op = "not"
    BY <2>6, <1>2, <1>4 DEF Made
  <2> QED BY <2>1, <2>2, <2>3, <2>4, <2>5, <2>6 DEF SixOperators
<1> HIDE DEF B
<1>7. Integer(B, w) \in Fixed(w) /\ \A i \in 0..(w - 1) : i \in B <=> Bit(Integer(B, w), i) = 1
  BY <1>6, IntegerType
<1> QED BY <1>1, <1>6, <1>7

-----------------------------------------------------------------------------
LEMMA WordType ==
    ASSUME NEW x \in Int
    PROVE  /\ Unsigned(x) \in WordValues
           /\ \A i \in Positions : Bit(Unsigned(x), i) = Bit(x, i)
<1>1. BitWidth \in Nat /\ Pow2[BitWidth] \in Nat \ {0}
  BY BitWidthAssumption, Pow2Type
<1>2. x % Pow2[BitWidth] \in WordValues
  BY <1>1, DivMod DEF WordValues
<1>3. \A i \in Positions : Bit(x % Pow2[BitWidth], i) = Bit(x, i)
  BY <1>1, ModBits DEF Positions
<1> QED BY <1>2, <1>3 DEF Unsigned

(* Numbers below 2^k have no bit at k or above.                            *)
LEMMA NoBits ==
    ASSUME NEW k \in Nat, NEW n \in 0..(Pow2[k] - 1), NEW i \in Nat, k <= i
    PROVE  Bit(n, i) = 0
<1>1. n \in -Pow2[k]..(Pow2[k] - 1) /\ ~(n < 0)
  BY Pow2Type
<1> QED BY <1>1, SignBits

LEMMA ZeroBits == ASSUME NEW i \in Nat PROVE Bit(0, i) = 0
<1>1. 0 \in 0..(Pow2[0] - 1) /\ 0 <= i
  BY Pow2Zero
<1> QED BY <1>1, NoBits

LEMMA SignedIs ==
    ASSUME NEW n \in Int, NEW z \in Fixed(BitWidth),
           \A i \in Positions : Bit(z, i) = 1 <=> Bit(n, i) = 1
    PROVE  Signed(n) = z
<1> DEFINE u == Unsigned(n)
           s == Signed(n)
<1>1. u \in 0..(Pow2[BitWidth] - 1) /\ \A i \in Positions : Bit(u, i) = Bit(n, i)
  BY WordType DEF WordValues
<1>2. s = IF u >= Pow2[BitWidth - 1] THEN u - Pow2[BitWidth] ELSE u
  BY DEF Signed
<1> HIDE DEF u, s
<1>3. s \in Fixed(BitWidth) /\ \A i \in 0..(BitWidth - 1) : Bit(s, i) = Bit(u, i)
  BY <1>1, <1>2, BitWidthAssumption, SignedBits
<1>4. s \in Int /\ z \in Int
  BY <1>3, BitWidthAssumption, Pow2Type DEF Fixed
<1>5. \A i \in 0..(BitWidth - 1) : Bit(s, i) = Bit(z, i)
  <2> SUFFICES ASSUME NEW i \in 0..(BitWidth - 1) PROVE Bit(s, i) = Bit(z, i)
    OBVIOUS
  <2>1. i \in Nat /\ i \in Positions
    BY BitWidthAssumption DEF Positions
  <2>2. Bit(s, i) \in {0, 1} /\ Bit(z, i) \in {0, 1}
    BY <1>4, <2>1, BitType
  <2>3. Bit(s, i) = 1 <=> Bit(z, i) = 1
    BY <1>1, <1>3, <2>1
  <2> QED BY <2>2, <2>3
<1>6. s = z
  BY <1>3, <1>5, BitWidthAssumption, SameFixed
<1> QED BY <1>6 DEF s

LEMMA CalledUnderway ==
    ASSUME NEW x \in Int, NEW y \in Int, NEW op \in SixOperators
    PROVE  Underway(Called(Method(op), x, y), InLibrary(op, x, y))
<1> DEFINE z == InLibrary(op, x, y)
           c == Called(Method(op), x, y)
           n == IF Method(op) \in Shifting THEN y % BitWidth ELSE y
<1>1. BitWidth \in Nat \ {0} /\ BitWidth - 1 \in Nat /\ BitWidth \in Nat /\ 0 \in 0..BitWidth
  BY BitWidthAssumption
<1>2. y % BitWidth \in 0..(BitWidth - 1) /\ n \in Int
  BY <1>1, DivMod
<1>3. z = Applied(op, x, n, BitWidth)
  BY DEF InLibrary
<1> HIDE DEF n, z
<1>4. z \in Fixed(BitWidth) /\ \A i \in Positions : Bit(z, i) = 1 <=> Made(op, x, n, BitWidth, i)
  BY <1>1, <1>2, <1>3, AppliedBits DEF Positions
<1>5. /\ Unsigned(x) \in WordValues /\ \A i \in Positions : Bit(Unsigned(x), i) = Bit(x, i)
      /\ Unsigned(y) \in WordValues /\ \A i \in Positions : Bit(Unsigned(y), i) = Bit(y, i)
  BY WordType
<1>6. CASE op \in {"&", "|", "~"}
  <2>1. /\ Method(op) = CASE op = "&" -> "band" [] op = "|" -> "bor" [] op = "~" -> "bxor"
        /\ Method(op) \in Bitwise /\ Method(op) \notin Shifting
    BY <1>6 DEF Method, Bitwise, Shifting
  <2>2. c = [method |-> Method(op), a |-> Unsigned(x), b |-> Unsigned(y), r |-> 0, m |-> 1, n |-> 0]
    BY <2>1 DEF Called, NoCall, Bitwise, Shifting
  <2>3. n = y
    BY <2>1 DEF n
  <2>4. Pow2[0] = 1 /\ BitWidth - 0 = BitWidth
    BY <1>1, Pow2Zero
  <2>5. c \in [method : Bitwise, a : 0..(Pow2[BitWidth - 0] - 1), b : 0..(Pow2[BitWidth - 0] - 1),
               r : 0..(Pow2[0] - 1), m : {Pow2[0]}, n : {0}]
    <3>1. /\ Unsigned(x) \in 0..(Pow2[BitWidth - 0] - 1) /\ Unsigned(y) \in 0..(Pow2[BitWidth - 0] - 1)
          /\ 0 \in 0..(Pow2[0] - 1) /\ 1 \in {Pow2[0]} /\ 0 \in {0}
      BY <1>5, <2>4 DEF WordValues
    <3> HIDE DEF c
    <3> QED BY <2>1, <2>2, <3>1
  <2>6. ASSUME NEW i \in Positions
        PROVE  Bit(z, i) = 1 <=> IF i < 0 THEN Bit(c.r, i) = 1
                                 ELSE Joined(c.method, Bit(c.a, i - 0), Bit(c.b, i - 0))
    <3>1. i \in Nat /\ ~(i < 0) /\ i - 0 = i
      BY <1>1 DEF Positions
    <3>2. Bit(c.a, i) = Bit(x, i) /\ Bit(c.b, i) = Bit(y, i)
      BY <1>5, <2>2
    <3>3. Bit(x, i) \in {0, 1} /\ Bit(y, i) \in {0, 1}
      BY <3>1, BitType
    <3>4. Made(op, x, y, BitWidth, i) <=> Joined(Method(op), Bit(x, i), Bit(y, i))
      BY <1>6, <2>1, <3>3 DEF Made, Joined
    <3>5. Bit(z, i) = 1 <=> Joined(c.method, Bit(c.a, i), Bit(c.b, i))
      BY <1>4, <2>2, <2>3, <3>2, <3>4
    <3> QED BY <3>1, <3>5
  <2> HIDE DEF c
  <2>7. Joining(c, z, 0)
    BY <2>5, <2>6 DEF Joining
  <2>8. Underway(c, z)
    BY <1>1, <1>4, <2>7 DEF Underway
  <2> QED BY <2>8 DEF c, z
<1>7. CASE op \in {"<<", ">>"}
  <2>1. Method(op) = (IF op = "<<" THEN "lshift" ELSE "rshift") /\ Method(op) \in Shifting
        /\ Method(op) \notin Bitwise
    BY <1>7 DEF Method, Shifting, Bitwise
  <2>2. n = y % BitWidth
    BY <2>1 DEF n
  <2>3. c = [method |-> Method(op), a |-> Unsigned(x), b |-> 0, r |-> 0, m |-> 1, n |-> n]
    BY <2>1, <2>2 DEF Called, NoCall, Bitwise, Shifting
  <2>4. c \in [method : Shifting, a : WordValues, b : {0}, r : {0}, m : {1}, n : 0..(BitWidth - 1)]
    BY <1>2, <1>5, <2>1, <2>2, <2>3
  <2>5. ASSUME NEW i \in Positions
        PROVE  Bit(z, i) = 1 <=> IF c.method = "rshift" THEN Bit(c.a, i + c.n) = 1
                                 ELSE i >= c.n /\ Bit(c.a, i - c.n) = 1
    <3>1. i \in Nat /\ i \in 0..(BitWidth - 1) /\ n \in 0..(BitWidth - 1) /\ c.n = n /\ c.a = Unsigned(x)
      BY <1>1, <1>2, <2>2, <2>3 DEF Positions
    <3>2. CASE op = ">>"
      <4>1. Bit(z, i) = 1 <=> i + n \in 0..(BitWidth - 1) /\ Bit(x, i + n) = 1
        BY <1>4, <3>2 DEF Made
      <4>2. CASE i + n \in 0..(BitWidth - 1)
        BY <1>5, <2>1, <2>3, <3>1, <3>2, <4>1, <4>2 DEF Positions
      <4>3. CASE i + n \notin 0..(BitWidth - 1)
        <5>1. i + n \in Nat /\ BitWidth <= i + n
          BY <1>1, <3>1, <4>3
        <5>2. Bit(Unsigned(x), i + n) = 0
          BY <1>1, <1>5, <5>1, NoBits DEF WordValues
        <5> QED BY <2>1, <2>3, <3>1, <3>2, <4>1, <4>3, <5>2
      <4> QED BY <4>2, <4>3
    <3>3. CASE op = "<<"
      <4>1. Bit(z, i) = 1 <=> i - n \in 0..(BitWidth - 1) /\ Bit(x, i - n) = 1
        BY <1>4, <3>3 DEF Made
      <4>2. i - n \in 0..(BitWidth - 1) <=> i >= n
        BY <1>1, <3>1
      <4>3. i - n \in 0..(BitWidth - 1) => Bit(Unsigned(x), i - n) = Bit(x, i - n)
        BY <1>5 DEF Positions
      <4> QED BY <2>1, <2>3, <3>1, <3>3, <4>1, <4>2, <4>3
    <3> QED BY <1>7, <3>2, <3>3
  <2> HIDE DEF c
  <2>6. Moving(c, z)
    BY <2>4, <2>5 DEF Moving
  <2>7. Underway(c, z)
    BY <1>4, <2>6 DEF Underway
  <2> QED BY <2>7 DEF c, z
<1>8. CASE op = "not"
  <2>1. Method(op) = "bnot"
    BY <1>8 DEF Method
  <2> DEFINE p == Pow2[BitWidth]
             u == Unsigned(x)
             r == p - 1 - u
  <2>2. p \in Nat \ {0}
    BY <1>1, Pow2Type
  <2>3. c = [method |-> "bnot", a |-> 0, b |-> 0, r |-> r, m |-> 1, n |-> 0]
    BY <2>1 DEF Called, NoCall, Bitwise, Shifting
  <2>4. u \in 0..(p - 1)
    BY <1>5 DEF WordValues
  <2> HIDE DEF u
  <2>5. r \in 0..(p - 1) /\ r = (-1 - u) + p * 1 /\ -1 - u \in Int /\ u \in Int
    BY <2>2, <2>4
  <2>6. \A i \in Positions : Bit(r, i) = 1 - Bit(u, i)
    <3> SUFFICES ASSUME NEW i \in Positions PROVE Bit(r, i) = 1 - Bit(u, i)
      OBVIOUS
    <3>1. i \in Nat /\ i \in 0..(BitWidth - 1)
      BY <1>1 DEF Positions
    <3>2. Bit((-1 - u) + Pow2[BitWidth] * 1, i) = Bit(-1 - u, i)
      BY <1>1, <2>5, <3>1, MultipleBits
    <3>3. Bit(-1 - u, i) = 1 - Bit(u, i)
      BY <2>5, <3>1, ComplementBits
    <3> QED BY <2>5, <3>2, <3>3
  <2>7. \A i \in Positions : Bit(z, i) = 1 <=> Bit(r, i) = 1
    <3> SUFFICES ASSUME NEW i \in Positions PROVE Bit(z, i) = 1 <=> Bit(r, i) = 1
      OBVIOUS
    <3>1. Bit(x, i) \in {0, 1}
      BY <1>1, BitType DEF Positions
    <3>2. Bit(u, i) = Bit(x, i)
      BY <1>5 DEF u
    <3>3. Bit(z, i) = 1 <=> Bit(x, i) # 1
      BY <1>4, <1>8 DEF Made
    <3> QED BY <2>6, <3>1, <3>2, <3>3
  <2>8. c \in [method : {"bnot"}, a : {0}, b : {0}, r : WordValues, m : {1}, n : {0}]
    BY <2>3, <2>5 DEF WordValues
  <2>9. c.r = r
    BY <2>3
  <2> HIDE DEF c, r
  <2>10. Negating(c, z)
    BY <2>7, <2>8, <2>9 DEF Negating
  <2>11. Underway(c, z)
    BY <1>4, <2>10 DEF Underway
  <2> QED BY <2>11 DEF c, z
<1> QED BY <1>6, <1>7, <1>8 DEF SixOperators

-----------------------------------------------------------------------------
LEMMA JoiningTurns ==
    ASSUME NEW c, NEW z, NEW k \in 0..BitWidth, Joining(c, z, k), LoopsOn(c)
    PROVE  k + 1 \in 0..BitWidth /\ Joining(Turn(c), z, k + 1)
<1> DEFINE a == c.a
           b == c.b
           s == IF Sets(c) THEN 1 ELSE 0
           r == c.r + s * Pow2[k]
           d == [method |-> c.method, a |-> a \div 2, b |-> b \div 2, r |-> r, m |-> 2 * Pow2[k], n |-> 0]
<1>1. BitWidth \in Nat /\ k \in Nat /\ BitWidth - k \in Nat
  BY BitWidthAssumption
<1>2. /\ c.method \in Bitwise /\ c.method \notin Shifting /\ c.r \in 0..(Pow2[k] - 1)
      /\ a \in 0..(Pow2[BitWidth - k] - 1) /\ b \in 0..(Pow2[BitWidth - k] - 1)
      /\ c.m = Pow2[k] /\ c.n = 0
  BY DEF Joining, Bitwise, Shifting
<1>3. Pow2[BitWidth - k] \in Nat \ {0} /\ Pow2[k] \in Nat \ {0} /\ a \in Nat /\ b \in Nat
  BY <1>1, <1>2, Pow2Type
<1>4. k # BitWidth
  <2>1. a > 0 \/ b > 0
    BY <1>2, <1>3 DEF LoopsOn
  <2> QED BY <1>1, <1>2, <2>1, Pow2Zero
<1>5. k + 1 \in 0..BitWidth /\ BitWidth - (k + 1) \in Nat /\ (BitWidth - (k + 1)) + 1 = BitWidth - k
  BY <1>1, <1>4
<1>6. Turn(c) = d
  <2>1. c = [method |-> c.method, a |-> c.a, b |-> c.b, r |-> c.r, m |-> c.m, n |-> c.n]
    BY DEF Joining
  <2>2. Turn(c) = [c EXCEPT !.r = IF Sets(c) THEN @ + c.m ELSE @,
                            !.a = @ \div 2, !.b = @ \div 2, !.m = @ * 2]
    BY <1>2 DEF Turn, Shifting
  <2>3. (IF Sets(c) THEN c.r + c.m ELSE c.r) = r /\ c.m * 2 = 2 * Pow2[k]
    BY <1>2, <1>3
  <2> HIDE DEF r
  <2> QED BY <1>2, <2>1, <2>2, <2>3
<1>7. /\ a \div 2 \in 0..(Pow2[BitWidth - (k + 1)] - 1)
      /\ b \div 2 \in 0..(Pow2[BitWidth - (k + 1)] - 1)
  BY <1>2, <1>5, HalfType
<1>8. s \in {0, 1}
  OBVIOUS
<1>9. s = 1 <=> Joined(c.method, Bit(a, 0), Bit(b, 0))
  <2>1. Bit(a, 0) = a % 2 /\ Bit(b, 0) = b % 2
    BY <1>3, LowBit
  <2> QED BY <1>2, <2>1 DEF Sets, Joined, Bitwise
<1>10. /\ r \in 0..(Pow2[k + 1] - 1)
       /\ \A i \in 0..(k - 1) : Bit(r, i) = Bit(c.r, i)
       /\ Bit(r, k) = s
  <2> HIDE DEF s
  <2> QED BY <1>1, <1>2, <1>8, AddBit
<1> HIDE DEF s, r
<1>11. d \in [method : Bitwise, a : 0..(Pow2[BitWidth - (k + 1)] - 1),
              b : 0..(Pow2[BitWidth - (k + 1)] - 1),
              r : 0..(Pow2[k + 1] - 1), m : {Pow2[k + 1]}, n : {0}]
  <2>1. Pow2[k + 1] = 2 * Pow2[k]
    BY <1>1, Pow2Next
  <2> QED BY <1>2, <1>7, <1>10, <2>1
<1>12. ASSUME NEW i \in Positions
       PROVE  Bit(z, i) = 1 <=> IF i < k + 1 THEN Bit(r, i) = 1
                                ELSE Joined(c.method, Bit(a \div 2, i - (k + 1)),
                                    Bit(b \div 2, i - (k + 1)))
  <2>1. i \in Nat
    BY BitWidthAssumption DEF Positions
  <2>2. Bit(z, i) = 1 <=> IF i < k THEN Bit(c.r, i) = 1
                          ELSE Joined(c.method, Bit(a, i - k), Bit(b, i - k))
    BY DEF Joining
  <2>3. CASE i < k
    BY <1>1, <1>10, <2>1, <2>2, <2>3
  <2>4. CASE i = k
    BY <1>1, <1>9, <1>10, <2>1, <2>2, <2>4
  <2>5. CASE i > k
    <3> DEFINE j == i - (k + 1)
    <3>1. j \in Nat /\ j + 1 = i - k
      BY <1>1, <2>1, <2>5
    <3> HIDE DEF j
    <3>2. Bit(a \div 2, j) = Bit(a, j + 1) /\ Bit(b \div 2, j) = Bit(b, j + 1)
      <4>1. a \in Int /\ b \in Int /\ j \in Nat
        BY <1>3, <3>1
      <4> QED BY Zenon, <4>1, HalfBits
    <3>3. Bit(z, i) = 1 <=> Joined(c.method, Bit(a \div 2, j), Bit(b \div 2, j))
      BY <1>1, <2>1, <2>2, <2>5, <3>1, <3>2
    <3>4. ~(i < k + 1)
      BY <1>1, <2>1, <2>5
    <3> QED BY <3>3, <3>4 DEF j
  <2> QED BY <1>1, <2>1, <2>3, <2>4, <2>5
<1>13. d.method = c.method /\ d.a = a \div 2 /\ d.b = b \div 2 /\ d.r = r
  OBVIOUS
<1> HIDE DEF d, a, b
<1>14. Joining(d, z, k + 1)
  BY <1>11, <1>12, <1>13 DEF Joining
<1> QED BY <1>5, <1>6, <1>14

(* A turn of a shift changes two fields.                                   *)
ShiftTurn(c, e, k) == [c EXCEPT !.a = e, !.n = k]

LEMMA ShiftUpdate ==
    ASSUME NEW c, NEW e \in WordValues, NEW k \in 0..(BitWidth - 1),
           c \in [method : Shifting, a : WordValues, b : {0}, r : {0}, m : {1}, n : 0..(BitWidth - 1)]
    PROVE  LET d == ShiftTurn(c, e, k) IN
           /\ d \in [method : Shifting, a : WordValues, b : {0}, r : {0}, m : {1}, n : 0..(BitWidth - 1)]
           /\ d.method = c.method /\ d.a = e /\ d.n = k
<1> DEFINE f == [c EXCEPT !.a = e]
           d == [f EXCEPT !.n = k]
<1>1. /\ f \in [method : Shifting, a : WordValues, b : {0}, r : {0}, m : {1}, n : 0..(BitWidth - 1)]
      /\ f.method = c.method /\ f.a = e
  OBVIOUS
<1>2. ShiftTurn(c, e, k) = d
  BY DEF ShiftTurn
<1> HIDE DEF f
<1>3. /\ d \in [method : Shifting, a : WordValues, b : {0}, r : {0}, m : {1}, n : 0..(BitWidth - 1)]
      /\ d.method = f.method /\ d.a = f.a /\ d.n = k
  BY <1>1
<1> HIDE DEF d
<1> QED BY <1>1, <1>2, <1>3

LEMMA GoingTurns ==
    ASSUME NEW c, NEW z, Moving(c, z), LoopsOn(c)
    PROVE  Moving(Turn(c), z)
<1> DEFINE a == c.a
           n == c.n
           p == Pow2[BitWidth]
<1>1. BitWidth \in Nat \ {0} /\ p \in Nat \ {0}
  BY BitWidthAssumption, Pow2Type
<1>2. /\ c.method \in Shifting /\ c.method \notin Bitwise
      /\ a \in 0..(p - 1) /\ a \in Nat /\ n \in 0..(BitWidth - 1)
      /\ c.b = 0 /\ c.r = 0 /\ c.m = 1
  BY <1>1 DEF Moving, WordValues, Shifting, Bitwise
<1>3. n > 0 /\ n - 1 \in 0..(BitWidth - 1) /\ n - 1 \in Nat
  BY <1>1, <1>2 DEF LoopsOn
<1>4. c \in [method : Shifting, a : WordValues, b : {0}, r : {0}, m : {1}, n : 0..(BitWidth - 1)]
  BY DEF Moving
<1>5. CASE c.method = "lshift"
  <2> DEFINE e == (a * 2) % p
             d == Turn(c)
  <2>2. e \in WordValues
    <3>1. a * 2 \in Int
      BY <1>2
    <3> QED BY <1>1, <3>1, DivMod DEF WordValues
  <2>3. /\ d \in [method : Shifting, a : WordValues, b : {0}, r : {0}, m : {1}, n : 0..(BitWidth - 1)]
        /\ d.method = "lshift" /\ d.a = e /\ d.n = n - 1
    <3>1. d = ShiftTurn(c, e, n - 1)
      BY <1>5 DEF Turn, ShiftTurn
    <3> HIDE DEF d, e
    <3> QED BY <1>3, <1>4, <1>5, <2>2, <3>1, ShiftUpdate
  <2>4. ASSUME NEW j \in Positions PROVE Bit(e, j) = IF j = 0 THEN 0 ELSE Bit(a, j - 1)
    <3>1. j \in Nat /\ j \in 0..(BitWidth - 1) /\ BitWidth \in Nat
      BY <1>1 DEF Positions
    <3>2. Bit(e, j) = Bit(a * 2, j)
      BY <1>2, <3>1, ModBits
    <3>3. Pow2[1] = 2
      <4>1. 0 \in Nat /\ 0 + 1 = 1
        OBVIOUS
      <4> QED BY <4>1, Pow2Zero, Pow2Next
    <3>4. Bit(a * Pow2[1], j) = IF j < 1 THEN 0 ELSE Bit(a, j - 1)
      BY <1>2, <3>1, TimesBits
    <3> QED BY <3>1, <3>2, <3>3, <3>4
  <2> HIDE DEF e
  <2>5. ASSUME NEW i \in Positions
        PROVE  Bit(z, i) = 1 <=> i >= n - 1 /\ Bit(e, i - (n - 1)) = 1
    <3>1. i \in Nat /\ i \in 0..(BitWidth - 1)
      BY <1>1 DEF Positions
    <3>2. Bit(z, i) = 1 <=> i >= n /\ Bit(a, i - n) = 1
      BY <1>5 DEF Moving
    <3>3. CASE i < n - 1
      BY <1>2, <1>3, <3>1, <3>2, <3>3
    <3>4. CASE i = n - 1
      <4>1. i - (n - 1) = 0 /\ 0 \in Positions /\ ~(i >= n)
        BY <1>1, <1>2, <1>3, <3>1, <3>4 DEF Positions
      <4>2. Bit(e, 0) = 0
        BY <4>1, <2>4
      <4> QED BY <3>2, <4>1, <4>2
    <3>5. CASE i >= n
      <4>1. /\ i - (n - 1) \in Positions /\ i - (n - 1) # 0 /\ (i - (n - 1)) - 1 = i - n
            /\ i >= n - 1
        BY <1>1, <1>2, <1>3, <3>1, <3>5 DEF Positions
      <4>2. Bit(e, i - (n - 1)) = Bit(a, i - n)
        BY <4>1, <2>4
      <4> QED BY <3>2, <3>5, <4>1, <4>2
    <3> QED BY <1>2, <3>1, <3>3, <3>4, <3>5
  <2> HIDE DEF d, n
  <2>7. Moving(d, z)
    BY <2>3, <2>5 DEF Moving
  <2> QED BY <2>7 DEF d
<1>6. CASE c.method = "rshift"
  <2> DEFINE e == a \div 2
             d == Turn(c)
  <2>2. e \in WordValues
    BY <1>1, <1>2 DEF WordValues
  <2>3. /\ d \in [method : Shifting, a : WordValues, b : {0}, r : {0}, m : {1}, n : 0..(BitWidth - 1)]
        /\ d.method = "rshift" /\ d.a = e /\ d.n = n - 1
    <3>1. d = ShiftTurn(c, e, n - 1)
      BY <1>6 DEF Turn, ShiftTurn
    <3> HIDE DEF d, e
    <3> QED BY <1>3, <1>4, <1>6, <2>2, <3>1, ShiftUpdate
  <2>4. ASSUME NEW i \in Positions
        PROVE  Bit(z, i) = 1 <=> Bit(a \div 2, i + (n - 1)) = 1
    <3>1. i \in Nat
      BY <1>1 DEF Positions
    <3>2. Bit(z, i) = 1 <=> Bit(a, i + n) = 1
      BY <1>6 DEF Moving
    <3> DEFINE j == i + (n - 1)
    <3>3. j \in Nat /\ j + 1 = i + n
      BY <1>2, <1>3, <3>1
    <3> HIDE DEF j
    <3>4. Bit(a \div 2, j) = Bit(a, j + 1)
      BY <1>2, <3>3, HalfBits
    <3> QED BY <3>2, <3>3, <3>4 DEF j
  <2> HIDE DEF d, e, n
  <2>6. Moving(d, z)
    BY <2>3, <2>4 DEF Moving, e
  <2> QED BY <2>6 DEF d
<1> QED BY <1>2, <1>5, <1>6 DEF Shifting

LEMMA UnderwayTurns ==
    ASSUME NEW c, NEW z, Underway(c, z), LoopsOn(c)
    PROVE  Underway(Turn(c), z)
<1>1. CASE \E k \in 0..BitWidth : Joining(c, z, k)
  <2>1. PICK k \in 0..BitWidth : Joining(c, z, k)
    BY <1>1
  <2>2. k + 1 \in 0..BitWidth /\ Joining(Turn(c), z, k + 1)
    BY <2>1, JoiningTurns
  <2> QED BY <2>2 DEF Underway
<1>2. CASE Moving(c, z)
  <2>1. Moving(Turn(c), z)
    BY <1>2, GoingTurns
  <2> QED BY <2>1 DEF Underway
<1>3. CASE Negating(c, z)
  BY <1>3 DEF Negating, LoopsOn, Bitwise
<1> QED BY <1>1, <1>2, <1>3 DEF Underway

LEMMA UnderwayReturns ==
    ASSUME NEW c, NEW z, Underway(c, z), ~LoopsOn(c)
    PROVE  Returned(c) = z
<1>1. z \in Fixed(BitWidth) /\ BitWidth \in Nat
  BY BitWidthAssumption DEF Underway
<1>2. ASSUME NEW k \in 0..BitWidth, Joining(c, z, k) PROVE Returned(c) = z
  <2>1. k \in Nat /\ BitWidth - k \in Nat
    BY <1>1
  <2>2. Pow2[k] \in Nat \ {0} /\ Pow2[BitWidth - k] \in Nat \ {0}
    BY <2>1, Pow2Type
  <2>3. /\ c.method \in Bitwise /\ c.method \notin Shifting /\ c.r \in 0..(Pow2[k] - 1)
        /\ c.a \in Nat /\ c.b \in Nat
    BY <1>2, <2>2 DEF Joining, Bitwise, Shifting
  <2>4. c.a = 0 /\ c.b = 0
    BY <2>3 DEF LoopsOn
  <2>5. ASSUME NEW i \in Positions PROVE Bit(z, i) = 1 <=> Bit(c.r, i) = 1
    <3>1. i \in Nat
      BY <1>1 DEF Positions
    <3>2. Bit(z, i) = 1 <=> IF i < k THEN Bit(c.r, i) = 1
                            ELSE Joined(c.method, Bit(c.a, i - k), Bit(c.b, i - k))
      BY <1>2 DEF Joining
    <3>3. CASE i < k
      BY <3>2, <3>3
    <3>4. CASE k <= i
      <4>1. i - k \in Nat /\ ~(i < k)
        BY <2>1, <3>1, <3>4
      <4>2. Bit(0, i - k) = 0
        BY <4>1, ZeroBits
      <4>3. ~Joined(c.method, 0, 0)
        BY <2>3 DEF Joined, Bitwise
      <4>4. Bit(c.r, i) = 0
        BY <2>1, <2>3, <3>1, <3>4, NoBits
      <4> QED BY <2>4, <3>2, <4>1, <4>2, <4>3, <4>4
    <3> QED BY <2>1, <3>1, <3>3, <3>4
  <2>6. c.r \in Int
    BY <2>2, <2>3
  <2>7. Signed(c.r) = z
    BY <1>1, <2>5, <2>6, SignedIs
  <2> QED BY <2>3, <2>7 DEF Returned
<1>3. CASE Moving(c, z)
  <2>1. Pow2[BitWidth] \in Nat \ {0} /\ BitWidth \in Nat \ {0}
    BY BitWidthAssumption, Pow2Type
  <2>2. c.method \in Shifting /\ c.n = 0 /\ c.a \in Int
    BY <1>3, <2>1 DEF Moving, LoopsOn, WordValues
  <2>3. ASSUME NEW i \in Positions PROVE Bit(z, i) = 1 <=> Bit(c.a, i) = 1
    <3>1. i \in Nat /\ i + 0 = i /\ i - 0 = i /\ i >= 0
      BY <2>1 DEF Positions
    <3> QED BY <1>3, <2>2, <3>1 DEF Moving
  <2>4. Signed(c.a) = z
    BY <1>1, <2>2, <2>3, SignedIs
  <2> QED BY <2>2, <2>4 DEF Returned
<1>4. CASE Negating(c, z)
  <2>1. Pow2[BitWidth] \in Nat \ {0}
    BY <1>1, Pow2Type
  <2>2. c.method \notin Shifting /\ c.r \in Int
    BY <1>4, <2>1 DEF Negating, Shifting, WordValues
  <2>3. Signed(c.r) = z
    BY <1>1, <1>4, <2>2, SignedIs DEF Negating
  <2> QED BY <2>2, <2>3 DEF Returned
<1> QED BY <1>2, <1>3, <1>4 DEF Underway

-----------------------------------------------------------------------------
(* Integers of fewer bits are integers of more, and repeat their sign.     *)
LEMMA WidthsType == BitWidth \in Nat \ {0} /\ Width \in Nat \ {0} /\ BitWidth <= Width
BY BitWidthAssumption, WidthAssumption, ConstantsAssumption

LEMMA NarrowFits ==
    ASSUME NEW n \in Fixed(BitWidth)
    PROVE  n \in Int /\ n \in Fixed(Width)
<1>1. BitWidth - 1 \in Nat /\ Width - 1 \in Nat /\ BitWidth - 1 <= Width - 1
  BY WidthsType
<1>2. Pow2[BitWidth - 1] \in Nat /\ Pow2[Width - 1] \in Nat /\ Pow2[BitWidth - 1] <= Pow2[Width - 1]
  BY <1>1, Pow2Type, Pow2Monotone
<1> QED BY <1>2 DEF Fixed

LEMMA SignRepeats ==
    ASSUME NEW n \in Fixed(BitWidth), NEW i \in Nat, BitWidth - 1 <= i
    PROVE  Bit(n, i) = Bit(n, BitWidth - 1)
<1>1. BitWidth - 1 \in Nat /\ BitWidth - 1 <= BitWidth - 1
  BY WidthsType
<1>2. n \in -Pow2[BitWidth - 1]..(Pow2[BitWidth - 1] - 1)
  BY DEF Fixed
<1> QED BY <1>1, <1>2, SignBits

LEMMA AppliedIs ==
    ASSUME NEW w \in Nat \ {0}, NEW x \in Int, NEW y \in Int, NEW op \in SixOperators,
           NEW n \in Fixed(w), n \in Int,
           \A i \in 0..(w - 1) : Bit(n, i) = 1 <=> Made(op, x, y, w, i)
    PROVE  Applied(op, x, y, w) = n
<1> DEFINE z == Applied(op, x, y, w)
<1>1. z \in Fixed(w) /\ \A i \in 0..(w - 1) : Bit(z, i) = 1 <=> Made(op, x, y, w, i)
  BY AppliedBits
<1>2. z \in Int
  BY <1>1, Pow2Type DEF Fixed
<1> HIDE DEF z
<1>3. ASSUME NEW i \in 0..(w - 1) PROVE Bit(z, i) = Bit(n, i)
  <2>1. i \in Nat
    OBVIOUS
  <2>2. Bit(z, i) \in {0, 1} /\ Bit(n, i) \in {0, 1}
    BY <1>2, <2>1, BitType
  <2> QED BY <1>1, <2>2
<1>4. z = n
  BY <1>1, <1>3, SameFixed
<1> QED BY <1>4 DEF z

LEMMA SameOperation ==
    ASSUME NEW x \in Int, NEW y \in Int, NEW op \in SixOperators, OddOperation(op, x, y) = {}
    PROVE  Applied(op, x, y, Width) = InLibrary(op, x, y)
<1>1. /\ BitWidth \in Nat \ {0} /\ BitWidth \in Nat /\ Width \in Nat \ {0} /\ BitWidth <= Width
      /\ BitWidth - 1 \in Nat
  BY WidthsType
<1>2. /\ x \in Fixed(BitWidth)
      /\ Method(op) \in Bitwise => y \in Fixed(BitWidth)
      /\ Method(op) \in Shifting => y \in 0..(BitWidth - 1)
      /\ ~(op = ">>" /\ x < 0 /\ y > 0)
      /\ op = "<<" => x * Pow2[y] \in Fixed(BitWidth)
  <2>1. \A c \in {"wide_operand", "shift_count", "negative_shr", "overflow"} : c \notin OddOperation(op, x,
            y)
    OBVIOUS
  <2>2. x \in Fixed(BitWidth) /\ (Method(op) \in Bitwise => y \in Fixed(BitWidth))
    BY <2>1 DEF OddOperation, Narrow
  <2>3. Method(op) \in Shifting => y \in 0..(BitWidth - 1)
    BY <2>1 DEF OddOperation
  <2>4. ~(op = ">>" /\ x < 0 /\ y > 0)
    BY <2>1 DEF OddOperation
  <2>5. op = "<<" => y \in 0..(BitWidth - 1)
    BY <2>3 DEF Method, Shifting
  <2>6. op = "<<" => x * Pow2[y] \in Fixed(BitWidth)
    BY <2>1, <2>5 DEF OddOperation, Narrow
  <2> QED BY <2>2, <2>3, <2>4, <2>6
<1>3. CASE op \in {"&", "|", "~", "not"}
  <2> DEFINE z == Applied(op, x, y, BitWidth)
  <2>1. Method(op) \notin Shifting /\ (op # "not" => Method(op) \in Bitwise)
    BY <1>3 DEF Method, Shifting, Bitwise
  <2>2. InLibrary(op, x, y) = z
    BY <2>1 DEF InLibrary
  <2>3. z \in Fixed(BitWidth) /\ \A i \in 0..(BitWidth - 1) : Bit(z, i) = 1 <=> Made(op, x, y, BitWidth, i)
    BY <1>1, AppliedBits
  <2> HIDE DEF z
  <2>4. z \in Fixed(Width) /\ z \in Int
    BY <2>3, NarrowFits
  <2>5. ASSUME NEW i \in 0..(Width - 1) PROVE Bit(z, i) = 1 <=> Made(op, x, y, Width, i)
    <3>1. CASE i \in 0..(BitWidth - 1)
      BY <1>3, <2>3, <3>1 DEF Made
    <3>2. CASE i \notin 0..(BitWidth - 1)
      <4>1. i \in Nat /\ BitWidth - 1 <= i /\ BitWidth - 1 \in 0..(BitWidth - 1)
        BY <1>1, <3>2
      <4>2. Bit(z, i) = Bit(z, BitWidth - 1) /\ Bit(x, i) = Bit(x, BitWidth - 1)
        BY <1>2, <2>3, <4>1, SignRepeats
      <4>3. op # "not" => Bit(y, i) = Bit(y, BitWidth - 1)
        BY <1>2, <2>1, <4>1, SignRepeats
      <4>4. Bit(z, BitWidth - 1) = 1 <=> Made(op, x, y, BitWidth, BitWidth - 1)
        BY <2>3, <4>1
      <4> QED BY <1>3, <4>2, <4>3, <4>4 DEF Made
    <3> QED BY <3>1, <3>2
  <2> QED BY <1>1, <2>2, <2>4, <2>5, AppliedIs
<1>4. CASE op \in {"<<", ">>"}
  <2>1. Method(op) \in Shifting
    BY <1>4 DEF Method, Shifting
  <2>2. y \in 0..(BitWidth - 1) /\ y \in Nat
    BY <1>1, <1>2, <2>1
  <2>3. y % BitWidth = y
    <3>1. BitWidth * 0 + y = y /\ 0 \in Int
      BY <1>1, <2>2
    <3>2. (BitWidth * 0 + y) % BitWidth = y
      BY <1>1, <2>2, DivUnique
    <3> QED BY <3>1, <3>2
  <2>4. InLibrary(op, x, y) = Applied(op, x, y, BitWidth)
    BY <2>1, <2>3 DEF InLibrary
  <2>5. ASSUME NEW z \in Fixed(BitWidth),
               \A w \in {BitWidth, Width} : \A i \in 0..(w - 1) : Bit(z, i) = 1 <=> Made(op, x, y, w, i)
        PROVE  Applied(op, x, y, Width) = Applied(op, x, y, BitWidth)
    <3>1. z \in Fixed(Width) /\ z \in Int
      BY NarrowFits
    <3>2. Applied(op, x, y, Width) = z
      BY <1>1, <2>5, <3>1, AppliedIs
    <3>3. Applied(op, x, y, BitWidth) = z
      BY <1>1, <2>5, <3>1, AppliedIs
    <3> QED BY <3>2, <3>3
  <2>6. CASE op = "<<"
    <3> DEFINE z == x * Pow2[y]
    <3>1. z \in Fixed(BitWidth)
      BY <1>2, <2>6
    <3>2. ASSUME NEW w \in {BitWidth, Width}, NEW i \in 0..(w - 1)
          PROVE  Bit(z, i) = 1 <=> Made(op, x, y, w, i)
      <4>1. w \in Nat /\ i \in Nat
        BY <1>1
      <4>2. Bit(z, i) = IF i < y THEN 0 ELSE Bit(x, i - y)
        BY <2>2, <4>1, TimesBits
      <4>3. i - y \in 0..(w - 1) <=> ~(i < y)
        BY <2>2, <4>1
      <4> QED BY <2>6, <4>2, <4>3 DEF Made
    <3> HIDE DEF z
    <3> QED BY <2>4, <2>5, <3>1, <3>2
  <2>7. CASE op = ">>"
    <3> DEFINE z == x \div Pow2[y]
    <3>1. Pow2[y] \in Nat \ {0} /\ (y = 0 => Pow2[y] = 1)
      BY <2>2, Pow2Type, Pow2Zero
    <3>2. x >= 0 \/ y = 0
      BY <1>2, <2>2, <2>7
    <3>3. z \in Fixed(BitWidth)
      <4>1. CASE y = 0
        BY <1>2, <3>1, <4>1
      <4>2. CASE x >= 0
        <5> DEFINE r == x % Pow2[y]
                   p == Pow2[y]
        <5>1. z \in Int /\ r \in 0..(p - 1) /\ x = p * z + r
          BY <3>1, DivMod
        <5>2. p \in Nat \ {0}
          BY <3>1
        <5> HIDE DEF z, r, p
        <5>3. z >= 0
          <6>1. z <= -1 => p * z <= -p
            BY <5>1, <5>2
          <6> QED BY <4>2, <5>1, <5>2, <6>1
        <5>4. z <= p * z
          BY <5>1, <5>2, <5>3
        <5>5. p * z \in Int
          BY <5>1, <5>2
        <5>6. 0 <= z /\ z <= x
          BY <5>1, <5>2, <5>3, <5>4, <5>5
        <5> QED BY <1>1, <1>2, <5>1, <5>6, Pow2Type DEF Fixed
      <4> QED BY <3>2, <4>1, <4>2
    <3>4. ASSUME NEW w \in {BitWidth, Width}, NEW i \in 0..(w - 1)
          PROVE  Bit(z, i) = 1 <=> Made(op, x, y, w, i)
      <4>1. w \in Nat /\ i \in Nat /\ i + y \in Nat /\ BitWidth <= w
        BY <1>1, <2>2
      <4>2. Bit(z, i) = Bit(x, i + y)
        BY <2>2, <4>1, DivBits
      <4>3. i + y \notin 0..(w - 1) => Bit(x, i + y) = 0
        <5>1. ASSUME i + y \notin 0..(w - 1) PROVE Bit(x, i + y) = 0
          <6>1. x >= 0 /\ BitWidth - 1 <= i + y
            BY <1>1, <2>2, <3>2, <4>1, <5>1
          <6>2. x \in -Pow2[BitWidth - 1]..(Pow2[BitWidth - 1] - 1)
            BY <1>2 DEF Fixed
          <6>3. Bit(x, i + y) = IF x < 0 THEN 1 ELSE 0
            BY <1>1, <4>1, <6>1, <6>2, SignBits
          <6> QED BY <6>1, <6>3
        <5> QED BY <5>1
      <4> QED BY <2>7, <4>2, <4>3 DEF Made
    <3> HIDE DEF z
    <3> QED BY <2>4, <2>5, <3>3, <3>4
  <2> QED BY <1>4, <2>6, <2>7
<1> QED BY <1>3, <1>4 DEF SixOperators

-----------------------------------------------------------------------------
(* The invariant of the operators: a call that is underway works towards   *)
(* what LuaJIT's library gives, and as long as nothing odd has been met    *)
(* Lua 5.5 gives that too.                                                 *)
LEMMA UnderwayDiffers == ASSUME NEW c, NEW z, Underway(c, z) PROVE c # NoCall
<1>1. c.method \in Bitwise \cup Shifting \cup {"bnot"}
  <2>1. ASSUME NEW k \in 0..BitWidth, Joining(c, z, k) PROVE c.method \in Bitwise
    BY <2>1 DEF Joining
  <2>2. CASE Moving(c, z)
    BY <2>2 DEF Moving
  <2>3. CASE Negating(c, z)
    BY <2>3 DEF Negating
  <2> QED BY <2>1, <2>2, <2>3 DEF Underway
<1>2. NoCall.method = "none"
  BY DEF NoCall
<1>3. "none" \notin Bitwise \cup Shifting \cup {"bnot"}
  BY DEF Bitwise, Shifting
<1> QED BY <1>1, <1>2, <1>3

LEMMA FixedInt == ASSUME NEW n \in Fixed(BitWidth) PROVE n \in Int
BY NarrowFits

LEMMA OperatorInit == Init => OperatorInv
<1> SUFFICES ASSUME Init, mode = "operator" PROVE OperatorInv
  BY DEF OperatorInv
<1>1. value \in Int /\ native = value /\ meant = value /\ call = NoCall
  BY ConstantsAssumption DEF Init
<1> QED BY <1>1 DEF OperatorInv

LEMMA OperateInv == ASSUME OperatorInv, Operate PROVE OperatorInv'
<1>1. PICK op \in Operators55, y \in Operands :
        /\ Meets(OddOperation(op, value, y))
        /\ call' = Called(Method(op), value, y)
        /\ meant' = Applied(op, meant, y, Width)
        /\ native' = InLibrary(op, value, y)
  BY DEF Operate
<1>2. mode = "operator" /\ odd = {} /\ call = NoCall /\ value' = value
  BY DEF Operate
<1>3. value \in Int /\ native = value /\ meant = value
  BY <1>2 DEF OperatorInv
<1>4. op \in SixOperators /\ y \in Int
  BY ConstantsAssumption DEF SixOperators
<1>5. Underway(call', native')
  BY <1>1, <1>3, <1>4, CalledUnderway
<1>6. call' # NoCall /\ native' \in Int
  BY <1>5, UnderwayDiffers, FixedInt DEF Underway
<1>7. odd' = {} => meant' = native'
  <2>1. ASSUME odd' = {} PROVE OddOperation(op, value, y) = {}
    BY <1>1, <2>1 DEF Meets
  <2>2. OddOperation(op, value, y) = {} => Applied(op, value, y, Width) = InLibrary(op, value, y)
    BY <1>3, <1>4, SameOperation
  <2> QED BY <1>1, <1>3, <2>1, <2>2
<1> QED BY <1>2, <1>3, <1>5, <1>6, <1>7 DEF OperatorInv

LEMMA LoopInv == ASSUME OperatorInv, Loop PROVE OperatorInv'
<1>1. /\ call # NoCall /\ LoopsOn(call) /\ call' = Turn(call)
      /\ mode' = mode /\ odd' = odd /\ value' = value /\ meant' = meant /\ native' = native
  BY DEF Loop
<1> SUFFICES ASSUME mode = "operator" PROVE OperatorInv'
  BY <1>1 DEF OperatorInv
<1>2. Underway(call, native)
  BY <1>1 DEF OperatorInv
<1>3. Underway(call', native)
  BY <1>1, <1>2, UnderwayTurns
<1>4. call' # NoCall
  BY <1>3, UnderwayDiffers
<1> QED BY <1>1, <1>3, <1>4 DEF OperatorInv

LEMMA ReturnInv == ASSUME OperatorInv, Return PROVE OperatorInv'
<1>1. /\ call # NoCall /\ ~LoopsOn(call) /\ call' = NoCall /\ value' = Returned(call)
      /\ mode' = mode /\ odd' = odd /\ meant' = meant /\ native' = native
  BY DEF Return
<1> SUFFICES ASSUME mode = "operator" PROVE OperatorInv'
  BY <1>1 DEF OperatorInv
<1>2. Underway(call, native)
  BY <1>1 DEF OperatorInv
<1>3. value' = native
  BY <1>1, <1>2, UnderwayReturns
<1> QED BY <1>1, <1>3 DEF OperatorInv

LEMMA OperatorStep == OperatorInv /\ [Next]_vars => OperatorInv'
<1> SUFFICES ASSUME OperatorInv, [Next]_vars PROVE OperatorInv'
  OBVIOUS
<1>1. ASSUME operation' = operation, mode' = mode, mode = "operator" => odd' = odd
      PROVE  OperatorInv'
  <2>1. call' = call /\ value' = value /\ meant' = meant /\ native' = native
    BY <1>1 DEF operation
  <2> QED BY <1>1, <2>1 DEF OperatorInv
<1>2. CASE Read
  BY <1>1, <1>2 DEF Read
<1>3. CASE ChooseNode \/ PrintToken \/ PushIndent \/ CompleteNode \/ PrintOdd
  BY <1>1, <1>3 DEF ChooseNode, PrintToken, PushIndent, CompleteNode, PrintOdd, Prints
<1>4. CASE Spell
  BY <1>1, <1>4 DEF Spell
<1>5. CASE ReadPrinted
  BY <1>1, <1>5 DEF ReadPrinted
<1>6. CASE SpellInteger
  BY <1>6 DEF SpellInteger, OperatorInv
<1>7. CASE UNCHANGED vars
  BY <1>1, <1>7 DEF vars
<1> QED BY <1>2, <1>3, <1>4, <1>5, <1>6, <1>7, OperateInv, LoopInv, ReturnInv DEF Next

(* Every call of the injected library works towards what LuaJIT's gives.   *)
THEOREM CallsOnCourse == Spec => []OperatorInv
BY OperatorInit, OperatorStep, PTL DEF Spec

(* For every width of its numbers and all operands, in chains of any       *)
(* length, the injected library gives what LuaJIT's does.                  *)
THEOREM LibraryIsLuaJITs == Spec => []LikeBitLibrary
<1>1. OperatorInv => LikeBitLibrary
  BY DEF OperatorInv, LikeBitLibrary
<1> QED BY <1>1, CallsOnCourse, PTL

(* A lowered operator gives what Lua 5.5's gives, for all widths of the    *)
(* two, as long as none of the four constructs is met.                     *)
THEOREM LoweringsSame == Spec => []SameValue
<1>1. OperatorInv => SameValue
  BY DEF OperatorInv, SameValue
<1> QED BY <1>1, CallsOnCourse, PTL

-----------------------------------------------------------------------------
(* What Lua 5.1 has read, with what it has still to read, makes up the     *)
(* string: the text is plain, or the escape of a character, at one of the  *)
(* points where it can be broken off.                                      *)
Readers == [bytes : Seq(Nat), slash : BOOLEAN, digits : 0..2, num : Nat]

LiteralTypes ==
    /\ points \in Seq(Nat) /\ text \in Seq(Nat) /\ bytes \in Seq(Nat)
    /\ reader \in Readers
    /\ reader.digits = 0 => reader.num = 0
    /\ reader.slash => reader.digits = 0

AsItIs ==
    /\ ~reader.slash
    /\ \A i \in DOMAIN text : text[i] # Backslash
    /\ reader.digits # 0 =>
         IF text # <<>> THEN ~Digit(text[1]) ELSE points # <<>> /\ Control(points[Len(points)])
    /\ bytes = Flush(reader).bytes \o text

Lettered(c) ==
    /\ Letter(c) # 0
    /\ bytes = Append(Flush(reader).bytes, c)
    /\ text = IF reader.slash THEN <<Letter(c)>> ELSE <<Backslash, Letter(c)>>

Numbered(c) ==
    /\ Control(c) /\ points # <<>> /\ points[Len(points)] = c
    /\ \/ ~reader.slash /\ text = <<Backslash>> \o Digits(c) /\ bytes = Append(Flush(reader).bytes, c)
       \/ reader.slash /\ text = Digits(c) /\ bytes = Append(reader.bytes, c)
       \/ /\ ~reader.slash /\ reader.digits = 1 /\ reader.num = c \div 10 /\ c >= 10
          /\ text = <<48 + (c % 10)>> /\ bytes = Append(reader.bytes, c)

LiteralInv ==
    mode = "string" /\ odd = {} =>
      LiteralTypes /\ (AsItIs \/ \E c \in Nat : Lettered(c) \/ Numbered(c))

(* A string of bytes beyond ASCII.                                         *)
High(s) == s # <<>> /\ s \in Seq(Nat) /\ \A i \in DOMAIN s : s[i] >= 128

-----------------------------------------------------------------------------
LEMMA AppendIs == ASSUME NEW s \in Seq(Nat), NEW c \in Nat PROVE s \o <<c>> = Append(s, c)
OBVIOUS

LEMMA AppendCat ==
    ASSUME NEW s \in Seq(Nat), NEW t \in Seq(Nat), NEW c \in Nat
    PROVE  Append(s, c) \o t = s \o (<<c>> \o t)
<1>1. <<c>> \in Seq(Nat)
  OBVIOUS
<1>2. (s \o <<c>>) \o t = s \o (<<c>> \o t)
  BY <1>1, ConcatAssociative
<1> QED BY <1>2, AppendIs

LEMMA Split ==
    ASSUME NEW s \in Seq(Nat), NEW c \in Nat
    PROVE  Head(<<c>> \o s) = c /\ Tail(<<c>> \o s) = s
OBVIOUS

LEMMA Utf8Low == ASSUME NEW c \in Nat, c < 128 PROVE Utf8(c) = <<c>>
BY DEF Utf8

LEMMA Utf8High == ASSUME NEW c \in Nat, c >= 128 PROVE High(Utf8(c))
<1>1. \A n \in Nat : (n % 64) \in 0..63
  OBVIOUS
<1>2. c \div 64 \in Nat /\ c \div 4096 \in Nat /\ c \div 262144 \in Nat
  OBVIOUS
<1> DEFINE m(n) == 128 + ((c \div n) % 64)
<1>3. /\ m(1) \in Nat /\ m(1) >= 128 /\ m(64) \in Nat /\ m(64) >= 128
      /\ m(4096) \in Nat /\ m(4096) >= 128
  BY <1>1, <1>2
<1>4. CASE c < 2048
  <2>1. Utf8(c) = <<192 + c \div 64, m(1)>>
    BY <1>4 DEF Utf8
  <2> QED BY <1>2, <1>3, <2>1 DEF High
<1>5. CASE 2048 <= c /\ c < 65536
  <2>1. Utf8(c) = <<224 + c \div 4096, m(64), m(1)>>
    BY <1>5 DEF Utf8
  <2> QED BY <1>2, <1>3, <2>1 DEF High
<1>6. CASE 65536 <= c
  <2>1. Utf8(c) = <<240 + c \div 262144, m(4096), m(64), m(1)>>
    BY <1>6 DEF Utf8
  <2> QED BY <1>2, <1>3, <2>1 DEF High
<1> QED BY <1>4, <1>5, <1>6

LEMMA UnitTyped == ASSUME NEW unit \in StringUnits PROVE unit.v \in Nat
    /\ (unit.how = "named" => unit.v < 128)
<1>1. MaxCodePoint \in Nat
  BY DEF MaxCodePoint
<1>2. CASE unit \in [how : {"char", "unicode"}, v : CodePoints]
  BY <1>1, <1>2 DEF CodePoints
<1>3. CASE unit \in [how : {"decimal", "hex"}, v : 0..255]
  BY <1>3
<1>4. CASE unit \in [how : {"named"}, v : 7..13 \cup {34, 39, 92}]
  BY <1>4
<1>5. CASE unit \in [how : {"skip"}, v : {0}]
  BY <1>5
<1> QED BY <1>2, <1>3, <1>4, <1>5 DEF StringUnits

LEMMA LetterIs ==
    ASSUME NEW c \in Nat, Letter(c) # 0
    PROVE  c < 128 /\ Letter(c) \in Nat /\ ~Digit(Letter(c)) /\ Unescaped(Letter(c)) = c
BY DEF Letter, Unescaped, Backslash, Digit

(* What is printed for a code point.                                       *)
LEMMA EscapedIs ==
    ASSUME NEW c \in Nat
    PROVE  /\ Letter(c) # 0 => Escaped(c) = <<Backslash, Letter(c)>>
           /\ Control(c) => Letter(c) = 0 /\ c < 32 /\ Escaped(c) = <<Backslash>> \o Digits(c)
           /\ Letter(c) = 0 /\ ~Control(c) => Escaped(c) = Utf8(c) /\ c # Backslash
<1>1. Letter(c) # 0 => Escaped(c) = <<Backslash, Letter(c)>>
  BY DEF Escaped, Control
<1>2. Control(c) => Letter(c) = 0 /\ c < 32 /\ Escaped(c) = <<Backslash>> \o Digits(c)
  BY DEF Escaped, Control
<1>3. Letter(c) = 0 /\ ~Control(c) => Escaped(c) = Utf8(c)
  BY DEF Escaped
<1>4. Letter(Backslash) # 0
  BY DEF Letter, Backslash
<1> QED BY <1>1, <1>2, <1>3, <1>4

LEMMA DigitsAre ==
    ASSUME NEW c \in Nat, Control(c)
    PROVE  /\ Digits(c) \in Seq(Nat) /\ Digits(c) # <<>>
           /\ c < 10 => Digits(c) = <<48 + c>> /\ Digit(48 + c)
           /\ c >= 10 => /\ Digits(c) = <<48 + c \div 10, 48 + (c % 10)>>
                         /\ Digit(48 + c \div 10) /\ Digit(48 + (c % 10))
                         /\ c = 10 * (c \div 10) + (c % 10) /\ c \div 10 \in Nat /\ c % 10 \in Nat
<1>1. c < 32
  BY DEF Control
<1> QED BY <1>1 DEF Digits, Digit

LEMMA NumberedText == ASSUME NEW c \in Nat, Numbered(c) PROVE text # <<>>
<1> SUFFICES ASSUME text = <<>> PROVE FALSE
  OBVIOUS
<1>1. Digits(c) \in Seq(Nat) /\ Digits(c) # <<>>
  BY DigitsAre DEF Numbered
<1>2. <<Backslash>> \o Digits(c) # <<>>
  BY <1>1
<1> QED BY <1>1, <1>2 DEF Numbered

LEMMA FlushIs ==
    ASSUME NEW r \in Readers
    PROVE  /\ r.digits = 0 => Flush(r) = r
           /\ r.digits # 0 => /\ Flush(r).bytes = Append(r.bytes, r.num) /\ Flush(r).slash = r.slash
                              /\ Flush(r).digits = 0 /\ Flush(r).num = 0
           /\ Flush(r) \in Readers
<1>1. r.digits = 0 => Flush(r) = r
  BY DEF Flush
<1>2. r.digits # 0 =>
        Flush(r) = [bytes |-> Append(r.bytes, r.num), slash |-> r.slash, digits |-> 0, num |-> 0]
  BY DEF Flush, Readers
<1>3. Append(r.bytes, r.num) \in Seq(Nat) /\ r.slash \in BOOLEAN
  BY DEF Readers
<1>4. ASSUME r.digits # 0 PROVE Flush(r) \in Readers
  <2> DEFINE b == Append(r.bytes, r.num)
  <2>1. Flush(r) = [bytes |-> b, slash |-> r.slash, digits |-> 0, num |-> 0]
    BY <1>2, <1>4
  <2>2. b \in Seq(Nat)
    BY <1>3
  <2> HIDE DEF b
  <2> QED BY <1>3, <2>1, <2>2 DEF Readers
<1> QED BY <1>1, <1>2, <1>4

(* What reading a character does.                                          *)
LEMMA ReadDigit ==
    ASSUME NEW r \in Readers, NEW c \in Nat, Digit(c), r.slash \/ r.digits \in 1..2
    PROVE  /\ ReadChar(r, c) = [bytes |-> r.bytes, slash |-> FALSE, digits |-> r.digits + 1,
                                num |-> 10 * r.num + (c - 48)]
           /\ r.digits < 2 => ReadChar(r, c) \in Readers
<1>1. ReadChar(r, c) = [bytes |-> r.bytes, slash |-> FALSE, digits |-> r.digits + 1,
                        num |-> 10 * r.num + (c - 48)]
  BY DEF ReadChar, Readers
<1>2. 10 * r.num + (c - 48) \in Nat /\ r.bytes \in Seq(Nat) /\ (r.digits < 2 => r.digits + 1 \in 0..2)
  BY DEF Readers, Digit
<1> QED BY <1>1, <1>2 DEF Readers

LEMMA ReadEscape ==
    ASSUME NEW r \in Readers, NEW c \in Nat, ~Digit(c), r.slash
    PROVE  /\ ReadChar(r, c) = [bytes |-> Append(r.bytes, Unescaped(c)), slash |-> FALSE,
                                digits |-> r.digits, num |-> r.num]
           /\ Unescaped(c) \in Nat => ReadChar(r, c) \in Readers
<1>1. ReadChar(r, c) = [bytes |-> Append(r.bytes, Unescaped(c)), slash |-> FALSE,
                        digits |-> r.digits, num |-> r.num]
  BY DEF ReadChar, Readers
<1>2. /\ Unescaped(c) \in Nat => Append(r.bytes, Unescaped(c)) \in Seq(Nat)
      /\ r.digits \in 0..2 /\ r.num \in Nat
  BY DEF Readers
<1> QED BY <1>1, <1>2 DEF Readers

LEMMA ReadPlain ==
    ASSUME NEW r \in Readers, NEW c \in Nat, ~r.slash, r.digits # 0 => ~Digit(c),
           r.digits = 0 => r.num = 0
    PROVE  /\ ReadChar(r, c) =
                IF c = Backslash
                THEN [bytes |-> Flush(r).bytes, slash |-> TRUE, digits |-> 0, num |-> 0]
                ELSE [bytes |-> Append(Flush(r).bytes, c), slash |-> FALSE, digits |-> 0, num |-> 0]
           /\ ReadChar(r, c) \in Readers
<1> DEFINE f == Flush(r)
<1>1. f \in Readers /\ ~f.slash /\ f.digits = 0 /\ f.num = 0
  BY FlushIs
<1>2. ReadChar(r, c) = IF c = Backslash THEN [f EXCEPT !.slash = TRUE] ELSE [f EXCEPT !.bytes = Append(@,
          c)]
  BY DEF ReadChar
<1> HIDE DEF f
<1>3. c = Backslash => ReadChar(r, c) = [bytes |-> f.bytes, slash |-> TRUE, digits |-> 0, num |-> 0]
  BY <1>1, <1>2 DEF Readers
<1>4. c # Backslash => ReadChar(r, c) = [bytes |-> Append(f.bytes, c), slash |-> FALSE, digits |-> 0,
          num |-> 0]
  BY <1>1, <1>2 DEF Readers
<1>5. f.bytes \in Seq(Nat) /\ Append(f.bytes, c) \in Seq(Nat)
  BY <1>1 DEF Readers
<1>6. ReadChar(r, c) \in Readers
  <2>1. CASE c = Backslash
    <3> DEFINE b == f.bytes
    <3>1. ReadChar(r, c) = [bytes |-> b, slash |-> TRUE, digits |-> 0, num |-> 0] /\ b \in Seq(Nat)
      BY <1>3, <1>5, <2>1
    <3> HIDE DEF b
    <3> QED BY <3>1 DEF Readers
  <2>2. CASE c # Backslash
    <3> DEFINE b == Append(f.bytes, c)
    <3>1. ReadChar(r, c) = [bytes |-> b, slash |-> FALSE, digits |-> 0, num |-> 0] /\ b \in Seq(Nat)
      BY <1>4, <1>5, <2>2
    <3> HIDE DEF b
    <3> QED BY <3>1 DEF Readers
  <2> QED BY <2>1, <2>2
<1> QED BY <1>3, <1>4, <1>6 DEF f

-----------------------------------------------------------------------------
LEMMA LiteralInit == Init => LiteralInv
<1> SUFFICES ASSUME Init PROVE LiteralInv
  OBVIOUS
<1>1. points = <<>> /\ text = <<>> /\ bytes = <<>>
          /\ reader = [bytes |-> <<>>, slash |-> FALSE, digits |-> 0, num |-> 0]
  BY DEF Init, NewReader
<1>2. reader \in Readers /\ ~reader.slash /\ reader.digits = 0 /\ reader.num = 0
  BY <1>1 DEF Readers
<1>3. Flush(reader).bytes = <<>>
  BY <1>1, <1>2, FlushIs
<1>4. LiteralTypes /\ AsItIs
  BY <1>1, <1>2, <1>3 DEF LiteralTypes, AsItIs
<1> QED BY <1>4 DEF LiteralInv

LEMMA SpellInv == ASSUME LiteralInv, Spell PROVE LiteralInv'
<1> SUFFICES ASSUME odd' = {} PROVE LiteralInv'
  BY DEF LiteralInv
<1>1. /\ mode = "string" /\ odd = {} /\ text = <<>>
      /\ mode' = mode /\ reader' = reader
  BY DEF Spell
<1>2. PICK unit \in Units : /\ Meets(OddUnit(points, unit))
                            /\ points' = points \o Scan(unit)
                            /\ text' = EmitString(Scan(unit))
                            /\ bytes' = bytes \o LuaString(unit)
  BY DEF Spell
<1>3. unit \in StringUnits /\ unit.v \in Nat /\ (unit.how = "named" => unit.v < 128)
  BY ConstantsAssumption, UnitTyped
<1>4. LiteralTypes
  BY <1>1 DEF LiteralInv
<1>5. AsItIs
  <2>1. \A c : ~Lettered(c)
    BY <1>1 DEF Lettered
  <2>2. \A c \in Nat : ~Numbered(c)
    BY <1>1, NumberedText
  <2> QED BY <1>1, <2>1, <2>2 DEF LiteralInv
<1> DEFINE b == Flush(reader).bytes
<1>6. b \in Seq(Nat) /\ bytes = b /\ ~reader.slash
  <2>1. b \in Seq(Nat)
    BY <1>4, FlushIs DEF LiteralTypes, Readers
  <2>2. bytes = b \o <<>> /\ ~reader.slash
    BY <1>1, <1>5 DEF AsItIs
  <2> HIDE DEF b
  <2> QED BY <2>1, <2>2
<1>7. b = Flush(reader').bytes
  BY <1>1
<1> HIDE DEF b
<1>8. CASE unit.how = "skip"
  <2>1. Scan(unit) = <<>> /\ LuaString(unit) = <<>>
    BY <1>8 DEF Scan, LuaString
  <2>2. text' = <<>> /\ points' = points /\ bytes' = bytes
    BY <1>2, <1>4, <2>1 DEF EmitString, LiteralTypes
  <2>3. LiteralTypes' /\ AsItIs'
    BY <1>1, <1>4, <1>5, <2>2 DEF LiteralTypes, AsItIs
  <2> QED BY <2>3 DEF LiteralInv
<1>9. CASE unit.how # "skip"
  <2> DEFINE c == unit.v
  <2>1. c \in Nat
    BY <1>3
  <2>2. /\ points' = Append(points, c) /\ points' \in Seq(Nat) /\ points' # <<>>
        /\ points'[Len(points')] = c /\ text' = Escaped(c)
    <3>1. Scan(unit) = <<c>>
      BY <1>9 DEF Scan
    <3> HIDE DEF c
    <3>2. EmitString(<<c>>) = Escaped(c)
      BY DEF EmitString
    <3> QED BY <1>2, <1>4, <2>1, <3>1, <3>2 DEF LiteralTypes
  <2>3. OddUnit(points, unit) = {}
    BY <1>2 DEF Meets
  <2>4. unit.how \in {"decimal", "hex"} => c < 128
    BY <1>3, <2>3 DEF OddUnit
  <2>5. Digit(c) /\ points # <<>> => ~Control(points[Len(points)])
    BY <2>3 DEF OddUnit
  <2>6. LuaString(unit) = Utf8(c)
    <3>1. unit.how \in {"char", "unicode"} => LuaString(unit) = Utf8(c)
      BY DEF LuaString
    <3>2. unit.how \notin {"char", "unicode"} => LuaString(unit) = <<c>> /\ c < 128
      BY <1>3, <1>9, <2>4 DEF LuaString, StringUnits
    <3> HIDE DEF c
    <3> QED BY <2>1, <3>1, <3>2, Utf8Low
  <2>7. bytes' = b \o Utf8(c)
    BY <1>2, <1>6, <2>6
  <2> HIDE DEF c
  <2>8. CASE Letter(c) # 0
    <3>1. c < 128 /\ Letter(c) \in Nat /\ Backslash \in Nat
      BY <2>1, <2>8, LetterIs DEF Backslash
    <3>2. text' = <<Backslash, Letter(c)>>
      BY <2>1, <2>2, <2>8, EscapedIs
    <3>3. bytes' = Append(b, c)
      BY <1>6, <2>1, <2>7, <3>1, Utf8Low, AppendIs
    <3>4. text' \in Seq(Nat) /\ bytes' \in Seq(Nat)
      BY <1>6, <2>1, <3>1, <3>2, <3>3
    <3>5. LiteralTypes' /\ Lettered(c)'
      BY <1>1, <1>4, <1>6, <1>7, <2>2, <2>8, <3>2, <3>3, <3>4 DEF LiteralTypes, Lettered
    <3> QED BY <2>1, <3>5 DEF LiteralInv
  <2>9. CASE Control(c)
    <3>1. text' = <<Backslash>> \o Digits(c) /\ c < 128 /\ Backslash \in Nat /\ Digits(c) \in Seq(Nat)
      BY <2>1, <2>2, <2>9, EscapedIs, DigitsAre DEF Backslash
    <3>2. bytes' = Append(b, c)
      BY <1>6, <2>1, <2>7, <3>1, Utf8Low, AppendIs
    <3>3. text' \in Seq(Nat) /\ bytes' \in Seq(Nat)
      BY <1>6, <2>1, <3>1, <3>2
    <3>4. LiteralTypes' /\ Numbered(c)'
      BY <1>1, <1>4, <1>6, <1>7, <2>2, <2>9, <3>1, <3>2, <3>3 DEF LiteralTypes, Numbered
    <3> QED BY <2>1, <3>4 DEF LiteralInv
  <2>10. CASE Letter(c) = 0 /\ ~Control(c)
    <3> DEFINE t == Utf8(c)
    <3>1. text' = t /\ c # Backslash
      BY <2>1, <2>2, <2>10, EscapedIs
    <3>2. t \in Seq(Nat) /\ t # <<>> /\ \A i \in DOMAIN t : t[i] # Backslash
      <4>1. CASE c < 128
        <5>1. t = <<c>>
          BY <2>1, <4>1, Utf8Low
        <5> HIDE DEF t
        <5> QED BY <2>1, <3>1, <5>1
      <4>2. CASE c >= 128
        BY <2>1, <4>2, Utf8High DEF High, Backslash
      <4> QED BY <2>1, <4>1, <4>2
    <3>3. reader.digits # 0 => ~Digit(t[1])
      <4>1. CASE c < 128
        <5>1. reader.digits # 0 => ~Digit(c)
          BY <1>1, <1>5, <2>5 DEF AsItIs
        <5> QED BY <2>1, <4>1, <5>1, Utf8Low
      <4>2. CASE c >= 128
        <5>1. High(t)
          BY <2>1, <4>2, Utf8High
        <5> HIDE DEF t
        <5>2. 1 \in DOMAIN t /\ t[1] >= 128 /\ t[1] \in Nat
          BY <5>1 DEF High
        <5> QED BY <5>2 DEF Digit
      <4> QED BY <2>1, <4>1, <4>2
    <3> HIDE DEF t
    <3>4. bytes' = b \o t /\ bytes' \in Seq(Nat)
      BY <1>6, <2>7, <3>2 DEF t
    <3>5. LiteralTypes' /\ AsItIs'
      BY <1>1, <1>4, <1>6, <1>7, <2>2, <3>1, <3>2, <3>3, <3>4 DEF LiteralTypes, AsItIs
    <3> QED BY <3>5 DEF LiteralInv
  <2> QED BY <2>8, <2>9, <2>10
<1> QED BY <1>8, <1>9

LEMMA ReadPrintedInv == ASSUME LiteralInv, ReadPrinted PROVE LiteralInv'
<1> SUFFICES ASSUME mode = "string", odd = {} PROVE LiteralInv'
  BY DEF LiteralInv, ReadPrinted
<1> DEFINE x == Head(text)
           f == Flush(reader).bytes
           fp == Flush(reader').bytes
<1>1. /\ text # <<>> /\ text' = Tail(text) /\ reader' = ReadChar(reader, x)
      /\ mode' = mode /\ odd' = odd /\ points' = points /\ bytes' = bytes
  BY DEF ReadPrinted
<1>2. LiteralTypes
  BY DEF LiteralInv
<1>3. /\ reader \in Readers /\ (reader.digits = 0 => reader.num = 0) /\ (reader.slash => reader.digits = 0)
      /\ points \in Seq(Nat) /\ text \in Seq(Nat) /\ bytes \in Seq(Nat) /\ reader.bytes \in Seq(Nat)
      /\ reader.digits \in 0..2 /\ reader.slash \in BOOLEAN
  BY <1>2 DEF LiteralTypes, Readers
<1>4. /\ x \in Nat /\ x = text[1] /\ text' \in Seq(Nat) /\ 1 \in DOMAIN text
      /\ \A i \in DOMAIN text' : text'[i] = text[i + 1] /\ i + 1 \in DOMAIN text
      /\ text = <<x>> \o text'
  BY <1>1, <1>3
<1>5. f \in Seq(Nat) /\ (reader.digits = 0 => f = reader.bytes)
  BY <1>3, FlushIs DEF Readers
<1> HIDE DEF x, f, fp
(* Once the reader is known to be that, only the text remains.             *)
<1>6. ASSUME NEW r \in Readers, reader' = r, r.digits = 0 => r.num = 0, r.slash => r.digits = 0
      PROVE  LiteralTypes' /\ (r.digits = 0 => fp = r.bytes)
                 /\ (r.digits # 0 => fp = Append(r.bytes, r.num))
  BY <1>1, <1>3, <1>4, <1>6, FlushIs DEF LiteralTypes, fp
<1>7. CASE AsItIs
  <2>1. ~reader.slash /\ x # Backslash /\ (reader.digits # 0 => ~Digit(x)) /\ bytes = f \o text
    BY <1>1, <1>4, <1>7 DEF AsItIs, f
  <2> DEFINE r == ReadChar(reader, x)
  <2>2. /\ r = [bytes |-> Append(f, x), slash |-> FALSE, digits |-> 0, num |-> 0]
        /\ r \in Readers
    BY <1>3, <1>4, <2>1, ReadPlain DEF f
  <2>3. reader' = r
    BY <1>1
  <2> HIDE DEF r
  <2>4. LiteralTypes' /\ fp = Append(f, x) /\ ~reader'.slash /\ reader'.digits = 0
    BY <1>6, <2>2, <2>3
  <2>5. bytes = Append(f, x) \o text'
    <3>1. Append(f, x) \o text' = f \o (<<x>> \o text')
      BY <1>4, <1>5, AppendCat
    <3> QED BY <1>4, <2>1, <3>1, Zenon
  <2>6. \A i \in DOMAIN text' : text'[i] # Backslash
    BY <1>4, <1>7 DEF AsItIs
  <2>7. AsItIs'
    BY <1>1, <2>4, <2>5, <2>6 DEF AsItIs, fp
  <2> QED BY <2>4, <2>7 DEF LiteralInv
<1>8. ASSUME NEW c \in Nat, Lettered(c) PROVE LiteralInv'
  <2>1. /\ Letter(c) # 0 /\ bytes = Append(f, c)
        /\ text = IF reader.slash THEN <<Letter(c)>> ELSE <<Backslash, Letter(c)>>
    BY <1>8 DEF Lettered, f
  <2>2. Letter(c) \in Nat /\ ~Digit(Letter(c)) /\ Unescaped(Letter(c)) = c
    BY <2>1, LetterIs
  <2> DEFINE r == ReadChar(reader, x)
  <2>3. reader' = r
    BY <1>1
  <2>4. CASE ~reader.slash
    <3>1. x = Backslash /\ text' = <<Letter(c)>> /\ ~Digit(x)
      BY <1>1, <2>1, <2>2, <2>4 DEF x, Backslash, Digit
    <3>2. r = [bytes |-> f, slash |-> TRUE, digits |-> 0, num |-> 0] /\ r \in Readers
      BY <1>3, <1>4, <2>4, <3>1, ReadPlain DEF f
    <3> HIDE DEF r
    <3>3. LiteralTypes' /\ fp = f /\ reader'.slash
      BY <1>6, <2>3, <3>2
    <3>4. Lettered(c)'
      BY <1>1, <2>1, <3>1, <3>3 DEF Lettered, fp
    <3> QED BY <3>3, <3>4 DEF LiteralInv
  <2>5. CASE reader.slash
    <3>1. x = Letter(c) /\ text' = <<>>
      BY <1>1, <2>1, <2>2, <2>5 DEF x
    <3>2. r = [bytes |-> Append(f, c), slash |-> FALSE, digits |-> 0, num |-> 0] /\ r \in Readers
      BY <1>3, <1>5, <2>2, <2>5, <3>1, ReadEscape
    <3> HIDE DEF r
    <3>3. LiteralTypes' /\ fp = Append(f, c) /\ ~reader'.slash /\ reader'.digits = 0
      BY <1>6, <2>3, <3>2
    <3>4. bytes = Append(f, c) \o text' /\ \A i \in DOMAIN text' : text'[i] # Backslash
      BY <1>3, <2>1, <3>1
    <3>5. AsItIs'
      BY <1>1, <3>1, <3>3, <3>4 DEF AsItIs, fp
    <3> QED BY <3>3, <3>5 DEF LiteralInv
  <2> QED BY <2>4, <2>5
<1>9. ASSUME NEW c \in Nat, Numbered(c) PROVE LiteralInv'
  <2>1. Control(c) /\ points # <<>> /\ points[Len(points)] = c
    BY <1>9 DEF Numbered
  <2>2. /\ Digits(c) \in Seq(Nat) /\ Digits(c) # <<>>
        /\ c < 10 => Digits(c) = <<48 + c>> /\ Digit(48 + c)
        /\ c >= 10 => /\ Digits(c) = <<48 + c \div 10, 48 + (c % 10)>>
                      /\ Digit(48 + c \div 10) /\ Digit(48 + (c % 10))
                      /\ c = 10 * (c \div 10) + (c % 10) /\ c \div 10 \in Nat /\ c % 10 \in Nat
    BY <2>1, DigitsAre
  <2> DEFINE r == ReadChar(reader, x)
  <2>3. reader' = r
    BY <1>1
  (* The number is complete, and is the last thing that has been read.     *)
  <2>4. ASSUME r \in Readers, r.digits # 0, ~r.slash, r.num = c, Append(r.bytes, c) = bytes, text' = <<>>
        PROVE  LiteralInv'
    <3> HIDE DEF r
    <3>1. LiteralTypes' /\ fp = bytes /\ reader'.digits # 0 /\ ~reader'.slash
      BY <1>6, <2>3, <2>4
    <3>2. bytes = bytes \o text' /\ \A i \in DOMAIN text' : text'[i] # Backslash
      BY <1>3, <2>4
    <3>3. AsItIs'
      BY <1>1, <2>1, <2>4, <3>1, <3>2 DEF AsItIs, fp
    <3> QED BY <3>1, <3>3 DEF LiteralInv
  <2>5. CASE ~reader.slash /\ text = <<Backslash>> \o Digits(c) /\ bytes = Append(Flush(reader).bytes, c)
    <3>1. x = Backslash /\ text' = Digits(c)
      BY <1>1, <2>2, <2>5, Split DEF x, Backslash
    <3>5. ~Digit(x) /\ bytes = Append(f, c)
      BY <2>5, <3>1 DEF Backslash, Digit, f
    <3>2. r = [bytes |-> f, slash |-> TRUE, digits |-> 0, num |-> 0] /\ r \in Readers
      BY <1>3, <1>4, <2>5, <3>1, <3>5, ReadPlain DEF f
    <3> HIDE DEF r
    <3>3. LiteralTypes' /\ reader'.bytes = f /\ reader'.slash
      BY <1>6, <2>3, <3>2
    <3>4. Numbered(c)'
      BY <1>1, <2>1, <3>1, <3>3, <3>5 DEF Numbered
    <3> QED BY <3>3, <3>4 DEF LiteralInv
  <2>6. CASE reader.slash /\ text = Digits(c) /\ bytes = Append(reader.bytes, c)
    <3>1. reader.digits = 0 /\ reader.num = 0
      BY <1>3, <2>6
    <3>2. CASE c < 10
      <4>3. text = <<48 + c>> /\ Digit(48 + c)
        BY <2>2, <2>6, <3>2
      <4>1. x = 48 + c /\ text' = <<>> /\ Digit(x)
        BY <1>1, <4>3 DEF x
      <4>2. r = [bytes |-> reader.bytes, slash |-> FALSE, digits |-> 1, num |-> c] /\ r \in Readers
        <5>1. reader.digits + 1 = 1 /\ 10 * reader.num + (x - 48) = c /\ reader.digits < 2
          BY <3>1, <4>1
        <5>2. /\ r = [bytes |-> reader.bytes, slash |-> FALSE, digits |-> reader.digits + 1,
                      num |-> 10 * reader.num + (x - 48)]
              /\ r \in Readers
          BY <1>3, <1>4, <2>6, <4>1, <5>1, ReadDigit
        <5> HIDE DEF r
        <5> QED BY <5>1, <5>2
      <4> HIDE DEF r
      <4> QED BY <2>4, <2>6, <4>1, <4>2
    <3>3. CASE c >= 10
      <4>5. text = <<48 + c \div 10, 48 + (c % 10)>> /\ Digit(48 + c \div 10) /\ c \div 10 \in Nat
        BY <2>2, <2>6, <3>3
      <4>1. x = 48 + c \div 10 /\ text' = <<48 + (c % 10)>> /\ Digit(x)
        BY <1>1, <4>5 DEF x
      <4>2. r = [bytes |-> reader.bytes, slash |-> FALSE, digits |-> 1, num |-> c \div 10] /\ r \in Readers
        <5>1. reader.digits + 1 = 1 /\ 10 * reader.num + (x - 48) = c \div 10 /\ reader.digits < 2
          BY <3>1, <4>1, <4>5
        <5>2. /\ r = [bytes |-> reader.bytes, slash |-> FALSE, digits |-> reader.digits + 1,
                      num |-> 10 * reader.num + (x - 48)]
              /\ r \in Readers
          BY <1>3, <1>4, <2>6, <4>1, <5>1, ReadDigit
        <5> HIDE DEF r
        <5> QED BY <5>1, <5>2
      <4> HIDE DEF r
      <4>3. LiteralTypes' /\ reader'.bytes = reader.bytes /\ ~reader'.slash /\ reader'.digits = 1
                /\ reader'.num = c \div 10
        BY <1>6, <2>3, <4>2
      <4>4. Numbered(c)'
        BY <1>1, <2>1, <2>6, <3>3, <4>1, <4>3 DEF Numbered
      <4> QED BY <4>3, <4>4 DEF LiteralInv
    <3> QED BY <3>2, <3>3
  <2>7. CASE /\ ~reader.slash /\ reader.digits = 1 /\ reader.num = c \div 10 /\ c >= 10
             /\ text = <<48 + (c % 10)>> /\ bytes = Append(reader.bytes, c)
    <3>1. x = 48 + (c % 10) /\ text' = <<>> /\ Digit(x) /\ 10 * reader.num + (x - 48) = c
      BY <1>1, <2>2, <2>7 DEF x
    <3>2. r = [bytes |-> reader.bytes, slash |-> FALSE, digits |-> 2, num |-> c] /\ r \in Readers
      <4>1. reader.digits + 1 = 2 /\ reader.digits \in 1..2 /\ reader.digits < 2
        BY <2>7
      <4>2. /\ r = [bytes |-> reader.bytes, slash |-> FALSE, digits |-> reader.digits + 1,
                    num |-> 10 * reader.num + (x - 48)]
            /\ r \in Readers
        BY <1>3, <1>4, <2>7, <3>1, <4>1, ReadDigit
      <4> HIDE DEF r
      <4> QED BY <3>1, <4>1, <4>2
    <3> HIDE DEF r
    <3> QED BY <2>4, <2>7, <3>1, <3>2
  <2> QED BY <1>9, <2>5, <2>6, <2>7 DEF Numbered
<1> QED BY <1>7, <1>8, <1>9 DEF LiteralInv

-----------------------------------------------------------------------------
(* Integers.                                                               *)
LEMMA DoubleExact ==
    ASSUME NEW n \in -Pow2[Mantissa]..Pow2[Mantissa]
    PROVE  Double(n) = n
<1> DEFINE near(e) == /\ n \in -Pow2[Mantissa + e]..Pow2[Mantissa + e]
                      /\ e > 0 => n \notin -Pow2[Mantissa + e - 1]..Pow2[Mantissa + e - 1]
           e == CHOOSE e \in 0..Width : near(e)
<1>1. Mantissa \in Nat /\ Width \in Nat
  BY WidthAssumption
<1>2. near(0) /\ 0 \in 0..Width
  <2>1. Mantissa + 0 = Mantissa /\ ~(0 > 0)
    BY <1>1
  <2> QED BY <1>1, <2>1
<1>3. ASSUME NEW k \in 0..Width, near(k) PROVE k = 0
  <2> SUFFICES ASSUME k > 0 PROVE FALSE
    OBVIOUS
  <2>1. Mantissa + k - 1 \in Nat /\ Mantissa <= Mantissa + k - 1
    BY <1>1
  <2>2. /\ Pow2[Mantissa] <= Pow2[Mantissa + k - 1]
        /\ Pow2[Mantissa] \in Nat /\ Pow2[Mantissa + k - 1] \in Nat
    BY <1>1, <2>1, Pow2Monotone, Pow2Type
  <2>3. n \in -Pow2[Mantissa + k - 1]..Pow2[Mantissa + k - 1]
    BY <2>2
  <2> QED BY <1>3, <2>3
<1>4. e = 0
  <2>1. e \in 0..Width /\ near(e)
    BY <1>2
  <2> HIDE DEF e
  <2> QED BY <1>3, <2>1
<1>5. Spacing(n) = 1
  BY <1>4, Pow2Zero DEF Spacing
<1>6. n \in Int
  BY <1>1, Pow2Type
<1>7. n % 1 = 0
  BY <1>6
<1> QED BY <1>5, <1>6, <1>7 DEF Double

LEMMA WrappedSmall == ASSUME NEW v \in 0..(Pow2[Width - 1] - 1) PROVE Wrapped(v) = v
<1>1. Width - 1 \in Nat /\ Width = (Width - 1) + 1
  BY WidthAssumption
<1>2. Pow2[Width] = 2 * Pow2[Width - 1] /\ Pow2[Width - 1] \in Nat \ {0}
  BY <1>1, Pow2Next, Pow2Type
<1> DEFINE p == Pow2[Width]
<1>3. p \in Nat \ {0} /\ v \in 0..(p - 1) /\ v < Pow2[Width - 1]
  BY <1>2
<1> HIDE DEF p
<1>4. v % p = v
  <2>1. p * 0 + v = v /\ 0 \in Int
    BY <1>3
  <2>2. (p * 0 + v) % p = v
    BY <1>3, <2>1, DivUnique
  <2> QED BY <2>1, <2>2
<1> QED BY <1>3, <1>4 DEF Wrapped, p

LEMMA IntegerSame ==
    ASSUME NEW unit \in IntegerUnits, OddInteger(unit) = {}
    PROVE  Double(ParseInt(unit.v)) = LuaInt(unit)
<1>1. \A c \in {"wrapped_decimal", "inexact"} : c \notin OddInteger(unit)
  OBVIOUS
<1>2. Wrapped(unit.v) \in -Pow2[Mantissa]..Pow2[Mantissa]
  BY <1>1 DEF OddInteger
<1>3. Double(ParseInt(unit.v)) = Wrapped(unit.v)
  BY <1>2, DoubleExact DEF ParseInt
<1>4. CASE unit.how = "base16"
  BY <1>3, <1>4 DEF LuaInt
<1>5. CASE unit.how = "base10"
  <2>1. Pow2[Width] \in Nat /\ Pow2[Width - 1] \in Nat
    <3>1. Width \in Nat /\ Width - 1 \in Nat
      BY WidthAssumption
    <3> QED BY <3>1, Pow2Type
  <2>2. unit.v \in Nat /\ ~(unit.v >= Pow2[Width - 1])
    BY <1>1, <1>5, <2>1 DEF OddInteger, IntegerUnits
  <2>3. Wrapped(unit.v) = unit.v
    BY <2>1, <2>2, WrappedSmall
  <2> QED BY <1>3, <1>5, <2>3 DEF LuaInt
<1> QED BY <1>4, <1>5 DEF IntegerUnits

IntegerInv == mode = "integer" => call = NoCall /\ (odd = {} => value = meant)

LEMMA IntegerInit == Init => IntegerInv
BY DEF Init, IntegerInv

LEMMA SpellIntegerInv == ASSUME IntegerInv, SpellInteger PROVE IntegerInv'
<1>3. mode = "integer" /\ mode' = mode /\ call' = call
  BY DEF SpellInteger
<1> SUFFICES ASSUME odd' = {} PROVE value' = meant'
  BY <1>3 DEF IntegerInv
<1>1. PICK unit \in Integers55 : /\ Meets(OddInteger(unit))
                                 /\ value' = Double(ParseInt(unit.v))
                                 /\ meant' = LuaInt(unit)
  BY DEF SpellInteger
<1>2. OddInteger(unit) = {} /\ unit \in IntegerUnits
  BY <1>1, ConstantsAssumption DEF Meets
<1> QED BY <1>1, <1>2, IntegerSame

-----------------------------------------------------------------------------
LEMMA LiteralStep == LiteralInv /\ IntegerInv /\ [Next]_vars => LiteralInv' /\ IntegerInv'
<1> SUFFICES ASSUME LiteralInv, IntegerInv, [Next]_vars PROVE LiteralInv' /\ IntegerInv'
  OBVIOUS
<1>1. ASSUME literal' = literal, mode' = mode, odd' = odd \/ mode \notin {"string", "integer"}
      PROVE  LiteralInv'
  <2>1. points' = points /\ text' = text /\ reader' = reader /\ bytes' = bytes
    BY <1>1 DEF literal
  <2>2. LiteralTypes' = LiteralTypes /\ AsItIs' = AsItIs
    BY <2>1 DEF LiteralTypes, AsItIs
  <2>3. \A c \in Nat : Lettered(c)' = Lettered(c) /\ Numbered(c)' = Numbered(c)
    BY <2>1 DEF Lettered, Numbered
  <2> QED BY <1>1, <2>2, <2>3 DEF LiteralInv
<1>2. ASSUME value' = value, meant' = meant, call' = call, mode' = mode, odd' = odd
                 \/ mode \notin {"string", "integer"}
      PROVE  IntegerInv'
  BY <1>2 DEF IntegerInv
<1>3. CASE Read
  BY <1>1, <1>2, <1>3 DEF Read, operation
<1>4. CASE ChooseNode \/ PrintToken \/ PushIndent \/ CompleteNode \/ PrintOdd
  BY <1>1, <1>2, <1>4 DEF ChooseNode, PrintToken, PushIndent, CompleteNode, PrintOdd, Prints, operation
<1>5. CASE Spell
  BY <1>5, SpellInv DEF Spell, IntegerInv
<1>6. CASE ReadPrinted
  BY <1>2, <1>6, ReadPrintedInv DEF ReadPrinted, operation
<1>7. CASE SpellInteger
  <2>1. LiteralInv'
    BY <1>7 DEF SpellInteger, LiteralInv
  <2> QED BY <1>7, <2>1, SpellIntegerInv
<1>8. CASE Operate
  BY <1>1, <1>8 DEF Operate, IntegerInv
<1>9. CASE Loop
  BY <1>1, <1>9 DEF Loop, IntegerInv
<1>10. CASE Return
  <2>1. LiteralInv'
    BY <1>1, <1>10 DEF Return
  <2>2. call # NoCall /\ mode' = mode
    BY <1>10 DEF Return
  <2> QED BY <2>1, <2>2 DEF IntegerInv
<1>11. CASE UNCHANGED vars
  BY <1>1, <1>2, <1>11 DEF vars, operation
<1> QED BY <1>3, <1>4, <1>5, <1>6, <1>7, <1>8, <1>9, <1>10, <1>11 DEF Next

(* What Lua 5.1 has read of a string, and what is left of the text, make   *)
(* up the string it is in Lua 5.5.                                         *)
THEOREM LiteralsOnCourse == Spec => [](LiteralInv /\ IntegerInv)
<1>1. Init => LiteralInv /\ IntegerInv
  BY LiteralInit, IntegerInit
<1> QED BY <1>1, LiteralStep, PTL DEF Spec

(* Strings of any length and integers of any width are worth the same in   *)
(* Lua 5.5 and, as valua prints them, in Lua 5.1, unless one of the four   *)
(* spellings is met.                                                       *)
THEOREM LiteralsSame == Spec => []SameLiteral
<1>1. LiteralInv /\ IntegerInv => SameLiteral
  <2> SUFFICES ASSUME LiteralInv, IntegerInv, odd = {}, mode = "string", text = <<>>
               PROVE  Flush(reader).bytes = bytes
    BY DEF SameLiteral, IntegerInv
  <2>1. LiteralTypes
    BY DEF LiteralInv
  <2>2. Flush(reader).bytes \in Seq(Nat)
    BY <2>1, FlushIs DEF LiteralTypes, Readers
  <2>3. \A c : ~Lettered(c)
    BY DEF Lettered
  <2>4. \A c \in Nat : ~Numbered(c)
    BY NumberedText
  <2>5. bytes = Flush(reader).bytes \o <<>>
    BY <2>3, <2>4 DEF LiteralInv, AsItIs
  <2> QED BY <2>2, <2>5
<1> QED BY <1>1, LiteralsOnCourse, PTL

(* The two ends of Translation that need no run of a machine: the lexer,   *)
(* whose error kind is the right one, and the emitter, which goes on with  *)
(* symbols of its own and so never refuses a tree; and the precedences.    *)
-----------------------------------------------------------------------------
(* The lexer.                                                              *)

(* Only reading a text touches the lexer: every other step leaves what     *)
(* has failed and its kind alone, and forgets no construct.                *)
LEMMA LexerAtRest ==
    ASSUME [Next]_vars, ~Read
    PROVE  /\ mode' = mode /\ failed' = failed /\ last_error_kind' = last_error_kind
           /\ odd \subseteq odd' /\ (odd \subseteq Constructs => odd' \subseteq Constructs)
<1>1. CASE ChooseNode \/ PushIndent \/ CompleteNode
  BY <1>1 DEF ChooseNode, PushIndent, CompleteNode, Prints
<1>2. CASE PrintToken \/ PrintOdd
  BY <1>2 DEF PrintToken, PrintOdd, Meets
<1>3. CASE Spell \/ SpellInteger \/ Operate
  BY <1>3 DEF Spell, SpellInteger, Operate, Meets, machines
<1>4. CASE ReadPrinted \/ Loop \/ Return
  BY <1>4 DEF ReadPrinted, Loop, Return, machines
<1>5. CASE UNCHANGED vars
  BY <1>5 DEF vars, machines
<1> QED BY <1>1, <1>2, <1>3, <1>4, <1>5 DEF Next

LEMMA KindIsNamed ==
    ASSUME NEW lexeme \in Failing, NEW kind, lexeme = "odd_char" => kind = "UnexpectedChar"
    PROVE  ErrorKind(lexeme, kind) = KindOf(lexeme)
BY DEF Failing, ErrorKind, KindOf, Numerals, Pointed, Malformed, Quoted

(* The kind tokenize reports is that of the lexeme it fails at, whatever   *)
(* was read before, unless a stale kind has been met.                      *)
THEOREM ErrorsNamed == Spec => []ErrorNamed
<1>1. Init => ErrorNamed
  BY DEF Init, ErrorNamed
<1>2. ErrorNamed /\ [Next]_vars => ErrorNamed'
  <2> SUFFICES ASSUME ErrorNamed, [Next]_vars, failed' # "none", "stale_kind" \notin odd'
               PROVE  last_error_kind' = KindOf(failed')
    BY DEF ErrorNamed
  <2>1. CASE Read
    <3>1. PICK lexeme \in SourceLexemes :
            /\ OddLexeme(lexeme) \subseteq odd'
            /\ last_error_kind' = ErrorKind(lexeme, last_error_kind)
            /\ failed' = IF lexeme \in Failing THEN lexeme ELSE "none"
      <4> HIDE DEF OddLexeme, OddOutcome, OddVararg, Checked, EnterFunctions, Compare, ErrorKind,
              Tokens, LuaTokens, Refusal, RunParser, RunLua55
      <4> QED BY <2>1 DEF Read, Meets
    <3>2. lexeme \in Failing /\ failed' = lexeme /\ "stale_kind" \notin OddLexeme(lexeme)
      BY <3>1
    <3>3. lexeme = "odd_char" => last_error_kind = "UnexpectedChar"
      BY <3>2 DEF OddLexeme
    <3> QED BY <3>1, <3>2, <3>3, KindIsNamed
  <2>2. CASE ~Read
    BY <2>2, LexerAtRest DEF ErrorNamed
  <2> QED BY <2>1, <2>2
<1> QED BY <1>1, <1>2, PTL DEF Spec

-----------------------------------------------------------------------------
(* The emitter.  Its symbols are finitely many words, and a part of the    *)
(* tree that is printed has one of sixteen names.                          *)
Parts == {"block", "statements", "more_names", "values", "returned", "args", "more_exprs", "targets",
          "step", "else_clauses", "name_parts", "params", "more_params", "fields", "more_fields", "field"}
Spoken == {"(", ")", "-", ".", "...", ":", "::", "=", "[", "]", "do", "else", "elseif", "end", "eof",
           "for", "function", "goto", "if", "in", "local", "repeat", "return", "then", "until", "while",
               "break",
           "Literal", "Name", "String", "not", "#", "~", "none", "left", "right", "base", "unary"}
Nodes == {"assign", "break", "call", "call_statement", "do", "else", "elseif", "expr_key", "function",
             "function_decl",
          "generic_for", "goto", "if", "index", "index_expr", "is_vararg", "label", "local",
              "local_function", "method",
          "method_call", "name", "name_key", "numeric_for", "param", "part", "positional", "repeat",
              "return", "table",
          "while", "bare_base", "negative_power", "break_inside"}
Words == Spoken \cup Nodes \cup BinaryOps \cup {",", "{", "}"}

MarkSymbols    == {"say", "line", "node", "unary", "binary", "odd"} \X Words
PartSymbols    == {"print"} \X Parts
OperandSymbols == {"operand"} \X Words \X Words
OutSymbols == MarkSymbols \cup PartSymbols \cup OperandSymbols
Printable == Seq(OutSymbols)

LEMMA MarksPrintable ==
    ASSUME NEW t \in Words
    PROVE  /\ Out!Say(t) \in OutSymbols /\ Out!Node(t) \in OutSymbols /\ Out!Odd(t) \in OutSymbols
           /\ Out!Unop(t) \in OutSymbols /\ Out!Binop(t) \in OutSymbols
<1> HIDE DEF Words
<1>1. /\ Out!Say(t) \in MarkSymbols /\ Out!Node(t) \in MarkSymbols /\ Out!Odd(t) \in MarkSymbols
      /\ Out!Unop(t) \in MarkSymbols /\ Out!Binop(t) \in MarkSymbols
  BY DEF Out!Say, Out!Node, Out!Odd, Out!Unop, Out!Binop, MarkSymbols
<1> QED BY <1>1 DEF OutSymbols

LEMMA WordsAre ==
    /\ \A t \in Spoken : t \in Words
    /\ \A n \in Nodes : n \in Words
    /\ \A op \in BinaryOps : op \in Words
    /\ "," \in Words /\ "{" \in Words /\ "}" \in Words
BY Zenon DEF Words

LEMMA TokensPrintable ==
    /\ \A t \in Spoken : Out!Say(t) \in OutSymbols /\ Out!Node(t) \in OutSymbols
         /\ Out!Unop(t) \in OutSymbols
    /\ \A op \in BinaryOps : Out!Say(op) \in OutSymbols /\ Out!Binop(op) \in OutSymbols
    /\ \A n \in Nodes : Out!Node(n) \in OutSymbols /\ Out!Odd(n) \in OutSymbols
<1>1. \A t \in Words : /\ Out!Say(t) \in OutSymbols /\ Out!Node(t) \in OutSymbols
                            /\ Out!Odd(t) \in OutSymbols
                       /\ Out!Unop(t) \in OutSymbols /\ Out!Binop(t) \in OutSymbols
  BY MarksPrintable
<1>2. /\ \A t \in Spoken : t \in Words
      /\ \A n \in Nodes : n \in Words
      /\ \A op \in BinaryOps : op \in Words
  BY Zenon, WordsAre
<1> QED BY Zenon, <1>1, <1>2

LEMMA LinePrintable == Out!Line \in OutSymbols
<1>1. "none" \in Spoken
  BY DEF Spoken
<1>2. "none" \in Words
  BY Zenon, <1>1, WordsAre
<1>3. Out!Line \in MarkSymbols
  BY <1>2 DEF Out!Line, MarkSymbols
<1> QED BY <1>3 DEF OutSymbols

LEMMA PartsPrintable == \A p \in Parts : Out!Part(p) \in OutSymbols
<1> TAKE p \in Parts
<1>1. Out!Part(p) \in PartSymbols
  BY DEF Out!Part, PartSymbols
<1> QED BY <1>1 DEF OutSymbols

LEMMA OperandsPrintable ==
    /\ \A op \in Spoken, side \in Spoken : Out!Operand(op, side) \in OutSymbols
    /\ \A op \in BinaryOps, side \in Spoken : Out!Operand(op, side) \in OutSymbols
<1>1. ASSUME NEW op \in Words, NEW side \in Words PROVE Out!Operand(op, side) \in OutSymbols
  <2>1. Out!Operand(op, side) \in OperandSymbols
    BY DEF Out!Operand, OperandSymbols
  <2> QED BY <2>1 DEF OutSymbols
<1>2. /\ \A t \in Spoken : t \in Words
      /\ \A op \in BinaryOps : op \in Words
  BY Zenon, WordsAre
<1> QED BY Zenon, <1>1, <1>2

LEMMA Cat == \A s, t \in Printable : s \o t \in Printable
BY ConcatProperties DEF Printable

LEMMA PiecesPrintable ==
    /\ Out!Expr \in Printable /\ Out!ExprList \in Printable /\ Out!Body \in Printable
         /\ Out!Loop \in Printable
    /\ Out!Comma \in OutSymbols /\ Out!Table \in Printable
<1>1. Out!Expr \in Printable
  BY OperandsPrintable DEF Out!Expr, Spoken, Printable
<1>2. Out!ExprList \in Printable
  <2>1. <<Out!Part("more_exprs")>> \in Printable
    BY PartsPrintable DEF Parts, Printable
  <2> QED BY <1>1, <2>1, Cat DEF Out!ExprList
<1>3. Out!Body \in Printable /\ Out!Loop \in Printable
  <2>1. Out!Part("params") \in OutSymbols /\ Out!Part("block") \in OutSymbols
    BY PartsPrintable DEF Parts
  <2>2. Out!Say("(") \in OutSymbols /\ Out!Say(")") \in OutSymbols /\ Out!Say("do") \in OutSymbols
            /\ Out!Say("end") \in OutSymbols
    BY TokensPrintable DEF Spoken
  <2> QED BY <2>1, <2>2 DEF Out!Body, Out!Loop, Printable
<1>4. Out!Comma \in OutSymbols
  BY Zenon, MarksPrintable, WordsAre DEF Out!Comma
<1>5. Out!Table \in Printable
  <2>1. ASSUME NEW a \in OutSymbols, NEW b \in OutSymbols, NEW c \in OutSymbols, NEW d \in OutSymbols
        PROVE  <<a, b, c, d>> \in Printable
    BY DEF Printable
  <2>2. Out!Say("{") \in OutSymbols /\ Out!Say("}") \in OutSymbols
    BY Zenon, MarksPrintable, WordsAre
  <2>3. Out!Part("fields") \in OutSymbols
    BY PartsPrintable DEF Parts
  <2>4. Out!Node("table") \in OutSymbols
    BY TokensPrintable DEF Nodes
  <2> QED BY Zenon, <2>1, <2>2, <2>3, <2>4 DEF Out!Table
<1> QED BY <1>1, <1>2, <1>3, <1>4, <1>5

LEMMA SymbolsPrintable ==
    /\ \A t \in Spoken : Out!Say(t) \in OutSymbols /\ Out!Node(t) \in OutSymbols
         /\ Out!Unop(t) \in OutSymbols
    /\ \A n \in Nodes : Out!Node(n) \in OutSymbols /\ Out!Odd(n) \in OutSymbols
    /\ \A p \in Parts : Out!Part(p) \in OutSymbols
    /\ \A op \in Spoken, side \in Spoken : Out!Operand(op, side) \in OutSymbols
    /\ Out!Comma \in OutSymbols /\ Out!Line \in OutSymbols
BY TokensPrintable, PartsPrintable, OperandsPrintable, PiecesPrintable, LinePrintable

LEMMA VariablePrintable == Out!Variable \subseteq Printable /\ Out!Call \subseteq Printable
<1>1. /\ Out!Say("Name") \in OutSymbols /\ Out!Say(".") \in OutSymbols /\ Out!Say("[") \in OutSymbols
      /\ Out!Say("]") \in OutSymbols /\ Out!Say("(") \in OutSymbols /\ Out!Say(")") \in OutSymbols
      /\ Out!Say(":") \in OutSymbols
  BY SymbolsPrintable DEF Spoken
<1>2. /\ Out!Node("name") \in OutSymbols /\ Out!Node("index") \in OutSymbols
           /\ Out!Node("index_expr") \in OutSymbols
      /\ Out!Node("call") \in OutSymbols /\ Out!Node("method_call") \in OutSymbols
  BY SymbolsPrintable DEF Nodes
<1>3. Out!Part("args") \in OutSymbols
  BY SymbolsPrintable DEF Parts
<1>4. Out!Operand("base", "none") \in OutSymbols
  BY SymbolsPrintable DEF Spoken
<1>5. <<Out!Operand("base", "none"), Out!Say("[")>> \o Out!Expr \o <<Out!Say("]"),
          Out!Node("index_expr")>> \in Printable
  <2>1. /\ <<Out!Operand("base", "none"), Out!Say("[")>> \in Printable
        /\ <<Out!Say("]"), Out!Node("index_expr")>> \in Printable
    BY <1>1, <1>2, <1>4 DEF Printable
  <2> QED BY <2>1, PiecesPrintable, Cat
<1>6. /\ <<Out!Say("Name"), Out!Node("name")>> \in Printable
      /\ <<Out!Operand("base", "none"), Out!Say("."), Out!Say("Name"), Out!Node("index")>> \in Printable
      /\ <<Out!Operand("base", "none"), Out!Say("("), Out!Part("args"), Out!Say(")"),
           Out!Node("call")>> \in Printable
      /\ <<Out!Operand("base", "none"), Out!Say(":"), Out!Say("Name"), Out!Say("("), Out!Part("args"),
           Out!Say(")"),
           Out!Node("method_call")>> \in Printable
  BY <1>1, <1>2, <1>3, <1>4 DEF Printable
<1> QED BY <1>5, <1>6 DEF Out!Variable, Out!Index, Out!Call

LEMMA OperandPrintable ==
    ASSUME NEW op, NEW side, NEW symbols \in Out!PrintedOperand(op, side) PROVE symbols \in Printable
<1>1. /\ Out!Say("(") \in OutSymbols /\ Out!Say(")") \in OutSymbols /\ Out!Say("-") \in OutSymbols
      /\ Out!Say("Literal") \in OutSymbols /\ Out!Node("Literal") \in OutSymbols
           /\ Out!Unop("-") \in OutSymbols
      /\ Out!Say("function") \in OutSymbols
  BY SymbolsPrintable DEF Spoken
<1>2. Out!Node("function") \in OutSymbols /\ Out!Odd("bare_base") \in OutSymbols
          /\ Out!Odd("negative_power") \in OutSymbols
  BY SymbolsPrintable DEF Nodes
<1>3. \A v \in Simple : <<Out!Say(v), Out!Node(v)>> \in Printable
  BY SymbolsPrintable DEF Spoken, Simple, Printable
<1>4. \A v \in Out!Values : v \in Printable
  <2>1. <<Out!Say("function")>> \o Out!Body \o <<Out!Node("function")>> \in Printable
    <3>1. <<Out!Say("function")>> \in Printable /\ <<Out!Node("function")>> \in Printable
      BY <1>1, <1>2 DEF Printable
    <3> QED BY <3>1, PiecesPrintable, Cat
  <2>2. Out!Table \in Printable
    BY PiecesPrintable
  <2>3. Out!Values = {<<Out!Say(v), Out!Node(v)>> : v \in Simple} \cup
                     {<<Out!Say("function")>> \o Out!Body \o <<Out!Node("function")>>, Out!Table}
    BY DEF Out!Values, Out!Simple, Simple
  <2> QED BY <1>3, <2>1, <2>2, <2>3
<1>5. Out!Negative \in Printable
  BY <1>1 DEF Out!Negative, Printable
<1>6. \A s \in Printable : \A prec, min : Out!Parens(prec, min, s) \in Printable
  <2>1. <<Out!Say("(")>> \in Printable /\ <<Out!Say(")")>> \in Printable
    BY <1>1 DEF Printable
  <2> QED BY <2>1, Cat DEF Out!Parens
<1>7. \A o \in EmittedOps : Out!Inner(o) \in Printable
  <2> SUFFICES ASSUME NEW o \in EmittedOps PROVE Out!Inner(o) \in Printable
    OBVIOUS
  <2>1. o \in BinaryOps /\ "left" \in Spoken /\ "right" \in Spoken
    BY ConstantsAssumption DEF Spoken
  <2>2. Out!Operand(o, "left") \in OutSymbols /\ Out!Operand(o, "right") \in OutSymbols
    BY <2>1, OperandsPrintable
  <2>3. Out!Say(o) \in OutSymbols /\ Out!Binop(o) \in OutSymbols
    BY <2>1, TokensPrintable
  <2> QED BY <2>2, <2>3 DEF Out!Inner, Printable
<1>8. \A u \in UnaryOps \ {"~"} : <<Out!Say(u), Out!Operand("unary", "none"), Out!Unop(u)>> \in Printable
  <2> SUFFICES ASSUME NEW u \in UnaryOps
                          PROVE <<Out!Say(u), Out!Operand("unary", "none"), Out!Unop(u)>> \in Printable
    OBVIOUS
  <2>1. u \in Spoken /\ "unary" \in Spoken /\ "none" \in Spoken
    BY DEF Spoken, UnaryOps
  <2>2. Out!Say(u) \in OutSymbols /\ Out!Unop(u) \in OutSymbols
            /\ Out!Operand("unary", "none") \in OutSymbols
    BY <2>1, SymbolsPrintable
  <2> QED BY <2>2 DEF Printable
<1>9. /\ <<Out!Odd("negative_power")>> \in Printable /\ <<Out!Odd("bare_base")>> \in Printable
           /\ <<>> \in Printable
  BY <1>2 DEF Printable
<1> HIDE DEF Printable
<1>10. CASE symbols \in Out!Variable \cup Out!Call
  BY <1>10, VariablePrintable
<1>11. CASE \E v \in Out!Values : symbols \in {<<Out!Odd("bare_base")>> \o v, <<>> \o v}
  BY <1>4, <1>9, <1>11, Cat
<1>12. CASE symbols \in {<<Out!Odd("negative_power")>> \o Out!Negative,
           <<Out!Odd("bare_base")>> \o Out!Negative,
                         <<>> \o Out!Negative}
  BY <1>5, <1>9, <1>12, Cat
<1>13. CASE \E o \in EmittedOps : \E prec, min : symbols = Out!Parens(prec, min, Out!Inner(o))
  BY <1>6, <1>7, <1>13
<1>14. CASE \E u \in UnaryOps \ {"~"} : \E min :
              symbols = Out!Parens(21, min, <<Out!Say(u), Out!Operand("unary", "none"), Out!Unop(u)>>)
  BY <1>6, <1>8, <1>14
<1> DEFINE min == Out!OperandPrec(op, side)
           mark(c) == IF c THEN <<Out!Odd("bare_base")>> ELSE <<>>
<1>15. Out!PrintedOperand(op, side) =
          Out!Variable \cup Out!Call
          \cup {mark(op = "base") \o v : v \in Out!Values}
          \cup {(IF op = "^" /\ side = "left" THEN <<Out!Odd("negative_power")>> ELSE mark(op = "base"))
                \o Out!Negative}
          \cup {Out!Parens(Out!BinaryPrec(o), min, Out!Inner(o)) : o \in EmittedOps}
          \cup {Out!Parens(21, min, <<Out!Say(u), Out!Operand("unary", "none"), Out!Unop(u)>>) :
                 u \in UnaryOps \ {"~"}}
  BY DEF Out!PrintedOperand, Out!UnaryOps, UnaryOps
<1>16. \A c : mark(c) \in {<<Out!Odd("bare_base")>>, <<>>}
  OBVIOUS
<1> HIDE DEF min, mark
<1>17. CASE \E v \in Out!Values : symbols = mark(op = "base") \o v
  BY <1>11, <1>16, <1>17
<1>18. CASE symbols = (IF op = "^"
           /\ side = "left" THEN <<Out!Odd("negative_power")>> ELSE mark(op = "base"))
                      \o Out!Negative
  BY <1>12, <1>16, <1>18
<1> QED BY <1>10, <1>13, <1>14, <1>15, <1>17, <1>18

LEMMA StatementsPrintable == Out!Statements \subseteq Printable
<1>1. \A t \in {"local", "Name", "do", "end", "while", "repeat", "until", "if", "then", "for", "=", "in",
          "function",
                "goto", "::"} : Out!Say(t) \in OutSymbols
  BY SymbolsPrintable DEF Spoken
<1>2. \A n \in {"local", "do", "while", "repeat", "if", "numeric_for", "generic_for", "function_decl",
                "local_function", "goto", "label", "assign", "call_statement"} : Out!Node(n) \in OutSymbols
  BY SymbolsPrintable DEF Nodes
<1>3. \A p \in {"more_names", "values", "block", "else_clauses", "step", "name_parts", "targets"} :
        Out!Part(p) \in OutSymbols
  BY SymbolsPrintable DEF Parts
<1>4. Out!Odd("goto") \in OutSymbols /\ Out!Comma \in OutSymbols
  BY SymbolsPrintable DEF Nodes
<1>5. /\ <<Out!Say("local"), Out!Say("Name"), Out!Part("more_names"), Out!Part("values"),
           Out!Node("local")>> \in Printable
      /\ <<Out!Say("do"), Out!Part("block"), Out!Say("end"), Out!Node("do")>> \in Printable
      /\ <<Out!Odd("goto"), Out!Say("goto"), Out!Say("Name"), Out!Node("goto")>> \in Printable
      /\ <<Out!Odd("goto"), Out!Say("::"), Out!Say("Name"), Out!Say("::"), Out!Node("label")>> \in Printable
  BY <1>1, <1>2, <1>3, <1>4 DEF Printable
<1>6. /\ <<Out!Say("while")>> \in Printable /\ <<Out!Node("while")>> \in Printable
      /\ <<Out!Say("repeat"), Out!Part("block"), Out!Say("until")>> \in Printable
           /\ <<Out!Node("repeat")>> \in Printable
      /\ <<Out!Say("if")>> \in Printable
      /\ <<Out!Say("then"), Out!Part("block"), Out!Part("else_clauses"), Out!Say("end"),
           Out!Node("if")>> \in Printable
      /\ <<Out!Say("for"), Out!Say("Name"), Out!Say("=")>> \in Printable /\ <<Out!Comma>> \in Printable
      /\ <<Out!Part("step")>> \in Printable /\ <<Out!Node("numeric_for")>> \in Printable
      /\ <<Out!Say("for"), Out!Say("Name"), Out!Part("more_names"), Out!Say("in")>> \in Printable
      /\ <<Out!Node("generic_for")>> \in Printable
      /\ <<Out!Say("function"), Out!Say("Name"), Out!Part("name_parts")>> \in Printable
      /\ <<Out!Node("function_decl")>> \in Printable
      /\ <<Out!Say("local"), Out!Say("function"), Out!Say("Name")>> \in Printable
      /\ <<Out!Node("local_function")>> \in Printable
      /\ <<Out!Part("targets"), Out!Say("=")>> \in Printable /\ <<Out!Node("assign")>> \in Printable
      /\ <<Out!Node("call_statement")>> \in Printable
  BY <1>1, <1>2, <1>3, <1>4 DEF Printable
<1>7. /\ <<Out!Say("while")>> \o Out!Expr \o Out!Loop \o <<Out!Node("while")>> \in Printable
      /\ <<Out!Say("repeat"), Out!Part("block"),
           Out!Say("until")>> \o Out!Expr \o <<Out!Node("repeat")>> \in Printable
      /\ <<Out!Say("if")>> \o Out!Expr
           \o <<Out!Say("then"), Out!Part("block"), Out!Part("else_clauses"), Out!Say("end"),
               Out!Node("if")>> \in Printable
  BY <1>6, PiecesPrintable, Cat
<1>8. <<Out!Say("for"), Out!Say("Name"),
          Out!Say("=")>> \o Out!Expr \o <<Out!Comma>> \o Out!Expr \o <<Out!Part("step")>>
        \o Out!Loop \o <<Out!Node("numeric_for")>> \in Printable
  BY <1>6, PiecesPrintable, Cat
<1>9. /\ <<Out!Say("for"), Out!Say("Name"), Out!Part("more_names"),
           Out!Say("in")>> \o Out!ExprList \o Out!Loop
           \o <<Out!Node("generic_for")>> \in Printable
      /\ <<Out!Say("function"), Out!Say("Name"),
           Out!Part("name_parts")>> \o Out!Body \o <<Out!Node("function_decl")>>
           \in Printable
      /\ <<Out!Say("local"), Out!Say("function"),
           Out!Say("Name")>> \o Out!Body \o <<Out!Node("local_function")>>
           \in Printable
  BY <1>6, PiecesPrintable, Cat
<1>10. \A v \in Out!Variable :
          v \o <<Out!Part("targets"), Out!Say("=")>> \o Out!ExprList \o <<Out!Node("assign")>> \in Printable
  BY <1>6, PiecesPrintable, VariablePrintable, Cat
<1>11. \A c \in Out!Call : c \o <<Out!Node("call_statement")>> \in Printable
  BY <1>6, VariablePrintable, Cat
<1> HIDE DEF Printable
<1> QED BY <1>5, <1>7, <1>8, <1>9, <1>10, <1>11 DEF Out!Statements

LEMMA FurtherPrintable == Out!Further \subseteq Printable
<1>1. Out!Part("block") \in OutSymbols /\ Out!Line \in OutSymbols
  BY SymbolsPrintable DEF Parts
<1>2. <<Out!Line>> \in Printable /\ <<Out!Part("block")>> \in Printable
  BY <1>1 DEF Printable
<1> QED BY <1>2, StatementsPrintable, Cat DEF Out!Further

LEMMA PartPrintable == ASSUME NEW p \in Parts PROVE Out!PrintedPart(p) \subseteq Printable
<1>1. \A t \in {"return", "break", "Name", "=", "else", "elseif", "then", ".", ":", "...", "[", "]"} :
        Out!Say(t) \in OutSymbols
  BY SymbolsPrintable DEF Spoken
<1>2. \A n \in {"return", "break", "else", "elseif", "part", "method", "is_vararg", "param", "positional",
                "name_key", "expr_key"} : Out!Node(n) \in OutSymbols
  BY SymbolsPrintable DEF Nodes
<1>3. \A q \in Parts : Out!Part(q) \in OutSymbols
  BY SymbolsPrintable
<1>4. Out!Comma \in OutSymbols /\ Out!Odd("break_inside") \in OutSymbols
  BY SymbolsPrintable DEF Nodes
<1>5. CASE p = "block"
  <2>1. Out!Return \in Printable /\ Out!Break \in Printable /\ <<>> \in Printable
    BY <1>1, <1>2, <1>3 DEF Out!Return, Out!Break, Printable, Parts
  <2>2. <<Out!Odd("break_inside")>> \in Printable /\ <<Out!Part("statements")>> \in Printable
    BY <1>3, <1>4 DEF Printable, Parts
  <2>3. <<Out!Odd("break_inside")>> \o Out!Break \o <<Out!Part("statements")>> \in Printable
    BY <2>1, <2>2, Cat
  <2>4. Out!PrintedPart(p) = {<<>>, Out!Return, Out!Break,
                              <<Out!Odd("break_inside")>> \o Out!Break \o <<Out!Part("statements")>>} \cup Out!Further
    BY <1>5 DEF Out!PrintedPart
  <2> QED BY <2>1, <2>3, <2>4, FurtherPrintable
<1>6. CASE p = "statements"
  BY <1>6, FurtherPrintable DEF Out!PrintedPart
<1>7. CASE p \in {"more_names", "name_parts", "params", "more_params", "fields", "more_fields"}
  <2>1. \A q \in {"more_names", "name_parts", "more_params", "field",
            "more_fields"} : Out!Part(q) \in OutSymbols
    BY <1>3 DEF Parts
  <2>2. /\ <<>> \in Printable /\ <<Out!Comma, Out!Say("Name"), Out!Part("more_names")>> \in Printable
        /\ <<Out!Say("."), Out!Say("Name"), Out!Node("part"), Out!Part("name_parts")>> \in Printable
        /\ <<Out!Say(":"), Out!Say("Name"), Out!Node("method")>> \in Printable
        /\ <<Out!Say("..."), Out!Node("is_vararg")>> \in Printable
        /\ <<Out!Say("Name"), Out!Node("param"), Out!Part("more_params")>> \in Printable
        /\ <<Out!Comma, Out!Say("..."), Out!Node("is_vararg")>> \in Printable
        /\ <<Out!Comma, Out!Say("Name"), Out!Node("param"), Out!Part("more_params")>> \in Printable
        /\ <<Out!Part("field"), Out!Part("more_fields")>> \in Printable
        /\ <<Out!Comma, Out!Part("field"), Out!Part("more_fields")>> \in Printable
    BY <1>1, <1>2, <1>4, <2>1 DEF Printable
  <2> HIDE DEF Printable
  <2> QED BY <1>7, <2>2 DEF Out!PrintedPart
<1>8. CASE p \in {"values", "returned", "args", "more_exprs", "step"}
  <2>1. <<>> \in Printable /\ <<Out!Say("=")>> \in Printable /\ <<Out!Comma>> \in Printable
    BY <1>1, <1>4 DEF Printable
  <2> HIDE DEF Printable
  <2> QED BY <1>8, <2>1, PiecesPrintable, Cat DEF Out!PrintedPart
<1>9. CASE p = "targets"
  <2>1. <<>> \in Printable /\ <<Out!Comma>> \in Printable /\ <<Out!Part("targets")>> \in Printable
    BY <1>3, <1>4 DEF Printable, Parts
  <2>2. \A v \in Out!Variable : <<Out!Comma>> \o v \o <<Out!Part("targets")>> \in Printable
    BY <2>1, VariablePrintable, Cat
  <2> HIDE DEF Printable
  <2> QED BY <1>9, <2>1, <2>2 DEF Out!PrintedPart
<1>10. CASE p = "else_clauses"
  <2>1. /\ <<>> \in Printable /\ <<Out!Say("else"), Out!Part("block"), Out!Node("else")>> \in Printable
        /\ <<Out!Say("elseif")>> \in Printable
        /\ <<Out!Say("then"), Out!Part("block"), Out!Node("elseif"),
             Out!Part("else_clauses")>> \in Printable
    BY <1>1, <1>2, <1>3 DEF Printable, Parts
  <2> HIDE DEF Printable
  <2> QED BY <1>10, <2>1, PiecesPrintable, Cat DEF Out!PrintedPart
<1>11. CASE p = "field"
  <2>1. /\ <<Out!Node("positional")>> \in Printable /\ <<Out!Say("Name"), Out!Say("=")>> \in Printable
        /\ <<Out!Node("name_key")>> \in Printable /\ <<Out!Say("[")>> \in Printable
        /\ <<Out!Say("]"), Out!Say("=")>> \in Printable /\ <<Out!Node("expr_key")>> \in Printable
    BY <1>1, <1>2 DEF Printable
  <2> HIDE DEF Printable
  <2> QED BY <1>11, <2>1, PiecesPrintable, Cat DEF Out!PrintedPart
<1> QED BY <1>5, <1>6, <1>7, <1>8, <1>9, <1>10, <1>11 DEF Parts

(* Whatever node of the tree stands next, it is replaced with symbols of   *)
(* the emitter.                                                            *)
LEMMA PrintedPrintable ==
    ASSUME NEW symbol \in OutSymbols, symbol[1] \in {"print", "operand"},
               NEW symbols \in Out!Printed(symbol)
    PROVE  symbols \in Printable
<1>1. CASE symbol[1] = "operand"
  BY <1>1, OperandPrintable DEF Out!Printed
<1>2. CASE symbol[1] = "print"
  <2>1. symbol \in PartSymbols
    BY <1>2 DEF OutSymbols, MarkSymbols, OperandSymbols
  <2>2. symbol[2] \in Parts
    BY <2>1 DEF PartSymbols
  <2> QED BY <1>2, <2>2, PartPrintable DEF Out!Printed
<1> QED BY <1>1, <1>2

-----------------------------------------------------------------------------
IsMachine(m) == \E input, todo, tree,
    last : m = [input |-> input, todo |-> todo, tree |-> tree, last |-> last]

LEMMA MachineUpdate ==
    ASSUME NEW m, IsMachine(m), NEW x
    PROVE  /\ IsMachine([m EXCEPT !.todo = x]) /\ [m EXCEPT !.todo = x].todo = x
           /\ IsMachine([m EXCEPT !.tree = x]) /\ [m EXCEPT !.tree = x].todo = m.todo
           /\ IsMachine([m EXCEPT !.last = x]) /\ [m EXCEPT !.last = x].todo = m.todo
<1>1. PICK input, todo, tree, last : m = [input |-> input, todo |-> todo, tree |-> tree, last |-> last]
  BY DEF IsMachine
<1>2. /\ [m EXCEPT !.todo = x] = [input |-> input, todo |-> x, tree |-> tree, last |-> last]
      /\ [m EXCEPT !.tree = x] = [input |-> input, todo |-> todo, tree |-> x, last |-> last]
      /\ [m EXCEPT !.last = x] = [input |-> input, todo |-> todo, tree |-> tree, last |-> x]
  BY <1>1
<1>3. \A a, b, c, d : IsMachine([input |-> a, todo |-> b, tree |-> c, last |-> d])
  BY DEF IsMachine
<1>4. m.todo = todo
  BY <1>1
<1> QED BY <1>2, <1>3, <1>4

(* What is still to be printed is a stack of the emitter's symbols, and    *)
(* in the modes without a machine there is nothing to do.                  *)
PrinterInv ==
    /\ mode = "output" => IsMachine(ours) /\ ours.todo \in Printable
    /\ mode \in {"string", "integer", "operator"} => ours.todo = <<>>

LEMMA PrinterInit == Init => PrinterInv
<1> SUFFICES ASSUME Init PROVE PrinterInv
  OBVIOUS
<1>1. CASE mode = "output"
  <2>1. ours.todo = <<Out!Part("block"), Out!Say("eof")>> /\ IsMachine(ours)
    BY <1>1 DEF Init, Start, IsMachine
  <2>2. Out!Part("block") \in OutSymbols /\ Out!Say("eof") \in OutSymbols
    BY SymbolsPrintable DEF Parts, Spoken
  <2>3. <<Out!Part("block"), Out!Say("eof")>> \in Printable
    BY <2>2 DEF Printable
  <2> QED BY <1>1, <2>1, <2>3 DEF PrinterInv
<1>2. CASE mode # "output"
  BY <1>2 DEF Init, Start, PrinterInv
<1> QED BY <1>1, <1>2

LEMMA HeadTail ==
    ASSUME NEW s \in Printable, s # <<>>
    PROVE  Head(s) \in OutSymbols /\ Tail(s) \in Printable
BY DEF Printable

LEMMA NoneFails == ASSUME NEW x \in OutSymbols PROVE x[1] # "fail"
BY DEF OutSymbols, MarkSymbols, PartSymbols, OperandSymbols

LEMMA CompareKeeps ==
    ASSUME NEW o, NEW l, Compare(o, l), IsMachine(o) PROVE IsMachine(ours') /\ ours'.todo = o.todo
BY MachineUpdate DEF Compare

(* Only a step of the emitter changes the stack, and it pops a symbol.     *)
LEMMA PrinterStep == PrinterInv /\ [Next]_vars => PrinterInv'
<1> SUFFICES ASSUME PrinterInv, [Next]_vars PROVE PrinterInv'
  OBVIOUS
<1>1. ASSUME mode' = mode, ours' = ours PROVE PrinterInv'
  BY <1>1 DEF PrinterInv, IsMachine
<1>2. ASSUME mode' = mode, mode = "output", IsMachine(ours'), ours'.todo \in Printable PROVE PrinterInv'
  BY <1>2 DEF PrinterInv
<1>3. ASSUME NEW what, Prints(what)
      PROVE  /\ mode = "output" /\ IsMachine(ours) /\ ours.todo \in Printable
             /\ Head(ours.todo) \in OutSymbols /\ Head(ours.todo)[1] \in what
             /\ IsMachine(Popped) /\ Popped.todo = Tail(ours.todo)
             /\ Tail(ours.todo) \in Printable
  <2>1. mode = "output" /\ IsMachine(ours) /\ ours.todo \in Printable /\ ours.todo # <<>>
            /\ Head(ours.todo)[1] \in what
    BY <1>3 DEF Prints, PrinterInv, Ended
  <2>2. IsMachine(Popped) /\ Popped.todo = Tail(ours.todo)
    BY <2>1, MachineUpdate DEF Popped
  <2> QED BY <2>1, <2>2, HeadTail
<1>4. CASE Read
  BY <1>4 DEF Read, PrinterInv
<1>5. CASE ChooseNode
  <2>1. PICK symbols \in Out!Printed(Head(ours.todo)) : ours' = Replace(ours, symbols) /\ mode' = mode
    BY <1>5 DEF ChooseNode
  <2>2. Prints({"print", "operand"})
    BY <1>5 DEF ChooseNode
  <2>3. Head(ours.todo) \in OutSymbols /\ Head(ours.todo)[1] \in {"print", "operand"}
            /\ Tail(ours.todo) \in Printable
        /\ mode = "output" /\ IsMachine(ours)
    BY <1>3, <2>2
  <2>4. symbols \in Printable
    BY <2>1, <2>3, PrintedPrintable
  <2>5. symbols \o Tail(ours.todo) \in Printable
    BY <2>3, <2>4, Cat
  <2>6. symbols = <<>> \/ Head(symbols)[1] # "fail"
    BY <2>4, HeadTail, NoneFails
  <2>7. ours' = [ours EXCEPT !.todo = symbols \o Tail(@)]
    BY <2>1, <2>6 DEF Replace
  <2>8. IsMachine(ours') /\ ours'.todo = symbols \o Tail(ours.todo)
    BY <2>3, <2>7, MachineUpdate
  <2> QED BY <1>2, <2>1, <2>3, <2>5, <2>8
<1>6. CASE PrintToken
  <2>1. PICK l : Compare([Popped EXCEPT !.last = "none"], l) /\ mode' = mode /\ Prints({"say"})
    BY <1>6 DEF PrintToken
  <2>2. IsMachine([Popped EXCEPT !.last = "none"]) /\ [Popped EXCEPT !.last = "none"].todo = Tail(ours.todo)
    BY <1>3, <2>1, MachineUpdate
  <2>3. IsMachine(ours') /\ ours'.todo = Tail(ours.todo)
    BY <2>1, <2>2, CompareKeeps
  <2> QED BY <1>2, <1>3, <2>1, <2>3
<1>7. CASE PushIndent
  <2>1. Prints({"line"}) /\ ours' = [Popped EXCEPT !.last = "line"] /\ mode' = mode
    BY <1>7 DEF PushIndent
  <2>2. IsMachine(ours') /\ ours'.todo = Tail(ours.todo)
    BY <1>3, <2>1, MachineUpdate
  <2> QED BY <1>2, <1>3, <2>1, <2>2
<1>8. CASE CompleteNode
  <2> DEFINE o == [Popped EXCEPT !.tree = Append(@, Head(ours.todo)), !.last = "none"]
  <2>1. Compare(o, lua) /\ mode' = mode /\ Prints({"node", "unary", "binary"})
    BY <1>8 DEF CompleteNode
  <2>2. o = [[Popped EXCEPT !.tree = Append(@, Head(ours.todo))] EXCEPT !.last = "none"]
    OBVIOUS
  <2> HIDE DEF o
  <2> DEFINE p == [Popped EXCEPT !.tree = Append(@, Head(ours.todo))]
  <2>5. IsMachine(p) /\ p.todo = Tail(ours.todo)
    BY <1>3, <2>1, MachineUpdate
  <2>6. o = [p EXCEPT !.last = "none"]
    BY <2>2
  <2> HIDE DEF p
  <2>3. IsMachine(o) /\ o.todo = Tail(ours.todo)
    BY <2>5, <2>6, MachineUpdate
  <2>4. IsMachine(ours') /\ ours'.todo = Tail(ours.todo)
    BY <2>1, <2>3, CompareKeeps
  <2> QED BY <1>2, <1>3, <2>1, <2>4
<1>9. CASE PrintOdd
  <2>1. Prints({"odd"}) /\ ours' = Popped /\ mode' = mode
    BY <1>9 DEF PrintOdd
  <2>2. IsMachine(ours') /\ ours'.todo = Tail(ours.todo)
    BY <1>3, <2>1, MachineUpdate
  <2> QED BY <1>2, <1>3, <2>1, <2>2
<1>10. CASE Spell \/ SpellInteger \/ Operate \/ ReadPrinted \/ Loop \/ Return
  BY <1>1, <1>10 DEF Spell, SpellInteger, Operate, ReadPrinted, Loop, Return, machines
<1>11. CASE UNCHANGED vars
  BY <1>1, <1>11 DEF vars, machines
<1> QED BY <1>4, <1>5, <1>6, <1>7, <1>8, <1>9, <1>10, <1>11 DEF Next

-----------------------------------------------------------------------------
Kinds == {"UnexpectedChar", "UnterminatedString", "InvalidEscape", "UnterminatedLongString",
             "InvalidNumber"}

LexerType ==
    /\ mode \in {"source", "output", "string", "integer", "operator"}
    /\ last_error_kind \in Kinds
    /\ failed \in Failing \cup {"none"}
    /\ odd \subseteq Constructs

LEMMA LexerStep == LexerType /\ [Next]_vars => LexerType'
<1> SUFFICES ASSUME LexerType, [Next]_vars PROVE LexerType'
  OBVIOUS
<1>1. CASE Read
  <2>1. PICK lexeme \in SourceLexemes :
          /\ last_error_kind' = ErrorKind(lexeme, last_error_kind)
          /\ failed' = IF lexeme \in Failing THEN lexeme ELSE "none"
          /\ mode' = mode
    <3> HIDE DEF OddLexeme, OddOutcome, OddVararg, Checked, EnterFunctions, Compare, ErrorKind,
            Tokens, LuaTokens, Refusal, RunParser, RunLua55
    <3> QED BY <1>1 DEF Read
  <2>2. last_error_kind' \in Kinds
    BY <2>1 DEF ErrorKind, Kinds, LexerType, Numerals, Pointed, Malformed, Quoted
  <2>3. odd' \subseteq Constructs
    <3> HIDE DEF OddLexeme, OddOutcome, OddVararg, Checked, EnterFunctions, Compare, ErrorKind,
            Tokens, LuaTokens, Refusal, RunParser, RunLua55
    <3> QED BY <1>1 DEF Read, Meets, LexerType
  <2>4. failed' \in Failing \cup {"none"}
    BY <2>1
  <2> HIDE DEF Kinds
  <2> QED BY <2>1, <2>2, <2>3, <2>4 DEF LexerType
<1>2. CASE ~Read
  BY <1>2, LexerAtRest DEF LexerType
<1> QED BY <1>1, <1>2

(* Every variable of the two machines keeps its type, and the emitter      *)
(* never comes to refuse a tree.                                           *)
THEOREM TranslationTypeOK == Spec => []TypeOK
<1>1. Init => LexerType
  BY ConstantsAssumption DEF Init, LexerType, Kinds
<1>2. LexerType /\ PrinterInv => TypeOK
  <2> SUFFICES ASSUME LexerType, PrinterInv, Refused(ours) PROVE mode = "source"
    BY DEF TypeOK, LexerType, Kinds
  <2>1. ours.todo # <<>> /\ Head(ours.todo)[1] = "fail"
    BY DEF Refused, Ended
  <2>2. mode # "output"
    BY <2>1, HeadTail, NoneFails DEF PrinterInv
  <2> QED BY <2>1, <2>2 DEF PrinterInv, LexerType
<1> QED BY <1>1, <1>2, LexerStep, PrinterInit, PrinterStep, PTL DEF Spec

-----------------------------------------------------------------------------
(* Precedences.  What may stand to the left of an operand.                 *)
LeftOf == BinaryOps \cup {"none", "unary"}

(* binary_prec and UNARY_PREC order the operators as the priorities of Lua *)
(* 5.5 do.                                                                 *)
LEMMA TablesAlike ==
    ASSUME NEW o \in BinaryOps, NEW op \in LeftOf
    PROVE  BindingPower(o)[1] >= MinPrec(op) <=> Lua55!Priority(o)[1] > Lua55!Limit(op)
BY DEF LeftOf, BinaryOps, BindingPower, MinPrec, UnaryPrec,
       Lua55!Priority, Lua55!Priority55, Lua55!Limit, Lua55!Is51

(* Whatever token comes next, and whatever operator is to the left of the  *)
(* operand that has just been read, valua's parser goes on with a binary   *)
(* operator exactly where Lua 5.5 does.                                    *)
THEOREM OperatorsClimbAlike ==
    ASSUME NEW look, NEW op \in LeftOf
    PROVE  PeekBinaryOp(op, look) = <<>> <=> Lua55!BinaryOp(op, look) = <<>>
<1>1. Lua55!Operators = BinaryOps
  BY DEF Lua55!Operators, Lua55!BinaryOps, BinaryOps, Lua55!Is51
<1>2. <<Expect(look)>> \o Operand(look) \o <<Binop(look), Climb(op)>> # <<>>
  BY DEF Operand
<1>3. <<Lua55!Expect(look)>> \o Lua55!SubExpr(look) \o <<Lua55!Binop(look), Lua55!Climb(op)>> # <<>>
  BY DEF Lua55!SubExpr
<1> QED BY <1>1, <1>2, <1>3, TablesAlike DEF PeekBinaryOp, Lua55!BinaryOp

Operators51 == {"or", "and", "<", ">", "<=", ">=", "==", "~=", "..", "+", "-", "*", "/", "%", "^"}

(* An expression of that precedence is printed without parentheses on that *)
(* side of op; after an operand of op, Lua 5.1 takes o into the operand.   *)
Bare(prec, op, side) == prec >= Out!OperandPrec(op, side)
Takes51(op, o)       == Lua51!Priority(o)[1] > Lua51!Limit(op)

(* For any two operators of Lua 5.1, on either side and below a prefix     *)
(* operator, the emitter leaves the parentheses out exactly where Lua 5.1  *)
(* makes the same tree without them.                                       *)
THEOREM ParenthesesNeeded ==
    ASSUME NEW op \in Operators51, NEW o \in Operators51
    PROVE  /\ Bare(Out!BinaryPrec(o), op, "right") <=> Takes51(op, o)
           /\ Bare(Out!BinaryPrec(o), op, "left") <=> ~Takes51(o, op)
           /\ Bare(Out!BinaryPrec(o), "unary", "none") <=> Takes51("unary", o)
           /\ Bare(21, op, "left") <=> ~Takes51("unary", op)
BY DEF Operators51, Bare, Takes51, Out!OperandPrec, Out!BinaryPrec, Out!RightAssoc,
       Lua51!Priority, Lua51!Priority51, Lua51!Limit, Lua51!Is51

-----------------------------------------------------------------------------
(* Machines.  A stack is pushed and popped at its front; Does is one step  *)
(* of a machine by a rule, and a run goes on until a token is needed.  That *)
(* such a function exists is proved from finite approximations of it, for  *)
(* the recursion does not say so by itself: a step may push more symbols   *)
(* than it takes.                                                          *)
Stack == Seq(Symbols)

(* A stack as the symbol on top and the rest.                              *)
Push(a, s) == <<a>> \o s

LEMMA PushIs ==
    ASSUME NEW a \in Symbols, NEW s \in Stack
    PROVE  /\ Push(a, s) \in Stack /\ Push(a, s) # <<>>
           /\ Head(Push(a, s)) = a /\ Tail(Push(a, s)) = s
<1>1. <<a>> \in Stack /\ Len(<<a>>) = 1
  BY DEF Stack
<1>2. Push(a, s) \in Stack /\ Push(a, s) # <<>>
  BY <1>1, ConcatProperties, ConcatEqualIffEmpty DEF Push, Stack
<1>3. Head(Push(a, s)) = a /\ Tail(Push(a, s)) = s
  BY <1>1, ConcatSimplifications, ConcatProperties, HeadTailProperties DEF Push, Stack
<1> QED BY <1>2, <1>3

LEMMA Assoc ==
    \A s, u, v \in Stack : (s \o u) \o v = s \o (u \o v) /\ s \o u \in Stack
BY ConcatAssociative, ConcatProperties DEF Stack

LEMMA PopFront ==
    ASSUME NEW p \in Stack, NEW s \in Stack, p # <<>>
    PROVE  p \o s = Push(Head(p), Tail(p) \o s)
<1>1. Head(p) \in Symbols /\ Tail(p) \in Stack
  BY HeadTailProperties DEF Stack
<1>2. <<Head(p)>> \in Stack
  BY <1>1 DEF Stack
<1>3. <<Head(p)>> \o Tail(p) \in Stack
  BY <1>1, <1>2, ConcatProperties DEF Stack
<1>6. /\ Len(p) = Len(Tail(p)) + 1 /\ Len(p) \in Nat /\ Len(<<Head(p)>>) = 1
      /\ \A i \in 1..Len(Tail(p)) : Tail(p)[i] = p[i + 1]
      /\ p[1] = Head(p)
  BY HeadTailProperties, LenProperties DEF Stack
<1>7. /\ Len(<<Head(p)>> \o Tail(p)) = 1 + Len(Tail(p))
      /\ \A i \in 1..(1 + Len(Tail(p))) : (<<Head(p)>> \o Tail(p))[i] =
            IF i <= 1 THEN <<Head(p)>>[i] ELSE Tail(p)[i - 1]
  BY <1>1, <1>2, <1>6, ConcatProperties DEF Stack
<1>8. \A i \in 1..Len(p) : p[i] = (<<Head(p)>> \o Tail(p))[i]
  BY <1>6, <1>7
<1>9. p = <<Head(p)>> \o Tail(p)
  BY <1>3, <1>6, <1>7, <1>8, SeqEqual DEF Stack
<1>10. (<<Head(p)>> \o Tail(p)) \o s = <<Head(p)>> \o (Tail(p) \o s)
  BY <1>1, <1>2, ConcatAssociative DEF Stack
<1> QED BY Zenon, <1>9, <1>10 DEF Push

LEMMA Flat0 == <<>> \in Stack /\ \A s \in Stack : <<>> \o s = s
BY ConcatEmptySeq DEF Stack

LEMMA Flat1 ==
    ASSUME NEW a \in Symbols
    PROVE  /\ <<a>> \in Stack
           /\ \A s \in Stack : <<a>> \o s = Push(a, s)
<1>1. /\ <<a>> \in Stack /\ <<a>> # <<>> /\ Head(<<a>>) = a /\ Tail(<<a>>) = <<>>
  BY DEF Stack
<1>2. ASSUME NEW s \in Stack PROVE <<a>> \o s = Push(a, s)
  <2>1. <<a>> \o s = Push(a, <<>> \o s)
    BY <1>1, PopFront, Zenon
  <2>2. <<>> \o s = s
    BY Flat0
  <2> QED BY Zenon, <2>1, <2>2
<1> QED BY <1>1, <1>2, Zenon

LEMMA Flat2 ==
    ASSUME NEW a \in Symbols, NEW b \in Symbols
    PROVE  /\ <<a, b>> \in Stack
           /\ \A s \in Stack : <<a, b>> \o s = Push(a, Push(b, s))
<1>1. /\ <<a, b>> \in Stack /\ <<a, b>> # <<>> /\ Head(<<a, b>>) = a /\ Tail(<<a, b>>) = <<b>>
  BY DEF Stack
<1>2. ASSUME NEW s \in Stack PROVE <<a, b>> \o s = Push(a, Push(b, s))
  <2>1. <<a, b>> \o s = Push(a, <<b>> \o s)
    BY <1>1, PopFront, Zenon
  <2>2. <<b>> \o s = Push(b, s)
    BY Flat1
  <2> QED BY Zenon, <2>1, <2>2
<1> QED BY <1>1, <1>2, Zenon

LEMMA Flat3 ==
    ASSUME NEW a \in Symbols, NEW b \in Symbols, NEW c \in Symbols
    PROVE  /\ <<a, b, c>> \in Stack
           /\ \A s \in Stack : <<a, b, c>> \o s = Push(a, Push(b, Push(c, s)))
<1>1. /\ <<a, b, c>> \in Stack /\ <<a, b, c>> # <<>> /\ Head(<<a, b, c>>) = a
           /\ Tail(<<a, b, c>>) = <<b, c>>
  BY DEF Stack
<1>2. ASSUME NEW s \in Stack PROVE <<a, b, c>> \o s = Push(a, Push(b, Push(c, s)))
  <2>1. <<a, b, c>> \o s = Push(a, <<b, c>> \o s)
    BY <1>1, PopFront, Zenon
  <2>2. <<b, c>> \o s = Push(b, Push(c, s))
    BY Flat2
  <2> QED BY Zenon, <2>1, <2>2
<1> QED BY <1>1, <1>2, Zenon

LEMMA Flat4 ==
    ASSUME NEW a \in Symbols, NEW b \in Symbols, NEW c \in Symbols, NEW d \in Symbols
    PROVE  /\ <<a, b, c, d>> \in Stack
           /\ \A s \in Stack : <<a, b, c, d>> \o s = Push(a, Push(b, Push(c, Push(d, s))))
<1>1. /\ <<a, b, c, d>> \in Stack /\ <<a, b, c, d>> # <<>> /\ Head(<<a, b, c, d>>) = a
           /\ Tail(<<a, b, c, d>>) = <<b, c, d>>
  BY DEF Stack
<1>2. ASSUME NEW s \in Stack PROVE <<a, b, c, d>> \o s = Push(a, Push(b, Push(c, Push(d, s))))
  <2>1. <<a, b, c, d>> \o s = Push(a, <<b, c, d>> \o s)
    BY <1>1, PopFront, Zenon
  <2>2. <<b, c, d>> \o s = Push(b, Push(c, Push(d, s)))
    BY Flat3
  <2> QED BY Zenon, <2>1, <2>2
<1> QED BY <1>1, <1>2, Zenon

LEMMA Flat5 ==
    ASSUME NEW a \in Symbols, NEW b \in Symbols, NEW c \in Symbols, NEW d \in Symbols, NEW e \in Symbols
    PROVE  /\ <<a, b, c, d, e>> \in Stack
           /\ \A s \in Stack : <<a, b, c, d, e>> \o s = Push(a, Push(b, Push(c, Push(d, Push(e, s)))))
<1>1. /\ <<a, b, c, d, e>> \in Stack /\ <<a, b, c, d, e>> # <<>> /\ Head(<<a, b, c, d, e>>) = a
           /\ Tail(<<a, b, c, d, e>>) = <<b, c, d, e>>
  BY DEF Stack
<1>2. ASSUME NEW s \in Stack PROVE <<a, b, c, d, e>> \o s = Push(a, Push(b, Push(c, Push(d, Push(e, s)))))
  <2>1. <<a, b, c, d, e>> \o s = Push(a, <<b, c, d, e>> \o s)
    BY <1>1, PopFront, Zenon
  <2>2. <<b, c, d, e>> \o s = Push(b, Push(c, Push(d, Push(e, s))))
    BY Flat4
  <2> QED BY Zenon, <2>1, <2>2
<1> QED BY <1>1, <1>2, Zenon

-----------------------------------------------------------------------------
Tokens55 == Seq(Vocabulary)

(* A machine by its parts.                                                 *)
Mach(i, s, tree, x) == [input |-> i, todo |-> s, tree |-> tree, last |-> x]

LEMMA MachIn ==
    ASSUME NEW i \in Tokens55, NEW s \in Stack, NEW tree \in Stack, NEW x \in Vocabulary
    PROVE  /\ Mach(i, s, tree, x) \in Machines
           /\ Mach(i, s, tree, x).input = i /\ Mach(i, s, tree, x).todo = s
           /\ Mach(i, s, tree, x).tree = tree /\ Mach(i, s, tree, x).last = x
BY DEF Mach, Machines, Tokens55, Stack, Symbols

LEMMA MachIs ==
    ASSUME NEW m \in Machines
    PROVE  /\ m = Mach(m.input, m.todo, m.tree, m.last)
           /\ m.input \in Tokens55 /\ m.todo \in Stack /\ m.tree \in Stack /\ m.last \in Vocabulary
BY DEF Mach, Machines, Tokens55, Stack, Symbols

LEMMA MachUpdate ==
    ASSUME NEW i, NEW s, NEW tree, NEW x, NEW v
    PROVE  /\ [Mach(i, s, tree, x) EXCEPT !.todo = v] = Mach(i, v, tree, x)
           /\ [Mach(i, s, tree, x) EXCEPT !.input = v] = Mach(v, s, tree, x)
           /\ [Mach(i, s, tree, x) EXCEPT !.tree = v] = Mach(i, s, v, x)
           /\ [Mach(i, s, tree, x) EXCEPT !.last = v] = Mach(i, s, tree, v)
BY DEF Mach

(* A step: a symbol that is expected is there or is not,                   *)
LEMMA StepExpect ==
    ASSUME NEW i, NEW a \in Symbols, NEW s \in Stack, NEW tree, NEW x, NEW does, a[1] = "expect"
    PROVE  Step(Mach(i, Push(a, s), tree, x), does) = IF Fits(Head(i), a[2]) THEN Mach(Tail(i), s, tree,
               IF a[2] = ")" THEN x ELSE "none")
                                                      ELSE Refusal("none")
<1> DEFINE m == Mach(i, Push(a, s), tree, x)
<1>1. Head(m.todo) = a /\ Tail(m.todo) = s /\ m.input = i /\ m.tree = tree /\ m.last = x
  BY PushIs DEF Mach
<1>3. [m EXCEPT !.todo = s] = Mach(i, s, tree, x)
  BY DEF Mach
<1>4. ASSUME NEW w, NEW v
      PROVE  /\ [Mach(i, s, tree, x) EXCEPT !.input = w] = Mach(w, s, tree, x)
             /\ [Mach(w, s, tree, x) EXCEPT !.last = v] = Mach(w, s, tree, v)
  BY DEF Mach
<1> HIDE DEF m
<1>2. Step(m, does) = IF Fits(Head(i), a[2])
                    THEN [m EXCEPT !.todo = s, !.input = Tail(i), !.last = IF a[2] = ")" THEN x ELSE "none"]
                    ELSE Refusal("none")
  BY <1>1 DEF Step
<1>6. ASSUME NEW w, NEW v
      PROVE  [m EXCEPT !.todo = s, !.input = w,
                 !.last = v] = [[[m EXCEPT !.todo = s] EXCEPT !.input = w] EXCEPT !.last = v]
  OBVIOUS
<1>7. ASSUME NEW w, NEW v PROVE [m EXCEPT !.todo = s, !.input = w, !.last = v] = Mach(w, s, tree, v)
  <2>1. /\ [Mach(i, s, tree, x) EXCEPT !.input = w] = Mach(w, s, tree, x)
        /\ [Mach(w, s, tree, x) EXCEPT !.last = v] = Mach(w, s, tree, v)
    BY <1>4
  <2>2. [m EXCEPT !.todo = s, !.input = w,
            !.last = v] = [[[m EXCEPT !.todo = s] EXCEPT !.input = w] EXCEPT !.last = v]
    BY <1>6
  <2> QED BY Zenon, <1>3, <2>1, <2>2
<1> QED BY Zenon, <1>2, <1>7 DEF m

(* a procedure is replaced by what its rule says,                          *)
LEMMA StepDoes ==
    ASSUME NEW i, NEW a \in Symbols, NEW s \in Stack, NEW tree, NEW x, NEW does, a[1] \in {"parse", "climb"}
    PROVE  Step(Mach(i, Push(a, s), tree, x), does) = IF does # <<>>
               /\ Head(does)[1] = "fail" THEN Start(does)
                                                      ELSE Mach(i, does \o s, tree, x)
<1> DEFINE m == Mach(i, Push(a, s), tree, x)
<1>1. Head(m.todo) = a /\ Tail(m.todo) = s /\ m.input = i /\ m.tree = tree /\ m.last = x
  BY PushIs DEF Mach
<1>3. ASSUME NEW v PROVE [m EXCEPT !.todo = v] = Mach(i, v, tree, x)
  BY DEF Mach
<1> HIDE DEF m
<1>2. Step(m, does) = IF does # <<>> /\ Head(does)[1] = "fail" THEN Start(does)
                    ELSE [m EXCEPT !.todo = does \o s]
  BY <1>1 DEF Step, Replace
<1> QED BY Zenon, <1>2, <1>3 DEF m

LEMMA StepShape ==
    ASSUME NEW i, NEW a \in Symbols, NEW s \in Stack, NEW tree, NEW x, NEW does, a[1] = "shape"
    PROVE  Step(Mach(i, Push(a, s), tree, x), does) = Mach(i, s, tree, a[2])
<1> DEFINE m == Mach(i, Push(a, s), tree, x)
<1>1. Head(m.todo) = a /\ Tail(m.todo) = s /\ m.input = i /\ m.tree = tree /\ m.last = x
  BY PushIs DEF Mach
<1>3. [m EXCEPT !.todo = s] = Mach(i, s, tree, x)
  BY DEF Mach
<1>4. [Mach(i, s, tree, x) EXCEPT !.last = a[2]] = Mach(i, s, tree, a[2])
  BY DEF Mach
<1> HIDE DEF m
<1>2. Step(m, does) = [m EXCEPT !.todo = s, !.last = a[2]]
  BY <1>1 DEF Step
<1>5. [m EXCEPT !.todo = s, !.last = a[2]] = [[m EXCEPT !.todo = s] EXCEPT !.last = a[2]]
  OBVIOUS
<1> QED BY Zenon, <1>2, <1>3, <1>4, <1>5 DEF m

(* and a node is completed.                                                *)
LEMMA StepNode ==
    ASSUME NEW i, NEW a \in Symbols, NEW s \in Stack, NEW tree, NEW x, NEW does,
               a[1] \notin {"expect", "parse", "climb", "shape"}
    PROVE  Step(Mach(i, Push(a, s), tree, x), does) = Mach(i, s, Append(tree, a), a[2])
<1> DEFINE m == Mach(i, Push(a, s), tree, x)
<1>1. Head(m.todo) = a /\ Tail(m.todo) = s /\ m.input = i /\ m.tree = tree /\ m.last = x
  BY PushIs DEF Mach
<1>3. [m EXCEPT !.todo = s] = Mach(i, s, tree, x)
  BY DEF Mach
<1>4. [Mach(i, s, tree, x) EXCEPT !.last = a[2]] = Mach(i, s, tree, a[2])
  BY DEF Mach
<1>5. \A v : [Mach(i, s, tree, a[2]) EXCEPT !.tree = v] = Mach(i, s, v, a[2])
  BY DEF Mach
<1> HIDE DEF m
<1>2. Step(m, does) = [m EXCEPT !.todo = s, !.last = a[2], !.tree = Append(tree, a)]
  BY <1>1 DEF Step
<1>6. \A v : [m EXCEPT !.todo = s, !.last = a[2],
          !.tree = v] = [[[m EXCEPT !.todo = s] EXCEPT !.last = a[2]] EXCEPT !.tree = v]
  OBVIOUS
<1>7. \A v : [m EXCEPT !.todo = s, !.last = a[2], !.tree = v] = Mach(i, s, v, a[2])
  BY Zenon, <1>3, <1>4, <1>5, <1>6
<1> QED BY Zenon, <1>2, <1>7 DEF m

-----------------------------------------------------------------------------
Rules == [Symbols \X Vocabulary \X Vocabulary -> Stack]

Does(rule, m) == Step(m, rule[Head(m.todo), Head(m.input), m.last])

(* R runs by the rule: as long as the machine runs, one step after another. *)
IsRun(R, rule) == \A m \in Machines : R[m] = IF ~Running(m) THEN m ELSE R[Does(rule, m)]

LEMMA RunningIs ==
    ASSUME NEW m \in Machines, Running(m)
    PROVE  /\ m.todo # <<>> /\ Head(m.todo) \in Symbols /\ Tail(m.todo) \in Stack
           /\ Head(m.todo)[1] # "fail"
           /\ m.todo = Push(Head(m.todo), Tail(m.todo))
           /\ Head(m.todo)[1] \in {"expect", "parse", "climb"} =>
                m.input # <<>> /\ Head(m.input) \in Vocabulary /\ Tail(m.input) \in Tokens55
<1>1. m.todo # <<>> /\ m.todo \in Stack /\ m.input \in Tokens55
  BY MachIs DEF Running, Ended
<1>2. Head(m.todo) \in Symbols /\ Tail(m.todo) \in Stack
  BY <1>1, HeadTailProperties DEF Stack
<1>3. m.todo = Push(Head(m.todo), Tail(m.todo))
  <2>1. m.todo \o <<>> = Push(Head(m.todo), Tail(m.todo) \o <<>>)
    BY <1>1, PopFront, Flat0
  <2>2. m.todo \o <<>> = m.todo /\ Tail(m.todo) \o <<>> = Tail(m.todo)
    BY <1>1, <1>2, ConcatEmptySeq DEF Stack
  <2> QED BY <2>1, <2>2
<1>4. Head(m.todo)[1] # "fail"
  BY <1>1 DEF Running, Refused
<1>5. ASSUME Head(m.todo)[1] \in {"expect", "parse", "climb"} PROVE m.input # <<>>
  BY <1>1, <1>5 DEF Running, Waiting, Reads
<1>6. m.input # <<>> => Head(m.input) \in Vocabulary /\ Tail(m.input) \in Tokens55
  BY <1>1, HeadTailProperties DEF Tokens55
<1> QED BY <1>1, <1>2, <1>3, <1>4, <1>5, <1>6

LEMMA NoneIn == "none" \in Vocabulary
BY DEF Vocabulary

LEMMA StartIn == ASSUME NEW s \in Stack PROVE Start(s) \in Machines
    /\ Start(s) = Mach(<<>>, s, <<>>, "none")
<1>1. Start(s) = Mach(<<>>, s, <<>>, "none")
  BY DEF Start, Mach
<1>2. <<>> \in Tokens55 /\ <<>> \in Stack
  BY EmptySeq DEF Tokens55, Stack
<1>3. "none" \in Vocabulary
  BY NoneIn
<1> QED BY <1>1, <1>2, <1>3, MachIn

LEMMA RefusalIn == ASSUME NEW why \in Vocabulary PROVE Refusal(why) \in Machines
<1>1. <<Fail(why)>> \in Stack
  <2>1. Fail(why) \in Symbols
    BY DEF Fail, Symbols
  <2> QED BY <2>1, Flat1
<1> QED BY <1>1, StartIn DEF Refusal

(* A step of a machine that runs leads to a machine.                       *)
LEMMA DoesIn ==
    ASSUME NEW rule \in Rules, NEW m \in Machines, Running(m) PROVE Does(rule, m) \in Machines
<1> DEFINE a == Head(m.todo)
           s == Tail(m.todo)
           does == rule[a, Head(m.input), m.last]
<1>1. /\ m.input \in Tokens55 /\ m.tree \in Stack /\ m.last \in Vocabulary
      /\ a \in Symbols /\ s \in Stack
  BY MachIs, RunningIs
<1>0. a[2] \in Vocabulary /\ "none" \in Vocabulary
  BY <1>1, NoneIn DEF Symbols
<1>2. m = Mach(m.input, Push(a, s), m.tree, m.last)
  BY MachIs, RunningIs
<1>3. Does(rule, m) = Step(Mach(m.input, Push(a, s), m.tree, m.last), does)
  BY <1>2 DEF Does
<1> HIDE DEF a, s, does
<1>4. CASE a[1] = "expect"
  <2>1. Tail(m.input) \in Tokens55
    BY <1>4, RunningIs DEF a
  <2>2. Does(rule, m) \in {Refusal("none"),
            Mach(Tail(m.input), s, m.tree, IF a[2] = ")" THEN m.last ELSE "none")}
    BY <1>1, <1>3, <1>4, StepExpect
  <2>3. Mach(Tail(m.input), s, m.tree, IF a[2] = ")" THEN m.last ELSE "none") \in Machines
    BY <1>0, <1>1, <2>1, MachIn
  <2> QED BY <1>0, <2>2, <2>3, RefusalIn
<1>5. CASE a[1] \in {"parse", "climb"}
  <2>1. does \in Stack
    BY <1>1, <1>5, RunningIs DEF a, does, Rules
  <2>2. does \o s \in Stack
    BY <1>1, <2>1, Assoc
  <2>3. Does(rule, m) \in {Start(does), Mach(m.input, does \o s, m.tree, m.last)}
    <3>1. Step(Mach(m.input, Push(a, s), m.tree, m.last), does)
            = IF does # <<>> /\ Head(does)[1] = "fail" THEN Start(does) ELSE Mach(m.input, does \o s,
                m.tree, m.last)
      BY <1>1, <1>5, StepDoes
    <3> QED BY <1>3, <3>1
  <2>4. Mach(m.input, does \o s, m.tree, m.last) \in Machines
    BY <1>1, <2>2, MachIn
  <2> QED BY <2>1, <2>3, <2>4, StartIn
<1>6. CASE a[1] = "shape"
  <2>1. Does(rule, m) = Mach(m.input, s, m.tree, a[2])
    BY <1>1, <1>3, <1>6, StepShape
  <2> QED BY <1>0, <1>1, <2>1, MachIn
<1>7. CASE a[1] \notin {"expect", "parse", "climb", "shape"}
  <2>1. Append(m.tree, a) \in Stack
    BY <1>1, AppendProperties DEF Stack
  <2>2. Does(rule, m) = Mach(m.input, s, Append(m.tree, a), a[2])
    BY <1>1, <1>3, <1>7, StepNode
  <2> QED BY <1>0, <1>1, <2>1, <2>2, MachIn
<1> QED BY <1>4, <1>5, <1>6, <1>7

(* A function that satisfies the recursion exists.                         *)
LEMMA FixpointExists ==
    ASSUME NEW M, NEW on \in SUBSET M, NEW next \in [on -> M]
    PROVE  \E f : f = [m \in M |-> IF m \notin on THEN m ELSE f[next[m]]]
<1> DEFINE Closed(C) == \A m \in C \cap on : next[m] \in C
           Reach(m) == {x \in M : \A C \in SUBSET M : m \in C /\ Closed(C) => x \in C}
           Final(m) == Reach(m) \ on
           f == [m \in M |-> IF Final(m) # {} THEN CHOOSE x : x \in Final(m) ELSE CHOOSE x : x \in M]
<1>1. ASSUME NEW m \in M, m \notin on PROVE f[m] = m
  <2>1. Closed({m}) /\ {m} \in SUBSET M
    BY <1>1
  <2>2. Reach(m) = {m}
    <3>1. Reach(m) \subseteq {m}
      BY <2>1
    <3>2. m \in Reach(m)
      OBVIOUS
    <3> QED BY <3>1, <3>2
  <2>3. Final(m) = {m}
    BY <1>1, <2>2
  <2> HIDE DEF Final
  <2> QED BY <2>3
<1>2. ASSUME NEW m \in on PROVE f[m] = f[next[m]]
  <2>1. m \in M /\ next[m] \in M
    OBVIOUS
  <2>2. Reach(next[m]) \subseteq Reach(m)
    <3> SUFFICES ASSUME NEW x \in Reach(next[m]), NEW C \in SUBSET M, m \in C, Closed(C) PROVE x \in C
      OBVIOUS
    <3>1. next[m] \in C
      OBVIOUS
    <3> QED BY <3>1
  <2>3. Reach(m) \subseteq Reach(next[m]) \cup {m}
    <3> SUFFICES ASSUME NEW x \in Reach(m), x # m, NEW C \in SUBSET M, next[m] \in C, Closed(C)
                            PROVE x \in C
      OBVIOUS
    <3>1. Closed(C \cup {m}) /\ C \cup {m} \in SUBSET M
      BY <2>1
    <3>2. x \in C \cup {m}
      BY <3>1
    <3> QED BY <3>2
  <2>4. Final(m) = Final(next[m])
    BY <2>2, <2>3
  <2> HIDE DEF Final
  <2> QED BY <2>1, <2>4
<1> HIDE DEF f
<1>3. f = [m \in M |-> IF m \notin on THEN m ELSE f[next[m]]]
  <2>1. f = [m \in M |-> f[m]]
    BY DEF f
  <2> QED BY <1>1, <1>2, <2>1
<1> QED BY <1>3

(* So there is a run by every rule.                                        *)
LEMMA RunExists ==
    ASSUME NEW rule \in Rules
    PROVE  \E f : f = [m \in Machines |-> IF ~Running(m) THEN m ELSE f[Does(rule, m)]]
<1> DEFINE on == {m \in Machines : Running(m)}
           next == [m \in on |-> Does(rule, m)]
<1>1. on \in SUBSET Machines /\ next \in [on -> Machines]
  BY DoesIn
<1>2. PICK f : f = [m \in Machines |-> IF m \notin on THEN m ELSE f[next[m]]]
  <2> HIDE DEF on, next
  <2> QED BY <1>1, FixpointExists
<1>3. \A m \in Machines : (m \notin on <=> ~Running(m)) /\ (Running(m) => next[m] = Does(rule, m))
  OBVIOUS
<1>4. [m \in Machines |-> IF m \notin on THEN m ELSE f[next[m]]] =
      [m \in Machines |-> IF ~Running(m) THEN m ELSE f[Does(rule, m)]]
  BY <1>3
<1> QED BY <1>2, <1>4

-----------------------------------------------------------------------------
(* The words the parsers speak.                                            *)
LEMMA VocabularyIs ==
    /\ \A t \in TokenKinds : t \in Vocabulary
    /\ \A t \in NodeKinds : t \in Vocabulary
    /\ \A t \in Procedures : t \in Vocabulary
    /\ \A t \in Lua55!LuaProcedures : t \in Vocabulary
    /\ "none" \in Vocabulary /\ "unary" \in Vocabulary /\ "paren" \in Vocabulary
    /\ "no_variable" \in Vocabulary /\ LineParen \in Vocabulary
BY Zenon DEF Vocabulary

LEMMA TokensAre ==
    /\ \A t \in BinaryOps : t \in TokenKinds
    /\ \A t \in UnaryOps : t \in TokenKinds
    /\ \A t \in Names : t \in TokenKinds
    /\ \A t \in Simple : t \in TokenKinds
    /\ \A t \in Keywords : t \in TokenKinds
    /\ \A t \in Marks : t \in TokenKinds
    /\ "eof" \in TokenKinds
BY Zenon DEF TokenKinds

LEMMA SymbolIs ==
    ASSUME NEW w \in Vocabulary
    PROVE  /\ Expect(w) \in Symbols /\ Parse(w) \in Symbols /\ Climb(w) \in Symbols /\ Node(w) \in Symbols
           /\ Unop(w) \in Symbols /\ Binop(w) \in Symbols /\ Shape(w) \in Symbols /\ Fail(w) \in Symbols
BY DEF Expect, Parse, Climb, Node, Unop, Binop, Shape, Fail, Symbols

LEMMA WordSymbols ==
    /\ \A t \in TokenKinds : /\ Expect(t) \in Symbols /\ Climb(t) \in Symbols /\ Node(t) \in Symbols
                             /\ Unop(t) \in Symbols /\ Binop(t) \in Symbols
    /\ \A t \in NodeKinds : Node(t) \in Symbols
    /\ \A t \in Procedures : Parse(t) \in Symbols
    /\ \A t \in Lua55!LuaProcedures : Parse(t) \in Symbols
    /\ Climb("none") \in Symbols /\ Climb("unary") \in Symbols /\ Shape("paren") \in Symbols
    /\ Fail("none") \in Symbols /\ Fail("no_variable") \in Symbols
BY VocabularyIs, SymbolIs

LEMMA ProcsIn ==
    /\ "block" \in Procedures /\ "rest" \in Procedures /\ "semicolon" \in Procedures
    /\ "values" \in Procedures /\ "statement" \in Procedures /\ "local" \in Procedures
    /\ "more_names" \in Procedures /\ "initializer" \in Procedures /\ "attribute" \in Procedures
    /\ "attribute_name" \in Procedures /\ "name_parts" \in Procedures /\ "params" \in Procedures
    /\ "param" \in Procedures /\ "more_params" \in Procedures /\ "else_clauses" \in Procedures
    /\ "for" \in Procedures /\ "step" \in Procedures /\ "for_names" \in Procedures
    /\ "assign_or_call" \in Procedures /\ "targets" \in Procedures /\ "more_exprs" \in Procedures
    /\ "unary" \in Procedures /\ "suffixes" \in Procedures /\ "primary" \in Procedures
    /\ "call_args" \in Procedures /\ "args" \in Procedures /\ "fields" \in Procedures
    /\ "separator" \in Procedures /\ "field" \in Procedures /\ "named_field" \in Procedures
    /\ "statlist" \in Lua55!LuaProcedures /\ "primaryexp" \in Lua55!LuaProcedures
    /\ "suffixedexp" \in Lua55!LuaProcedures /\ "discharge" \in Lua55!LuaProcedures
    /\ "funcargs" \in Lua55!LuaProcedures /\ "subexpr" \in Lua55!LuaProcedures
    /\ "exprstat" \in Lua55!LuaProcedures /\ "restassign" \in Lua55!LuaProcedures
    /\ "localstat" \in Lua55!LuaProcedures /\ "attrib" \in Lua55!LuaProcedures
    /\ "attname" \in Lua55!LuaProcedures /\ "attnamelist" \in Lua55!LuaProcedures
    /\ "closed" \in Lua55!LuaProcedures /\ "closedlist" \in Lua55!LuaProcedures
    /\ "globalstat" \in Lua55!LuaProcedures /\ "forstat" \in Lua55!LuaProcedures
    /\ "test_then" \in Lua55!LuaProcedures /\ "funcname" \in Lua55!LuaProcedures
    /\ "parameter" \in Lua55!LuaProcedures /\ "field" \in Lua55!LuaProcedures
    /\ "recfield" \in Lua55!LuaProcedures /\ "semicolon" \in Lua55!LuaProcedures
    /\ "retstat" \in Lua55!LuaProcedures /\ "explist" \in Lua55!LuaProcedures
    /\ "init" \in Lua55!LuaProcedures /\ "args" \in Lua55!LuaProcedures /\ "parlist" \in Lua55!LuaProcedures
    /\ "morepars" \in Lua55!LuaProcedures /\ "vararg_name" \in Lua55!LuaProcedures
    /\ "constructor" \in Lua55!LuaProcedures /\ "fieldsep" \in Lua55!LuaProcedures
    /\ "fornum" \in Lua55!LuaProcedures /\ "forlist" \in Lua55!LuaProcedures
BY DEF Procedures, Lua55!LuaProcedures

LEMMA ParsesIn ==
    /\ Parse("args") \in Symbols /\ Parse("assign_or_call") \in Symbols /\ Parse("attname") \in Symbols
    /\ Parse("attnamelist") \in Symbols /\ Parse("attrib") \in Symbols /\ Parse("attribute") \in Symbols
    /\ Parse("attribute_name") \in Symbols /\ Parse("block") \in Symbols /\ Parse("call_args") \in Symbols
    /\ Parse("closed") \in Symbols /\ Parse("closedlist") \in Symbols /\ Parse("constructor") \in Symbols
    /\ Parse("discharge") \in Symbols /\ Parse("else_clauses") \in Symbols /\ Parse("explist") \in Symbols
    /\ Parse("exprstat") \in Symbols /\ Parse("field") \in Symbols /\ Parse("fields") \in Symbols
    /\ Parse("fieldsep") \in Symbols /\ Parse("for") \in Symbols /\ Parse("for_names") \in Symbols
    /\ Parse("forlist") \in Symbols /\ Parse("fornum") \in Symbols /\ Parse("forstat") \in Symbols
    /\ Parse("funcargs") \in Symbols /\ Parse("funcname") \in Symbols /\ Parse("globalstat") \in Symbols
    /\ Parse("init") \in Symbols /\ Parse("initializer") \in Symbols /\ Parse("local") \in Symbols
    /\ Parse("localstat") \in Symbols /\ Parse("more_exprs") \in Symbols /\ Parse("more_names") \in Symbols
    /\ Parse("more_params") \in Symbols /\ Parse("morepars") \in Symbols /\ Parse("name_parts") \in Symbols
    /\ Parse("named_field") \in Symbols /\ Parse("param") \in Symbols /\ Parse("parameter") \in Symbols
    /\ Parse("params") \in Symbols /\ Parse("parlist") \in Symbols /\ Parse("primary") \in Symbols
    /\ Parse("primaryexp") \in Symbols /\ Parse("recfield") \in Symbols /\ Parse("rest") \in Symbols
    /\ Parse("restassign") \in Symbols /\ Parse("retstat") \in Symbols /\ Parse("semicolon") \in Symbols
    /\ Parse("separator") \in Symbols /\ Parse("statement") \in Symbols /\ Parse("statlist") \in Symbols
    /\ Parse("step") \in Symbols /\ Parse("subexpr") \in Symbols /\ Parse("suffixedexp") \in Symbols
    /\ Parse("suffixes") \in Symbols /\ Parse("targets") \in Symbols /\ Parse("test_then") \in Symbols
    /\ Parse("unary") \in Symbols /\ Parse("values") \in Symbols /\ Parse("vararg_name") \in Symbols
<1>1. ASSUME NEW p \in Procedures PROVE Parse(p) \in Symbols
  BY WordSymbols
<1>2. ASSUME NEW p \in Lua55!LuaProcedures PROVE Parse(p) \in Symbols
  BY WordSymbols
<1> QED BY <1>1, <1>2, ProcsIn

LEMMA NodesIn ==
    /\ Node("assign") \in Symbols /\ Node("break") \in Symbols /\ Node("call") \in Symbols
    /\ Node("call_statement") \in Symbols /\ Node("const") \in Symbols /\ Node("close") \in Symbols
    /\ Node("do") \in Symbols /\ Node("else") \in Symbols /\ Node("elseif") \in Symbols
    /\ Node("expr_key") \in Symbols /\ Node("function") \in Symbols /\ Node("function_decl") \in Symbols
    /\ Node("generic_for") \in Symbols /\ Node("global") \in Symbols /\ Node("goto") \in Symbols
    /\ Node("if") \in Symbols /\ Node("index") \in Symbols /\ Node("index_expr") \in Symbols
    /\ Node("is_vararg") \in Symbols /\ Node("label") \in Symbols /\ Node("local") \in Symbols
    /\ Node("local_function") \in Symbols /\ Node("method") \in Symbols /\ Node("method_call") \in Symbols
    /\ Node("name") \in Symbols /\ Node("name_key") \in Symbols /\ Node("numeric_for") \in Symbols
    /\ Node("one_value") \in Symbols /\ Node("param") \in Symbols /\ Node("part") \in Symbols
    /\ Node("positional") \in Symbols /\ Node("repeat") \in Symbols /\ Node("return") \in Symbols
    /\ Node("table") \in Symbols /\ Node("while") \in Symbols
<1>1. /\ "assign" \in NodeKinds /\ "break" \in NodeKinds /\ "call" \in NodeKinds
      /\ "call_statement" \in NodeKinds /\ "const" \in NodeKinds /\ "close" \in NodeKinds
      /\ "do" \in NodeKinds /\ "else" \in NodeKinds /\ "elseif" \in NodeKinds /\ "expr_key" \in NodeKinds
      /\ "function" \in NodeKinds /\ "function_decl" \in NodeKinds /\ "generic_for" \in NodeKinds
      /\ "global" \in NodeKinds /\ "goto" \in NodeKinds /\ "if" \in NodeKinds /\ "index" \in NodeKinds
      /\ "index_expr" \in NodeKinds /\ "is_vararg" \in NodeKinds /\ "label" \in NodeKinds
      /\ "local" \in NodeKinds /\ "local_function" \in NodeKinds /\ "method" \in NodeKinds
      /\ "method_call" \in NodeKinds /\ "name" \in NodeKinds /\ "name_key" \in NodeKinds
      /\ "numeric_for" \in NodeKinds /\ "one_value" \in NodeKinds /\ "param" \in NodeKinds
      /\ "part" \in NodeKinds /\ "positional" \in NodeKinds /\ "repeat" \in NodeKinds
      /\ "return" \in NodeKinds /\ "table" \in NodeKinds /\ "while" \in NodeKinds
  BY DEF NodeKinds
<1> QED BY <1>1, WordSymbols

(* Tokens for which the SMT backend has no name.                           *)
Comma      == ","
SemiMark   == ";"
OpenBrace  == "{"
CloseBrace == "}"

PlainTokens == {"if", "then", "else", "elseif", "end", "do", "while", "repeat", "until", "for", "in",
                   "function",
          "local", "return", "break", "goto", "(", ")", "[", "]", ":", "::", ".", "...", "=", "Name",
          "const", "close", "global", "Literal", "String", "eof", "<", ">", "*", "-", "~", "#", "not"}

LEMMA PlainAre ==
    /\ "if" \in PlainTokens /\ "then" \in PlainTokens /\ "else" \in PlainTokens /\ "elseif" \in PlainTokens
    /\ "end" \in PlainTokens /\ "do" \in PlainTokens /\ "while" \in PlainTokens /\ "repeat" \in PlainTokens
    /\ "until" \in PlainTokens /\ "for" \in PlainTokens /\ "in" \in PlainTokens
         /\ "function" \in PlainTokens
    /\ "local" \in PlainTokens /\ "return" \in PlainTokens /\ "break" \in PlainTokens
    /\ "goto" \in PlainTokens /\ "(" \in PlainTokens /\ ")" \in PlainTokens /\ "[" \in PlainTokens
    /\ "]" \in PlainTokens /\ ":" \in PlainTokens /\ "::" \in PlainTokens /\ "." \in PlainTokens
    /\ "..." \in PlainTokens /\ "=" \in PlainTokens /\ "Name" \in PlainTokens /\ "const" \in PlainTokens
    /\ "close" \in PlainTokens /\ "global" \in PlainTokens /\ "Literal" \in PlainTokens
    /\ "String" \in PlainTokens /\ "eof" \in PlainTokens /\ "<" \in PlainTokens /\ ">" \in PlainTokens
    /\ "*" \in PlainTokens /\ "-" \in PlainTokens /\ "~" \in PlainTokens /\ "#" \in PlainTokens
    /\ "not" \in PlainTokens
BY DEF PlainTokens

LEMMA PlainIn == \A t \in PlainTokens : t \in TokenKinds
BY DEF PlainTokens, TokenKinds, Keywords, Marks, Names, Simple, BinaryOps, UnaryOps

LEMMA MarksIn == Comma \in TokenKinds /\ SemiMark \in TokenKinds /\ OpenBrace \in TokenKinds
    /\ CloseBrace \in TokenKinds
<1>1. "," \in Marks /\ ";" \in Marks /\ "{" \in Marks /\ "}" \in Marks
  BY Zenon DEF Marks
<1> QED BY Zenon, <1>1, TokensAre DEF Comma, SemiMark, OpenBrace, CloseBrace

LEMMA MarksDiffer ==
    /\ \A t \in PlainTokens \cup BinaryOps : t # Comma /\ t # SemiMark /\ t # OpenBrace /\ t # CloseBrace
    /\ Comma # SemiMark /\ Comma # OpenBrace /\ Comma # CloseBrace /\ SemiMark # OpenBrace
    /\ SemiMark # CloseBrace /\ OpenBrace # CloseBrace
<1>1. \A t \in PlainTokens : t # Comma /\ t # SemiMark /\ t # OpenBrace /\ t # CloseBrace
  BY Zenon DEF PlainTokens, Comma, SemiMark, OpenBrace, CloseBrace
<1>2. \A t \in BinaryOps : t # Comma /\ t # SemiMark /\ t # OpenBrace /\ t # CloseBrace
  BY Zenon DEF BinaryOps, Comma, SemiMark, OpenBrace, CloseBrace
<1>3. /\ Comma # SemiMark /\ Comma # OpenBrace /\ Comma # CloseBrace /\ SemiMark # OpenBrace
      /\ SemiMark # CloseBrace /\ OpenBrace # CloseBrace
  BY Zenon DEF Comma, SemiMark, OpenBrace, CloseBrace
<1> QED BY Zenon, <1>1, <1>2, <1>3

LEMMA ExpectsIn ==
    /\ Expect("if") \in Symbols /\ Expect("then") \in Symbols /\ Expect("else") \in Symbols
    /\ Expect("elseif") \in Symbols /\ Expect("end") \in Symbols /\ Expect("do") \in Symbols
    /\ Expect("while") \in Symbols /\ Expect("repeat") \in Symbols /\ Expect("until") \in Symbols
    /\ Expect("for") \in Symbols /\ Expect("in") \in Symbols /\ Expect("function") \in Symbols
    /\ Expect("local") \in Symbols /\ Expect("return") \in Symbols /\ Expect("break") \in Symbols
    /\ Expect("goto") \in Symbols /\ Expect("(") \in Symbols /\ Expect(")") \in Symbols
    /\ Expect("[") \in Symbols /\ Expect("]") \in Symbols /\ Expect(":") \in Symbols
    /\ Expect("::") \in Symbols /\ Expect(".") \in Symbols /\ Expect("...") \in Symbols
    /\ Expect("=") \in Symbols /\ Expect("Name") \in Symbols /\ Expect("const") \in Symbols
    /\ Expect("close") \in Symbols /\ Expect("global") \in Symbols /\ Expect("Literal") \in Symbols
    /\ Expect("String") \in Symbols /\ Expect("eof") \in Symbols /\ Expect("<") \in Symbols
    /\ Expect(">") \in Symbols /\ Expect("*") \in Symbols /\ Expect("-") \in Symbols
    /\ Expect("~") \in Symbols /\ Expect("#") \in Symbols /\ Expect("not") \in Symbols
    /\ Expect(Comma) \in Symbols /\ Expect(SemiMark) \in Symbols /\ Expect(OpenBrace) \in Symbols
    /\ Expect(CloseBrace) \in Symbols
BY PlainAre, PlainIn, MarksIn, WordSymbols

(* The symbols the two grammars push.                                      *)
LEMMA SymbolsIn ==
    /\ Parse("args") \in Symbols /\ Parse("assign_or_call") \in Symbols /\ Parse("attname") \in Symbols
    /\ Parse("attnamelist") \in Symbols /\ Parse("attrib") \in Symbols /\ Parse("attribute") \in Symbols
    /\ Parse("attribute_name") \in Symbols /\ Parse("block") \in Symbols /\ Parse("call_args") \in Symbols
    /\ Parse("closed") \in Symbols /\ Parse("closedlist") \in Symbols /\ Parse("constructor") \in Symbols
    /\ Parse("discharge") \in Symbols /\ Parse("else_clauses") \in Symbols /\ Parse("explist") \in Symbols
    /\ Parse("exprstat") \in Symbols /\ Parse("field") \in Symbols /\ Parse("fields") \in Symbols
    /\ Parse("fieldsep") \in Symbols /\ Parse("for") \in Symbols /\ Parse("for_names") \in Symbols
    /\ Parse("forlist") \in Symbols /\ Parse("fornum") \in Symbols /\ Parse("forstat") \in Symbols
    /\ Parse("funcargs") \in Symbols /\ Parse("funcname") \in Symbols /\ Parse("globalstat") \in Symbols
    /\ Parse("init") \in Symbols /\ Parse("initializer") \in Symbols /\ Parse("local") \in Symbols
    /\ Parse("localstat") \in Symbols /\ Parse("more_exprs") \in Symbols /\ Parse("more_names") \in Symbols
    /\ Parse("more_params") \in Symbols /\ Parse("morepars") \in Symbols /\ Parse("name_parts") \in Symbols
    /\ Parse("named_field") \in Symbols /\ Parse("param") \in Symbols /\ Parse("parameter") \in Symbols
    /\ Parse("params") \in Symbols /\ Parse("parlist") \in Symbols /\ Parse("primary") \in Symbols
    /\ Parse("primaryexp") \in Symbols /\ Parse("recfield") \in Symbols /\ Parse("rest") \in Symbols
    /\ Parse("restassign") \in Symbols /\ Parse("retstat") \in Symbols /\ Parse("semicolon") \in Symbols
    /\ Parse("separator") \in Symbols /\ Parse("statement") \in Symbols /\ Parse("statlist") \in Symbols
    /\ Parse("step") \in Symbols /\ Parse("subexpr") \in Symbols /\ Parse("suffixedexp") \in Symbols
    /\ Parse("suffixes") \in Symbols /\ Parse("targets") \in Symbols /\ Parse("test_then") \in Symbols
    /\ Parse("unary") \in Symbols /\ Parse("values") \in Symbols /\ Parse("vararg_name") \in Symbols
    /\ Node("assign") \in Symbols /\ Node("break") \in Symbols /\ Node("call") \in Symbols
    /\ Node("call_statement") \in Symbols /\ Node("const") \in Symbols /\ Node("close") \in Symbols
    /\ Node("do") \in Symbols /\ Node("else") \in Symbols /\ Node("elseif") \in Symbols
    /\ Node("expr_key") \in Symbols /\ Node("function") \in Symbols /\ Node("function_decl") \in Symbols
    /\ Node("generic_for") \in Symbols /\ Node("global") \in Symbols /\ Node("goto") \in Symbols
    /\ Node("if") \in Symbols /\ Node("index") \in Symbols /\ Node("index_expr") \in Symbols
    /\ Node("is_vararg") \in Symbols /\ Node("label") \in Symbols /\ Node("local") \in Symbols
    /\ Node("local_function") \in Symbols /\ Node("method") \in Symbols /\ Node("method_call") \in Symbols
    /\ Node("name") \in Symbols /\ Node("name_key") \in Symbols /\ Node("numeric_for") \in Symbols
    /\ Node("one_value") \in Symbols /\ Node("param") \in Symbols /\ Node("part") \in Symbols
    /\ Node("positional") \in Symbols /\ Node("repeat") \in Symbols /\ Node("return") \in Symbols
    /\ Node("table") \in Symbols /\ Node("while") \in Symbols
    /\ Expect("if") \in Symbols /\ Expect("then") \in Symbols /\ Expect("else") \in Symbols
    /\ Expect("elseif") \in Symbols /\ Expect("end") \in Symbols /\ Expect("do") \in Symbols
    /\ Expect("while") \in Symbols /\ Expect("repeat") \in Symbols /\ Expect("until") \in Symbols
    /\ Expect("for") \in Symbols /\ Expect("in") \in Symbols /\ Expect("function") \in Symbols
    /\ Expect("local") \in Symbols /\ Expect("return") \in Symbols /\ Expect("break") \in Symbols
    /\ Expect("goto") \in Symbols /\ Expect("(") \in Symbols /\ Expect(")") \in Symbols
    /\ Expect("[") \in Symbols /\ Expect("]") \in Symbols /\ Expect(":") \in Symbols
    /\ Expect("::") \in Symbols /\ Expect(".") \in Symbols /\ Expect("...") \in Symbols
    /\ Expect("=") \in Symbols /\ Expect("Name") \in Symbols /\ Expect("const") \in Symbols
    /\ Expect("close") \in Symbols /\ Expect("global") \in Symbols /\ Expect("Literal") \in Symbols
    /\ Expect("String") \in Symbols /\ Expect("eof") \in Symbols /\ Expect("<") \in Symbols
    /\ Expect(">") \in Symbols /\ Expect("*") \in Symbols /\ Expect("-") \in Symbols
    /\ Expect("~") \in Symbols /\ Expect("#") \in Symbols /\ Expect("not") \in Symbols
    /\ Expect(Comma) \in Symbols /\ Expect(SemiMark) \in Symbols /\ Expect(OpenBrace) \in Symbols
    /\ Expect(CloseBrace) \in Symbols
    /\ Climb("none") \in Symbols /\ Climb("unary") \in Symbols /\ Shape("paren") \in Symbols
    /\ Fail("none") \in Symbols /\ Fail("no_variable") \in Symbols
    /\ \A t \in TokenKinds : /\ Expect(t) \in Symbols /\ Climb(t) \in Symbols /\ Node(t) \in Symbols
                             /\ Unop(t) \in Symbols /\ Binop(t) \in Symbols
BY Zenon, ParsesIn, NodesIn, ExpectsIn, WordSymbols

LEMMA Flats ==
    /\ \A a \in Symbols : <<a>> \in Stack /\ \A s \in Stack : <<a>> \o s = Push(a, s)
    /\ \A a, b \in Symbols : <<a, b>> \in Stack /\ \A s \in Stack : <<a, b>> \o s = Push(a, Push(b, s))
    /\ \A a, b, c \in Symbols :
          <<a, b, c>> \in Stack /\ \A s \in Stack : <<a, b, c>> \o s = Push(a, Push(b, Push(c, s)))
    /\ \A a, b, c, d \in Symbols :
          <<a, b, c, d>> \in Stack /\ \A s \in Stack : <<a, b, c,
              d>> \o s = Push(a, Push(b, Push(c, Push(d, s))))
    /\ \A a, b, c, d, e \in Symbols :
          /\ <<a, b, c, d, e>> \in Stack
          /\ \A s \in Stack : <<a, b, c, d, e>> \o s = Push(a, Push(b, Push(c, Push(d, Push(e, s)))))
BY Zenon, Flat1, Flat2, Flat3, Flat4, Flat5

LEMMA PushIn == \A a \in Symbols, s \in Stack : Push(a, s) \in Stack
BY PushIs

-----------------------------------------------------------------------------
(* Words put on a stack, and words that do not begin with a refusal.       *)
On(u, s) == u \o s

Word1(a)             == <<a>>
Word2(a, b)          == <<a, b>>
Word3(a, b, c)       == <<a, b, c>>
Word4(a, b, c, d)    == <<a, b, c, d>>
Word5(a, b, c, d, e) == <<a, b, c, d, e>>

(* A word that begins with a refusal.                                      *)
Fails(P) == P # <<>> /\ Head(P)[1] = "fail"
Goes(b)  == b[1] # "fail"

LEMMA OnIs ==
    /\ \A u, v : u \in Stack /\ v \in Stack => On(u, v) \in Stack
    /\ \A u, v, s : u \in Stack /\ v \in Stack /\ s \in Stack => On(On(u, v), s) = On(u, On(v, s))
    /\ <<>> \in Stack /\ \A s : s \in Stack => On(<<>>, s) = s
    /\ \A a, s : a \in Symbols /\ s \in Stack => Push(a, s) \in Stack
<1>1. /\ \A u, v \in Stack : u \o v \in Stack
      /\ \A u, v, s \in Stack : (u \o v) \o s = u \o (v \o s)
      /\ <<>> \in Stack /\ \A s \in Stack : <<>> \o s = s
  BY Assoc, Flat0
<1> QED BY Zenon, <1>1, PushIn DEF On

LEMMA WordsIn ==
    /\ \A a : a \in Symbols => Word1(a) \in Stack
    /\ \A a, b : a \in Symbols /\ b \in Symbols => Word2(a, b) \in Stack
    /\ \A a, b, c : a \in Symbols /\ b \in Symbols /\ c \in Symbols => Word3(a, b, c) \in Stack
    /\ \A a, b, c, d : a \in Symbols /\ b \in Symbols /\ c \in Symbols /\ d \in Symbols
         => Word4(a, b, c, d) \in Stack
    /\ \A a, b, c, d, e : a \in Symbols /\ b \in Symbols /\ c \in Symbols /\ d \in Symbols /\ e \in Symbols
                          => Word5(a, b, c, d, e) \in Stack
BY Zenon, Flats DEF Word1, Word2, Word3, Word4, Word5

LEMMA WordsOn ==
    /\ \A a, s : a \in Symbols /\ s \in Stack => On(Word1(a), s) = Push(a, s)
    /\ \A a, b, s : a \in Symbols /\ b \in Symbols /\ s \in Stack
         => On(Word2(a, b), s) = Push(a, Push(b, s))
    /\ \A a, b, c, s : a \in Symbols /\ b \in Symbols /\ c \in Symbols /\ s \in Stack
                       => On(Word3(a, b, c), s) = Push(a, Push(b, Push(c, s)))
    /\ \A a, b, c, d, s : a \in Symbols /\ b \in Symbols /\ c \in Symbols /\ d \in Symbols /\ s \in Stack
                          => On(Word4(a, b, c, d), s) = Push(a, Push(b, Push(c, Push(d, s))))
    /\ \A a, b, c, d, e, s : a \in Symbols /\ b \in Symbols /\ c \in Symbols /\ d \in Symbols
         /\ e \in Symbols /\ s \in Stack
                             => On(Word5(a, b, c, d, e), s) = Push(a, Push(b, Push(c, Push(d, Push(e, s)))))
<1>1. ASSUME NEW s \in Stack, NEW a \in Symbols PROVE On(Word1(a), s) = Push(a, s)
  BY Zenon, Flat1 DEF On, Word1
<1>2. ASSUME NEW s \in Stack, NEW a \in Symbols, NEW b \in Symbols
                 PROVE On(Word2(a, b), s) = Push(a, Push(b, s))
  BY Zenon, Flat2 DEF On, Word2
<1>3. ASSUME NEW s \in Stack, NEW a \in Symbols, NEW b \in Symbols, NEW c \in Symbols
      PROVE On(Word3(a, b, c), s) = Push(a, Push(b, Push(c, s)))
  <2>1. <<a, b, c>> \o s = Push(a, Push(b, Push(c, s)))
    BY Flat3
  <2> QED BY Zenon, <2>1 DEF On, Word3
<1>4. ASSUME NEW s \in Stack, NEW a \in Symbols, NEW b \in Symbols, NEW c \in Symbols, NEW d \in Symbols
      PROVE On(Word4(a, b, c, d), s) = Push(a, Push(b, Push(c, Push(d, s))))
  <2>1. <<a, b, c, d>> \o s = Push(a, Push(b, Push(c, Push(d, s))))
    BY Flat4
  <2> QED BY Zenon, <2>1 DEF On, Word4
<1>5. ASSUME NEW s \in Stack, NEW a \in Symbols, NEW b \in Symbols, NEW c \in Symbols, NEW d \in Symbols,
                 NEW e \in Symbols
      PROVE On(Word5(a, b, c, d, e), s) = Push(a, Push(b, Push(c, Push(d, Push(e, s)))))
  <2>1. <<a, b, c, d, e>> \o s = Push(a, Push(b, Push(c, Push(d, Push(e, s)))))
    BY Flat5
  <2> QED BY Zenon, <2>1 DEF On, Word5
<1> QED BY <1>1, <1>2, <1>3, <1>4, <1>5

LEMMA ExprOn == Expression \in Stack /\ \A s : s \in Stack
    => On(Expression, s) = Push(Parse("unary"), Push(Climb("none"), s))
<1>1. Expression = Word2(Parse("unary"), Climb("none"))
  BY DEF Expression, Operand, Word2
<1> QED BY <1>1, WordsIn, WordsOn, SymbolsIn

-----------------------------------------------------------------------------
(* What runs by a rule, symbol by symbol: a token that fits is dropped, a  *)
(* node is completed, a procedure is replaced by what its rule says.       *)
(* What a machine has beside its input and its stack.                      *)
Regs == [tree : Stack, last : Vocabulary]
M(i, s, r) == Mach(i, s, r.tree, r.last)

ReadBy(R, i, s, r)  == R[M(i, s, r)]
RuleAt(rule, a, i, r) == rule[a, Head(i), r.last]
Kind(a)             == a[1]

(* After a node, after a token, and after a shape.                         *)
Done(r, a)   == [tree |-> Append(r.tree, a), last |-> a[2]]
Spoke(r, u)  == [tree |-> r.tree, last |-> IF u = ")" THEN r.last ELSE "none"]
Shaped(r, v) == [tree |-> r.tree, last |-> v]

LEMMA RegsIn ==
    /\ \A r, a : r \in Regs /\ a \in Symbols => Done(r, a) \in Regs /\ Done(r, a).last = a[2]
         /\ Done(r, a).tree = Append(r.tree, a)
    /\ \A r, u : r \in Regs => Spoke(r, u) \in Regs /\ Spoke(r, u).tree = r.tree
    /\ \A r, v : r \in Regs /\ v \in Vocabulary => Shaped(r, v) \in Regs /\ Shaped(r, v).last = v
         /\ Shaped(r, v).tree = r.tree
    /\ \A r : r \in Regs => r.tree \in Stack /\ r.last \in Vocabulary
<1>1. ASSUME NEW r \in Regs, NEW a \in Symbols PROVE Append(r.tree, a) \in Stack /\ a[2] \in Vocabulary
  BY AppendProperties DEF Regs, Stack, Symbols
<1>2. ASSUME NEW r \in Regs, NEW a \in Symbols
      PROVE  Done(r, a) \in Regs /\ Done(r, a).last = a[2] /\ Done(r, a).tree = Append(r.tree, a)
  BY <1>1 DEF Regs, Done
<1>3. ASSUME NEW r \in Regs, NEW u PROVE Spoke(r, u) \in Regs /\ Spoke(r, u).tree = r.tree
  BY NoneIn DEF Regs, Spoke
<1>4. ASSUME NEW r \in Regs, NEW v \in Vocabulary
      PROVE  Shaped(r, v) \in Regs /\ Shaped(r, v).last = v /\ Shaped(r, v).tree = r.tree
  BY DEF Regs, Shaped
<1>5. \A r : r \in Regs => r.tree \in Stack /\ r.last \in Vocabulary
  BY DEF Regs
<1> QED BY <1>2, <1>3, <1>4, <1>5

LEMMA MIs ==
    ASSUME NEW i \in Tokens55, NEW s \in Stack, NEW r \in Regs
    PROVE  /\ M(i, s, r) \in Machines
           /\ M(i, s, r).input = i /\ M(i, s, r).todo = s /\ M(i, s, r).tree = r.tree
                /\ M(i, s, r).last = r.last
BY MachIn, RegsIn DEF M

(* What runs by a rule does, symbol by symbol. *)
LEMMA RunGoes ==
    ASSUME NEW rule \in Rules, NEW R, IsRun(R, rule),
           NEW i \in Tokens55, NEW a \in Symbols, NEW s \in Stack, NEW r \in Regs
    PROVE  /\ i = <<>> /\ Reads(a) => ReadBy(R, i, Push(a, s), r) = M(i, Push(a, s), r)
           /\ i # <<>> /\ Kind(a) = "expect" /\ Fits(Head(i), a[2]) =>
                ReadBy(R, i, Push(a, s), r) = ReadBy(R, Tail(i), s, Spoke(r, a[2]))
           /\ i # <<>> /\ Kind(a) = "expect" /\ ~Fits(Head(i), a[2])
                => ReadBy(R, i, Push(a, s), r) = R[Refusal("none")]
           /\ i # <<>> /\ Kind(a) \in {"parse", "climb"} /\ Fails(RuleAt(rule, a, i, r)) =>
                ReadBy(R, i, Push(a, s), r) = R[Start(RuleAt(rule, a, i, r))]
           /\ i # <<>> /\ Kind(a) \in {"parse", "climb"} /\ ~Fails(RuleAt(rule, a, i, r)) =>
                ReadBy(R, i, Push(a, s), r) = ReadBy(R, i, On(RuleAt(rule, a, i, r), s), r)
           /\ Kind(a) = "shape" => ReadBy(R, i, Push(a, s), r) = ReadBy(R, i, s, Shaped(r, a[2]))
           /\ Kind(a) \in {"node", "unary", "binary"}
                => ReadBy(R, i, Push(a, s), r) = ReadBy(R, i, s, Done(r, a))
<1> DEFINE m == M(i, Push(a, s), r)
<1>0. Push(a, s) \in Stack /\ Push(a, s) # <<>> /\ Head(Push(a, s)) = a /\ Tail(Push(a, s)) = s
  BY PushIs
<1>1. /\ m \in Machines /\ m.input = i /\ m.todo = Push(a, s) /\ m.tree = r.tree /\ m.last = r.last
      /\ m = Mach(i, Push(a, s), r.tree, r.last)
  BY <1>0, MIs DEF M
<1>a. m.todo # <<>> /\ Head(m.todo) = a /\ Tail(m.todo) = s
  BY <1>0, <1>1
<1>5. Step(m, rule[a, Head(i), r.last]) = Step(Mach(i, Push(a, s), r.tree, r.last),
          rule[a, Head(i), r.last])
  BY <1>1
<1> HIDE DEF m
<1>2. R[m] = IF ~Running(m) THEN m ELSE R[Does(rule, m)]
  BY <1>1 DEF IsRun
<1>3. Running(m) <=> a[1] # "fail" /\ ~(Reads(a) /\ i = <<>>)
  BY <1>a, <1>1 DEF Running, Ended, Refused, Waiting
<1>4. Does(rule, m) = Step(Mach(i, Push(a, s), r.tree, r.last), rule[a, Head(i), r.last])
  BY <1>a, <1>1, <1>5, Zenon DEF Does
<1>6. ASSUME i = <<>>, Reads(a) PROVE R[m] = m
  BY <1>2, <1>3, <1>6
<1>7. ASSUME i # <<>>, a[1] = "expect" PROVE R[m] = R[Does(rule, m)]
                 /\ Does(rule, m) = IF Fits(Head(i), a[2]) THEN M(Tail(i), s,
                 Spoke(r, a[2])) ELSE Refusal("none")
  <2>1. R[m] = R[Does(rule, m)]
    BY <1>2, <1>3, <1>7
  <2>2. Does(rule, m) = IF Fits(Head(i), a[2]) THEN Mach(Tail(i), s, r.tree,
            IF a[2] = ")" THEN r.last ELSE "none") ELSE Refusal("none")
    BY <1>4, <1>7, StepExpect
  <2>3. M(Tail(i), s, Spoke(r, a[2])) = Mach(Tail(i), s, r.tree, IF a[2] = ")" THEN r.last ELSE "none")
    BY DEF M, Spoke
  <2> QED BY <2>1, <2>2, <2>3
<1>8. ASSUME i # <<>>, a[1] \in {"parse", "climb"}
      PROVE  R[m] = IF Fails(rule[a, Head(i), r.last]) THEN R[Start(rule[a, Head(i), r.last])]
                    ELSE R[M(i, On(rule[a, Head(i), r.last], s), r)]
  <2>1. R[m] = R[Does(rule, m)]
    BY <1>2, <1>3, <1>8
  <2>2. Does(rule, m) = IF rule[a, Head(i), r.last] # <<>> /\ Head(rule[a, Head(i), r.last])[1] = "fail"
                        THEN Start(rule[a, Head(i), r.last]) ELSE Mach(i, rule[a, Head(i), r.last] \o s,
                            r.tree, r.last)
    <3> DEFINE does == rule[a, Head(i), r.last]
               tree == r.tree
               x == r.last
    <3>1. Step(Mach(i, Push(a, s), tree, x), does) = IF does # <<>>
              /\ Head(does)[1] = "fail" THEN Start(does)
                                                     ELSE Mach(i, does \o s, tree, x)
      <4> HIDE DEF does, tree, x
      <4> QED BY <1>8, StepDoes
    <3> QED BY Zenon, <1>4, <3>1
  <2> QED BY Zenon, <2>1, <2>2 DEF Fails, On, M
<1>9. ASSUME a[1] = "shape" PROVE R[m] = R[M(i, s, Shaped(r, a[2]))]
  <2>1. R[m] = R[Does(rule, m)]
    BY <1>2, <1>3, <1>9 DEF Reads
  <2>2. Does(rule, m) = Mach(i, s, r.tree, a[2])
    <3> DEFINE does == rule[a, Head(i), r.last]
               tree == r.tree
               x == r.last
    <3>1. Step(Mach(i, Push(a, s), tree, x), does) = Mach(i, s, tree, a[2])
      <4> HIDE DEF does, tree, x
      <4> QED BY <1>9, StepShape
    <3> QED BY Zenon, <1>4, <3>1
  <2>3. M(i, s, Shaped(r, a[2])) = Mach(i, s, r.tree, a[2])
    BY DEF M, Shaped
  <2> QED BY Zenon, <2>1, <2>2, <2>3
<1>10. ASSUME a[1] \in {"node", "unary", "binary"} PROVE R[m] = R[M(i, s, Done(r, a))]
  <2>1. R[m] = R[Does(rule, m)]
    BY <1>2, <1>3, <1>10 DEF Reads
  <2>2. Does(rule, m) = Mach(i, s, Append(r.tree, a), a[2])
    <3> DEFINE does == rule[a, Head(i), r.last]
               tree == r.tree
               x == r.last
    <3>1. Step(Mach(i, Push(a, s), tree, x), does) = Mach(i, s, Append(tree, a), a[2])
      <4> HIDE DEF does, tree, x
      <4> QED BY <1>10, StepNode
    <3> QED BY Zenon, <1>4, <3>1
  <2>3. M(i, s, Done(r, a)) = Mach(i, s, Append(r.tree, a), a[2])
    BY DEF M, Done
  <2> QED BY Zenon, <2>1, <2>2, <2>3
<1>11. i = <<>> /\ Reads(a) => ReadBy(R, i, Push(a, s), r) = M(i, Push(a, s), r)
  BY Zenon, <1>6 DEF m, ReadBy
<1>12. /\ i # <<>> /\ Kind(a) = "expect" /\ Fits(Head(i), a[2]) =>
            ReadBy(R, i, Push(a, s), r) = ReadBy(R, Tail(i), s, Spoke(r, a[2]))
       /\ i # <<>> /\ Kind(a) = "expect" /\ ~Fits(Head(i), a[2])
            => ReadBy(R, i, Push(a, s), r) = R[Refusal("none")]
  BY Zenon, <1>7 DEF m, ReadBy, Kind
<1>13. /\ i # <<>> /\ Kind(a) \in {"parse", "climb"} /\ Fails(RuleAt(rule, a, i, r)) =>
            ReadBy(R, i, Push(a, s), r) = R[Start(RuleAt(rule, a, i, r))]
       /\ i # <<>> /\ Kind(a) \in {"parse", "climb"} /\ ~Fails(RuleAt(rule, a, i, r)) =>
            ReadBy(R, i, Push(a, s), r) = ReadBy(R, i, On(RuleAt(rule, a, i, r), s), r)
  BY Zenon, <1>8 DEF m, ReadBy, Kind, RuleAt
<1>14. Kind(a) = "shape" => ReadBy(R, i, Push(a, s), r) = ReadBy(R, i, s, Shaped(r, a[2]))
  BY Zenon, <1>9 DEF m, ReadBy, Kind
<1>15. Kind(a) \in {"node", "unary", "binary"} => ReadBy(R, i, Push(a, s), r) = ReadBy(R, i, s, Done(r, a))
  BY Zenon, <1>10 DEF m, ReadBy, Kind
<1> QED BY <1>11, <1>12, <1>13, <1>14, <1>15

(* A run ends where a token is needed and none is left.                    *)
LEMMA RunRests ==
    ASSUME NEW rule \in Rules, NEW R, IsRun(R, rule)
    PROVE  /\ \A i \in Tokens55, r \in Regs : R[M(i, <<>>, r)] = M(i, <<>>, r)
           /\ \A why \in Vocabulary : R[Start(Word1(Fail(why)))] = Refusal(why)
                /\ R[Refusal(why)] = Refusal(why)
<1>1. ASSUME NEW i \in Tokens55, NEW r \in Regs PROVE R[M(i, <<>>, r)] = M(i, <<>>, r)
  <2>1. M(i, <<>>, r) \in Machines /\ M(i, <<>>, r).todo = <<>>
    BY MIs, Flat0
  <2> QED BY <2>1 DEF IsRun, Running, Ended
<1>2. ASSUME NEW why \in Vocabulary PROVE R[Start(Word1(Fail(why)))] = Refusal(why)
                 /\ R[Refusal(why)] = Refusal(why)
  <2>1. Refusal(why) \in Machines /\ Refusal(why) = Start(Word1(Fail(why)))
    BY RefusalIn DEF Refusal, Word1
  <2>2. Refused(Refusal(why))
    BY DEF Refusal, Refused, Ended, Start, Fail
  <2> QED BY <2>1, <2>2 DEF IsRun, Running
<1> QED BY <1>1, <1>2

-----------------------------------------------------------------------------
(* The two readers, valua's parser and Lua 5.5's, as such runs.            *)
LEMMA GoesAre ==
    \A w : /\ Goes(Expect(w)) /\ Goes(Parse(w)) /\ Goes(Climb(w)) /\ Goes(Node(w))
           /\ Goes(Shape(w)) /\ Goes(Unop(w)) /\ Goes(Binop(w))
BY DEF Goes, Expect, Parse, Climb, Node, Shape, Unop, Binop

LEMMA GoesOn ==
    \A P, b, w : P \in Stack /\ b \in Symbols /\ w \in Stack /\ Goes(b) /\ On(P, <<>>) = Push(b, w)
        => ~Fails(P)
<1> SUFFICES ASSUME NEW P \in Stack, NEW b \in Symbols, NEW w \in Stack, Goes(b), On(P, <<>>) = Push(b, w),
                        P # <<>>
             PROVE  Head(P)[1] # "fail"
  BY DEF Fails
<1>1. On(P, <<>>) = Push(Head(P), Tail(P) \o <<>>) /\ Head(P) \in Symbols /\ Tail(P) \o <<>> \in Stack
  <2>1. Head(P) \in Symbols /\ Tail(P) \in Stack
    BY HeadTailProperties DEF Stack
  <2> QED BY <2>1, PopFront, Flat0, Assoc DEF On
<1>2. Head(P) = b
  <2>1. Head(Push(b, w)) = b
    BY PushIs
  <2>2. Head(Push(Head(P), Tail(P) \o <<>>)) = Head(P)
    BY <1>1, PushIs
  <2> QED BY <1>1, <2>1, <2>2
<1> QED BY <1>2 DEF Goes

(* A word: a sequence of symbols that can be taken apart from the front.   *)
LEMMA WordRules ==
    /\ \A a : a \in Symbols => Word1(a) = Push(a, <<>>)
    /\ \A a, b : a \in Symbols /\ b \in Symbols => Word2(a, b) = Push(a, Push(b, <<>>))
    /\ \A a, b, c : a \in Symbols /\ b \in Symbols /\ c \in Symbols
         => Word3(a, b, c) = Push(a, Push(b, Push(c, <<>>)))
    /\ \A a, b, c, d : a \in Symbols /\ b \in Symbols /\ c \in Symbols /\ d \in Symbols
                       => Word4(a, b, c, d) = Push(a, Push(b, Push(c, Push(d, <<>>))))
    /\ \A a, b, c, d, e : a \in Symbols /\ b \in Symbols /\ c \in Symbols /\ d \in Symbols /\ e \in Symbols
                          => Word5(a, b, c, d, e) = Push(a, Push(b, Push(c, Push(d, Push(e, <<>>)))))
    /\ \A a, w, s : a \in Symbols /\ w \in Stack /\ s \in Stack => On(Push(a, w), s) = Push(a, On(w, s))
    /\ <<>> \in Stack /\ \A s : s \in Stack => On(<<>>, s) = s
    /\ \A a, s : a \in Symbols /\ s \in Stack => Push(a, s) \in Stack
    /\ \A a, s : a \in Symbols /\ s \in Stack /\ Goes(a) => ~Fails(Push(a, s))
<1>1. \A P : P \in Stack => On(P, <<>>) = P
  BY ConcatEmptySeq DEF On, Stack
<1>2. \A a, w, s : a \in Symbols /\ w \in Stack /\ s \in Stack => On(Push(a, w), s) = Push(a, On(w, s))
  <2>1. \A a, s : a \in Symbols /\ s \in Stack => On(Word1(a), s) = Push(a, s) /\ Word1(a) \in Stack
    BY WordsOn, WordsIn
  <2> QED BY <2>1, OnIs
<1>3. \A a, s : a \in Symbols /\ s \in Stack /\ Goes(a) => ~Fails(Push(a, s))
  BY PushIs DEF Fails, Goes
<1>4. /\ \A a : a \in Symbols => Word1(a) = Push(a, <<>>)
      /\ \A a, b : a \in Symbols /\ b \in Symbols => Word2(a, b) = Push(a, Push(b, <<>>))
      /\ \A a, b, c : a \in Symbols /\ b \in Symbols /\ c \in Symbols
           => Word3(a, b, c) = Push(a, Push(b, Push(c, <<>>)))
  BY <1>1, WordsOn, WordsIn, Flat0
<1>5. /\ \A a, b, c, d : a \in Symbols /\ b \in Symbols /\ c \in Symbols /\ d \in Symbols
                       => Word4(a, b, c, d) = Push(a, Push(b, Push(c, Push(d, <<>>))))
      /\ \A a, b, c, d, e : a \in Symbols /\ b \in Symbols /\ c \in Symbols /\ d \in Symbols
           /\ e \in Symbols
                          => Word5(a, b, c, d, e) = Push(a, Push(b, Push(c, Push(d, Push(e, <<>>)))))
  BY <1>1, WordsOn, WordsIn, Flat0
<1> QED BY Zenon, <1>2, <1>3, <1>4, <1>5, OnIs

LEMMA ConstCloseIn == "const" \in TokenKinds /\ "close" \in TokenKinds /\ "String" \in TokenKinds
    /\ Node("String") \in Symbols
BY PlainAre, PlainIn, WordSymbols

-----------------------------------------------------------------------------
OursRule == [z \in Symbols \X Vocabulary \X Vocabulary |-> ParserRule(z[1], z[2], z[3])]
LuasRule == [z \in Symbols \X Vocabulary \X Vocabulary |-> Lua55!LuaRule(z[1], z[2], z[3])]

ReadOurs(i, s, r) == RunParser[M(i, s, r)]
ReadLua(i, s, r)  == RunLua55[M(i, s, r)]

(* Reading the tokens i, the stack A comes to what the stack B comes to, or is *)
(* refused, whatever has been read before.                                 *)
OursTo(i, A, B) == \A r : r \in Regs => ReadOurs(i, A, r) = ReadOurs(i, B, r)
OursNo(i, A)    == \A r : r \in Regs => ReadOurs(i, A, r) = Refusal("none")
LuaTo(i, A, B)  == \A r : r \in Regs => ReadLua(i, A, r) = ReadLua(i, B, r)
LuaNo(i, A)     == \A r : r \in Regs => ReadLua(i, A, r) = Refusal("none")

LEMMA StepAlone ==
    ASSUME NEW m \in Machines, Running(m), NEW d, NEW e, d # e => Head(m.todo)[1] \notin {"parse", "climb"}
    PROVE  Step(m, d) = Step(m, e)
BY DEF Step

(* Each reader is a run by its rule.                                       *)
LEMMA OursRuns == ASSUME OursRule \in Rules PROVE IsRun(RunParser, OursRule)
<1>1. ASSUME NEW m \in Machines, Running(m)
      PROVE  Step(m, ParserRule(Head(m.todo), Head(m.input), m.last)) = Does(OursRule, m)
  <2>1. Head(m.todo)[1] \in {"parse", "climb"} =>
          OursRule[Head(m.todo), Head(m.input), m.last] = ParserRule(Head(m.todo), Head(m.input), m.last)
    BY <1>1, RunningIs, MachIs DEF OursRule
  <2> QED BY <1>1, <2>1, StepAlone DEF Does
<1>2. PICK f : f = [m \in Machines |-> IF ~Running(m) THEN m ELSE f[Does(OursRule, m)]]
  BY RunExists
<1>3. [m \in Machines |-> IF ~Running(m) THEN m ELSE f[Does(OursRule, m)]] =
      [m \in Machines |-> IF ~Running(m) THEN m ELSE f[Step(m,
          ParserRule(Head(m.todo), Head(m.input), m.last))]]
  BY <1>1
<1>4. RunParser = [m \in Machines |-> IF ~Running(m) THEN m
                                      ELSE RunParser[Step(m, ParserRule(Head(m.todo), Head(m.input),
                                          m.last))]]
  BY <1>2, <1>3 DEF RunParser
<1>5. ASSUME NEW m \in Machines PROVE RunParser[m] = IF ~Running(m) THEN m ELSE RunParser[Does(OursRule, m)]
  BY <1>1, <1>4
<1> QED BY <1>5 DEF IsRun

LEMMA LuaRuns == ASSUME LuasRule \in Rules PROVE IsRun(RunLua55, LuasRule)
<1>1. ASSUME NEW m \in Machines, Running(m)
      PROVE  Step(m, Lua55!LuaRule(Head(m.todo), Head(m.input), m.last)) = Does(LuasRule, m)
  <2>1. Head(m.todo)[1] \in {"parse", "climb"} =>
          LuasRule[Head(m.todo), Head(m.input), m.last] = Lua55!LuaRule(Head(m.todo), Head(m.input), m.last)
    BY <1>1, RunningIs, MachIs DEF LuasRule
  <2> QED BY <1>1, <2>1, StepAlone DEF Does
<1>2. PICK f : f = [m \in Machines |-> IF ~Running(m) THEN m ELSE f[Does(LuasRule, m)]]
  BY RunExists
<1>3. [m \in Machines |-> IF ~Running(m) THEN m ELSE f[Does(LuasRule, m)]] =
      [m \in Machines |-> IF ~Running(m) THEN m ELSE f[Step(m,
          Lua55!LuaRule(Head(m.todo), Head(m.input), m.last))]]
  BY <1>1
<1>4. RunLua55 = [m \in Machines |-> IF ~Running(m) THEN m
                                     ELSE RunLua55[Step(m, Lua55!LuaRule(Head(m.todo), Head(m.input),
                                         m.last))]]
  BY <1>2, <1>3 DEF RunLua55
<1>5. ASSUME NEW m \in Machines PROVE RunLua55[m] = IF ~Running(m) THEN m ELSE RunLua55[Does(LuasRule, m)]
  BY <1>1, <1>4
<1> QED BY <1>5 DEF IsRun

-----------------------------------------------------------------------------
(* The two grammars, procedure by procedure and token by token, as the     *)
(* words that each procedure pushes: valua's first, then Lua's.            *)
LEMMA OursBlockIs ==
    \A t :
        /\ t \in BlockEnds => ParseBlock(t) = <<>>
        /\ t = SemiMark => ParseBlock(t) = Word2(Expect(SemiMark), Parse("block"))
        /\ t = "return" => ParseBlock(t) = On(Word3(Expect("return"), Parse("values"), Node("return")),
             Word1(Parse("semicolon")))
        /\ (t \notin BlockEnds /\ t # SemiMark /\ t # "return")
             => ParseBlock(t) = Word2(Parse("statement"), Parse("block"))
BY Zenon DEF ParseBlock, Expression, Operand, ParseSuffixed, ExprList, ParseTable, ParseReturn, LocalNames,
   FunctionBody, ParseIf, On, Word1, Word2, Word3, Word4, Word5, Comma, SemiMark, OpenBrace, CloseBrace,
   BlockEnds, Names, Simple, UnaryOps

LEMMA OursRestIs ==
    \A t :
        /\ TRUE => Rest = <<>>
BY Zenon DEF Rest, Expression, Operand, ParseSuffixed, ExprList, ParseTable, ParseReturn, LocalNames,
   FunctionBody, ParseIf, On, Word1, Word2, Word3, Word4, Word5, Comma, SemiMark, OpenBrace, CloseBrace,
   BlockEnds, Names, Simple, UnaryOps

LEMMA OursSemicolonIs ==
    \A t :
        /\ t = SemiMark => Semicolon(t) = Word1(Expect(SemiMark))
        /\ t # SemiMark => Semicolon(t) = <<>>
BY Zenon DEF Semicolon, Expression, Operand, ParseSuffixed, ExprList, ParseTable, ParseReturn, LocalNames,
   FunctionBody, ParseIf, On, Word1, Word2, Word3, Word4, Word5, Comma, SemiMark, OpenBrace, CloseBrace,
   BlockEnds, Names, Simple, UnaryOps

LEMMA OursValuesIs ==
    \A t :
        /\ (t \in BlockEnds \/ t = SemiMark) => Values(t) = <<>>
        /\ (t \notin BlockEnds /\ t # SemiMark)
             => Values(t) = On(Word2(Parse("unary"), Climb("none")), Word1(Parse("more_exprs")))
BY Zenon DEF Values, Expression, Operand, ParseSuffixed, ExprList, ParseTable, ParseReturn, LocalNames,
   FunctionBody, ParseIf, On, Word1, Word2, Word3, Word4, Word5, Comma, SemiMark, OpenBrace, CloseBrace,
   BlockEnds, Names, Simple, UnaryOps

LEMMA OursStatementIs ==
    \A t :
        /\ t = "local" => ParseStatement(t) = Word2(Expect("local"), Parse("local"))
        /\ t = "function" => ParseStatement(t) = On(On(Word3(Expect("function"), Expect("Name"),
             Parse("name_parts")),
             Word5(Expect("("), Parse("params"), Expect(")"), Parse("block"), Expect("end"))),
             Word1(Node("function_decl")))
        /\ t = "do" => ParseStatement(t) = Word4(Expect("do"), Parse("block"), Expect("end"), Node("do"))
        /\ t = "while" => ParseStatement(t) = On(On(Word1(Expect("while")),
             Word2(Parse("unary"), Climb("none"))),
             Word4(Expect("do"), Parse("block"), Expect("end"), Node("while")))
        /\ t = "repeat" => ParseStatement(t) = On(On(Word3(Expect("repeat"), Parse("block"),
             Expect("until")), Word2(Parse("unary"), Climb("none"))), Word1(Node("repeat")))
        /\ t = "if" => ParseStatement(t) = On(On(Word1(Expect("if")),
             Word2(Parse("unary"), Climb("none"))),
             Word5(Expect("then"), Parse("block"), Parse("else_clauses"), Expect("end"), Node("if")))
        /\ t = "for" => ParseStatement(t) = Word3(Expect("for"), Expect("Name"), Parse("for"))
        /\ t = "goto" => ParseStatement(t) = Word3(Expect("goto"), Expect("Name"), Node("goto"))
        /\ t = "::" => ParseStatement(t) = Word4(Expect("::"), Expect("Name"), Expect("::"), Node("label"))
        /\ t = "break" => ParseStatement(t) = Word2(Expect("break"), Node("break"))
        /\ (t # "local" /\ t # "function" /\ t # "do" /\ t # "while" /\ t # "repeat" /\ t # "if"
             /\ t # "for" /\ t # "goto" /\ t # "::" /\ t # "break")
             => ParseStatement(t) = On(Word2(Parse("primary"), Parse("suffixes")),
             Word1(Parse("assign_or_call")))
BY Zenon DEF ParseStatement, Expression, Operand, ParseSuffixed, ExprList, ParseTable, ParseReturn,
   LocalNames, FunctionBody, ParseIf, On, Word1, Word2, Word3, Word4, Word5, Comma, SemiMark, OpenBrace,
   CloseBrace, BlockEnds, Names, Simple, UnaryOps

LEMMA OursLocalIs ==
    \A t :
        /\ t = "function" => ParseLocal(t) = On(On(Word2(Expect("function"), Expect("Name")),
             Word5(Expect("("), Parse("params"), Expect(")"), Parse("block"), Expect("end"))),
             Word1(Node("local_function")))
        /\ t # "function" => ParseLocal(t) = On(Word3(Expect("Name"), Parse("attribute"),
             Parse("more_names")), Word2(Parse("initializer"), Node("local")))
BY Zenon DEF ParseLocal, Expression, Operand, ParseSuffixed, ExprList, ParseTable, ParseReturn, LocalNames,
   FunctionBody, ParseIf, On, Word1, Word2, Word3, Word4, Word5, Comma, SemiMark, OpenBrace, CloseBrace,
   BlockEnds, Names, Simple, UnaryOps

LEMMA OursMoreNamesIs ==
    \A t :
        /\ t = Comma => MoreNames(t) = On(Word1(Expect(Comma)),
             Word3(Expect("Name"), Parse("attribute"), Parse("more_names")))
        /\ t # Comma => MoreNames(t) = <<>>
BY Zenon DEF MoreNames, Expression, Operand, ParseSuffixed, ExprList, ParseTable, ParseReturn, LocalNames,
   FunctionBody, ParseIf, On, Word1, Word2, Word3, Word4, Word5, Comma, SemiMark, OpenBrace, CloseBrace,
   BlockEnds, Names, Simple, UnaryOps

LEMMA OursInitializerIs ==
    \A t :
        /\ t = "=" => Initializer(t) = On(Word1(Expect("=")),
             On(Word2(Parse("unary"), Climb("none")), Word1(Parse("more_exprs"))))
        /\ t # "=" => Initializer(t) = <<>>
BY Zenon DEF Initializer, Expression, Operand, ParseSuffixed, ExprList, ParseTable, ParseReturn,
   LocalNames, FunctionBody, ParseIf, On, Word1, Word2, Word3, Word4, Word5, Comma, SemiMark, OpenBrace,
   CloseBrace, BlockEnds, Names, Simple, UnaryOps

LEMMA OursAttributeIs ==
    \A t :
        /\ t = "<" => ParseAttribute(t) = Word2(Expect("<"), Parse("attribute_name"))
        /\ t # "<" => ParseAttribute(t) = <<>>
BY Zenon DEF ParseAttribute, Expression, Operand, ParseSuffixed, ExprList, ParseTable, ParseReturn,
   LocalNames, FunctionBody, ParseIf, On, Word1, Word2, Word3, Word4, Word5, Comma, SemiMark, OpenBrace,
   CloseBrace, BlockEnds, Names, Simple, UnaryOps

LEMMA OursAttributeNameIs ==
    \A t :
        /\ t \in {"const", "close"} => AttributeName(t) = Word3(Expect(t), Expect(">"), Node(t))
        /\ (t # "const" /\ t # "close") => AttributeName(t) = Word1(Fail("none"))
BY Zenon DEF AttributeName, Expression, Operand, ParseSuffixed, ExprList, ParseTable, ParseReturn,
   LocalNames, FunctionBody, ParseIf, On, Word1, Word2, Word3, Word4, Word5, Comma, SemiMark, OpenBrace,
   CloseBrace, BlockEnds, Names, Simple, UnaryOps

LEMMA OursNamePartsIs ==
    \A t :
        /\ t = "." => NameParts(t) = Word4(Expect("."), Expect("Name"), Node("part"), Parse("name_parts"))
        /\ t = ":" => NameParts(t) = Word3(Expect(":"), Expect("Name"), Node("method"))
        /\ (t # "." /\ t # ":") => NameParts(t) = <<>>
BY Zenon DEF NameParts, Expression, Operand, ParseSuffixed, ExprList, ParseTable, ParseReturn, LocalNames,
   FunctionBody, ParseIf, On, Word1, Word2, Word3, Word4, Word5, Comma, SemiMark, OpenBrace, CloseBrace,
   BlockEnds, Names, Simple, UnaryOps

LEMMA OursParamsIs ==
    \A t :
        /\ t = ")" => Params(t) = <<>>
        /\ t # ")" => Params(t) = Word1(Parse("param"))
BY Zenon DEF Params, Expression, Operand, ParseSuffixed, ExprList, ParseTable, ParseReturn, LocalNames,
   FunctionBody, ParseIf, On, Word1, Word2, Word3, Word4, Word5, Comma, SemiMark, OpenBrace, CloseBrace,
   BlockEnds, Names, Simple, UnaryOps

LEMMA OursParamIs ==
    \A t :
        /\ t = "..." => Param(t) = Word2(Expect("..."), Node("is_vararg"))
        /\ t # "..." => Param(t) = Word3(Expect("Name"), Node("param"), Parse("more_params"))
BY Zenon DEF Param, Expression, Operand, ParseSuffixed, ExprList, ParseTable, ParseReturn, LocalNames,
   FunctionBody, ParseIf, On, Word1, Word2, Word3, Word4, Word5, Comma, SemiMark, OpenBrace, CloseBrace,
   BlockEnds, Names, Simple, UnaryOps

LEMMA OursMoreParamsIs ==
    \A t :
        /\ t = Comma => MoreParams(t) = Word2(Expect(Comma), Parse("param"))
        /\ t # Comma => MoreParams(t) = <<>>
BY Zenon DEF MoreParams, Expression, Operand, ParseSuffixed, ExprList, ParseTable, ParseReturn, LocalNames,
   FunctionBody, ParseIf, On, Word1, Word2, Word3, Word4, Word5, Comma, SemiMark, OpenBrace, CloseBrace,
   BlockEnds, Names, Simple, UnaryOps

LEMMA OursElseClausesIs ==
    \A t :
        /\ t = "elseif" => ElseClauses(t) = On(On(Word1(Expect("elseif")),
             Word2(Parse("unary"), Climb("none"))),
             Word4(Expect("then"), Parse("block"), Node("elseif"), Parse("else_clauses")))
        /\ t = "else" => ElseClauses(t) = Word3(Expect("else"), Parse("block"), Node("else"))
        /\ (t # "elseif" /\ t # "else") => ElseClauses(t) = <<>>
BY Zenon DEF ElseClauses, Expression, Operand, ParseSuffixed, ExprList, ParseTable, ParseReturn,
   LocalNames, FunctionBody, ParseIf, On, Word1, Word2, Word3, Word4, Word5, Comma, SemiMark, OpenBrace,
   CloseBrace, BlockEnds, Names, Simple, UnaryOps

LEMMA OursForIs ==
    \A t :
        /\ t = "=" => ParseFor(t) = On(On(On(On(Word1(Expect("=")), Word2(Parse("unary"), Climb("none"))),
             Word1(Expect(Comma))), Word2(Parse("unary"), Climb("none"))),
             Word5(Parse("step"), Expect("do"), Parse("block"), Expect("end"), Node("numeric_for")))
        /\ t # "=" => ParseFor(t) = On(On(Word2(Parse("for_names"), Expect("in")),
             On(Word2(Parse("unary"), Climb("none")), Word1(Parse("more_exprs")))),
             Word4(Expect("do"), Parse("block"), Expect("end"), Node("generic_for")))
BY Zenon DEF ParseFor, Expression, Operand, ParseSuffixed, ExprList, ParseTable, ParseReturn, LocalNames,
   FunctionBody, ParseIf, On, Word1, Word2, Word3, Word4, Word5, Comma, SemiMark, OpenBrace, CloseBrace,
   BlockEnds, Names, Simple, UnaryOps

LEMMA OursStepIs ==
    \A t :
        /\ t = Comma => Stride(t) = On(Word1(Expect(Comma)), Word2(Parse("unary"), Climb("none")))
        /\ t # Comma => Stride(t) = <<>>
BY Zenon DEF Stride, Expression, Operand, ParseSuffixed, ExprList, ParseTable, ParseReturn, LocalNames,
   FunctionBody, ParseIf, On, Word1, Word2, Word3, Word4, Word5, Comma, SemiMark, OpenBrace, CloseBrace,
   BlockEnds, Names, Simple, UnaryOps

LEMMA OursForNamesIs ==
    \A t :
        /\ t = Comma => ForNames(t) = Word3(Expect(Comma), Expect("Name"), Parse("for_names"))
        /\ t # Comma => ForNames(t) = <<>>
BY Zenon DEF ForNames, Expression, Operand, ParseSuffixed, ExprList, ParseTable, ParseReturn, LocalNames,
   FunctionBody, ParseIf, On, Word1, Word2, Word3, Word4, Word5, Comma, SemiMark, OpenBrace, CloseBrace,
   BlockEnds, Names, Simple, UnaryOps

LEMMA OursAssignOrCallIs ==
    \A t, x :
        /\ (t = "=" \/ t = Comma) => AssignOrCall(t,
             x) = On(On(Word2(Parse("targets"), Expect("=")),
             On(Word2(Parse("unary"), Climb("none")), Word1(Parse("more_exprs")))), Word1(Node("assign")))
        /\ (t # "=" /\ t # Comma /\ x \in {"call", "method_call"})
             => AssignOrCall(t, x) = Word1(Node("call_statement"))
        /\ (t # "=" /\ t # Comma /\ x \notin {"call", "method_call"})
             => AssignOrCall(t, x) = Word1(Fail("none"))
BY Zenon DEF AssignOrCall, Expression, Operand, ParseSuffixed, ExprList, ParseTable, ParseReturn,
   LocalNames, FunctionBody, ParseIf, On, Word1, Word2, Word3, Word4, Word5, Comma, SemiMark, OpenBrace,
   CloseBrace, BlockEnds, Names, Simple, UnaryOps

LEMMA OursTargetsIs ==
    \A t :
        /\ t = Comma => Targets(t) = On(On(Word1(Expect(Comma)),
             Word2(Parse("primary"), Parse("suffixes"))), Word1(Parse("targets")))
        /\ t # Comma => Targets(t) = <<>>
BY Zenon DEF Targets, Expression, Operand, ParseSuffixed, ExprList, ParseTable, ParseReturn, LocalNames,
   FunctionBody, ParseIf, On, Word1, Word2, Word3, Word4, Word5, Comma, SemiMark, OpenBrace, CloseBrace,
   BlockEnds, Names, Simple, UnaryOps

LEMMA OursMoreExprsIs ==
    \A t :
        /\ t = Comma => MoreExprs(t) = On(Word1(Expect(Comma)),
             On(Word2(Parse("unary"), Climb("none")), Word1(Parse("more_exprs"))))
        /\ t # Comma => MoreExprs(t) = <<>>
BY Zenon DEF MoreExprs, Expression, Operand, ParseSuffixed, ExprList, ParseTable, ParseReturn, LocalNames,
   FunctionBody, ParseIf, On, Word1, Word2, Word3, Word4, Word5, Comma, SemiMark, OpenBrace, CloseBrace,
   BlockEnds, Names, Simple, UnaryOps

LEMMA OursUnaryIs ==
    \A t :
        /\ t \in UnaryOps => ParseUnary(t) = On(On(Word1(Expect(t)),
             Word2(Parse("unary"), Climb("unary"))), Word1(Unop(t)))
        /\ t \notin UnaryOps => ParseUnary(t) = Word2(Parse("primary"), Parse("suffixes"))
BY Zenon DEF ParseUnary, Expression, Operand, ParseSuffixed, ExprList, ParseTable, ParseReturn, LocalNames,
   FunctionBody, ParseIf, On, Word1, Word2, Word3, Word4, Word5, Comma, SemiMark, OpenBrace, CloseBrace,
   BlockEnds, Names, Simple, UnaryOps

LEMMA OursSuffixesIs ==
    \A t :
        /\ t = "." => MoreSuffixes(t) = Word4(Expect("."), Expect("Name"), Node("index"), Parse("suffixes"))
        /\ t = "[" => MoreSuffixes(t) = On(On(Word1(Expect("[")), Word2(Parse("unary"), Climb("none"))),
             Word3(Expect("]"), Node("index_expr"), Parse("suffixes")))
        /\ t = ":" => MoreSuffixes(t) = Word5(Expect(":"), Expect("Name"), Parse("call_args"),
             Node("method_call"), Parse("suffixes"))
        /\ (t = "(" \/ t = "String" \/ t = OpenBrace)
             => MoreSuffixes(t) = Word3(Parse("call_args"), Node("call"), Parse("suffixes"))
        /\ (t # "." /\ t # "[" /\ t # ":" /\ t # "(" /\ t # "String" /\ t # OpenBrace)
             => MoreSuffixes(t) = <<>>
BY Zenon DEF MoreSuffixes, Expression, Operand, ParseSuffixed, ExprList, ParseTable, ParseReturn,
   LocalNames, FunctionBody, ParseIf, On, Word1, Word2, Word3, Word4, Word5, Comma, SemiMark, OpenBrace,
   CloseBrace, BlockEnds, Names, Simple, UnaryOps

LEMMA OursPrimaryIs ==
    \A t :
        /\ t \in Simple => ParsePrimary(t) = Word2(Expect(t), Node(t))
        /\ t \in Names => ParsePrimary(t) = Word2(Expect("Name"), Node("name"))
        /\ t = "(" => ParsePrimary(t) = On(On(Word1(Expect("(")), Word2(Parse("unary"), Climb("none"))),
             Word1(Expect(")")))
        /\ t = OpenBrace => ParsePrimary(t) = Word4(Expect(OpenBrace), Parse("fields"), Expect(CloseBrace),
             Node("table"))
        /\ t = "function" => ParsePrimary(t) = On(On(Word1(Expect("function")),
             Word5(Expect("("), Parse("params"), Expect(")"), Parse("block"), Expect("end"))),
             Word1(Node("function")))
        /\ (t \notin Simple /\ t \notin Names /\ t # "(" /\ t # OpenBrace /\ t # "function")
             => ParsePrimary(t) = Word1(Fail("none"))
BY Zenon DEF ParsePrimary, Expression, Operand, ParseSuffixed, ExprList, ParseTable, ParseReturn,
   LocalNames, FunctionBody, ParseIf, On, Word1, Word2, Word3, Word4, Word5, Comma, SemiMark, OpenBrace,
   CloseBrace, BlockEnds, Names, Simple, UnaryOps

LEMMA OursCallArgsIs ==
    \A t :
        /\ t = "(" => ParseCallArgs(t) = Word3(Expect("("), Parse("args"), Expect(")"))
        /\ t = "String" => ParseCallArgs(t) = Word2(Expect("String"), Node("String"))
        /\ t = OpenBrace => ParseCallArgs(t) = Word4(Expect(OpenBrace), Parse("fields"),
             Expect(CloseBrace), Node("table"))
        /\ (t # "(" /\ t # "String" /\ t # OpenBrace) => ParseCallArgs(t) = Word1(Fail("none"))
BY Zenon DEF ParseCallArgs, Expression, Operand, ParseSuffixed, ExprList, ParseTable, ParseReturn,
   LocalNames, FunctionBody, ParseIf, On, Word1, Word2, Word3, Word4, Word5, Comma, SemiMark, OpenBrace,
   CloseBrace, BlockEnds, Names, Simple, UnaryOps

LEMMA OursArgsIs ==
    \A t :
        /\ t = ")" => Args(t) = <<>>
        /\ t # ")" => Args(t) = On(Word2(Parse("unary"), Climb("none")), Word1(Parse("more_exprs")))
BY Zenon DEF Args, Expression, Operand, ParseSuffixed, ExprList, ParseTable, ParseReturn, LocalNames,
   FunctionBody, ParseIf, On, Word1, Word2, Word3, Word4, Word5, Comma, SemiMark, OpenBrace, CloseBrace,
   BlockEnds, Names, Simple, UnaryOps

LEMMA OursFieldsIs ==
    \A t :
        /\ t = CloseBrace => Fields(t) = <<>>
        /\ t # CloseBrace => Fields(t) = Word2(Parse("field"), Parse("separator"))
BY Zenon DEF Fields, Expression, Operand, ParseSuffixed, ExprList, ParseTable, ParseReturn, LocalNames,
   FunctionBody, ParseIf, On, Word1, Word2, Word3, Word4, Word5, Comma, SemiMark, OpenBrace, CloseBrace,
   BlockEnds, Names, Simple, UnaryOps

LEMMA OursSeparatorIs ==
    \A t :
        /\ (t = Comma \/ t = SemiMark) => Separator(t) = Word2(Expect(t), Parse("fields"))
        /\ (t # Comma /\ t # SemiMark) => Separator(t) = <<>>
BY Zenon DEF Separator, Expression, Operand, ParseSuffixed, ExprList, ParseTable, ParseReturn, LocalNames,
   FunctionBody, ParseIf, On, Word1, Word2, Word3, Word4, Word5, Comma, SemiMark, OpenBrace, CloseBrace,
   BlockEnds, Names, Simple, UnaryOps

LEMMA OursFieldIs ==
    \A t :
        /\ t = "[" => ParseField(t) = On(On(On(On(Word1(Expect("[")),
             Word2(Parse("unary"), Climb("none"))), Word2(Expect("]"), Expect("="))),
             Word2(Parse("unary"), Climb("none"))), Word1(Node("expr_key")))
        /\ t \in Names => ParseField(t) = Word2(Expect("Name"), Parse("named_field"))
        /\ (t \notin Names /\ t # "[")
             => ParseField(t) = On(Word2(Parse("unary"), Climb("none")), Word1(Node("positional")))
BY Zenon DEF ParseField, Expression, Operand, ParseSuffixed, ExprList, ParseTable, ParseReturn, LocalNames,
   FunctionBody, ParseIf, On, Word1, Word2, Word3, Word4, Word5, Comma, SemiMark, OpenBrace, CloseBrace,
   BlockEnds, Names, Simple, UnaryOps

LEMMA OursNamedFieldIs ==
    \A t :
        /\ t = "=" => NamedField(t) = On(On(Word1(Expect("=")), Word2(Parse("unary"), Climb("none"))),
             Word1(Node("name_key")))
        /\ t # "=" => NamedField(t) = Word4(Node("name"), Parse("suffixes"), Climb("none"),
             Node("positional"))
BY Zenon DEF NamedField, Expression, Operand, ParseSuffixed, ExprList, ParseTable, ParseReturn, LocalNames,
   FunctionBody, ParseIf, On, Word1, Word2, Word3, Word4, Word5, Comma, SemiMark, OpenBrace, CloseBrace,
   BlockEnds, Names, Simple, UnaryOps

LEMMA LuaStatlistIs ==
    \A t :
        /\ t \in BlockEnds => Lua55!StatList(t) = <<>>
        /\ t = "return" => Lua55!StatList(t) = Word4(Expect("return"), Parse("retstat"), Node("return"),
             Parse("semicolon"))
        /\ t = SemiMark => Lua55!StatList(t) = Word2(Expect(SemiMark), Parse("statlist"))
        /\ t = "if" => Lua55!StatList(t) = On(On(On(On(Word1(Expect("if")),
             Word2(Parse("subexpr"), Climb("none"))),
             Word5(Expect("then"), Parse("statlist"), Parse("test_then"), Expect("end"), Node("if"))),
             <<>>), Word1(Parse("statlist")))
        /\ t = "while" => Lua55!StatList(t) = On(On(On(On(On(Word1(Expect("while")),
             Word2(Parse("subexpr"), Climb("none"))),
             Word3(Expect("do"), Parse("statlist"), Expect("end"))), Word1(Node("while"))), <<>>),
             Word1(Parse("statlist")))
        /\ t = "do" => Lua55!StatList(t) = On(On(On(Word3(Expect("do"), Parse("statlist"), Expect("end")),
             Word1(Node("do"))), <<>>), Word1(Parse("statlist")))
        /\ t = "for" => Lua55!StatList(t) = On(On(Word3(Expect("for"), Expect("Name"), Parse("forstat")),
             <<>>), Word1(Parse("statlist")))
        /\ t = "repeat" => Lua55!StatList(t) = On(On(On(On(Word3(Expect("repeat"), Parse("statlist"),
             Expect("until")), Word2(Parse("subexpr"), Climb("none"))), Word1(Node("repeat"))), <<>>),
             Word1(Parse("statlist")))
        /\ t = "function" => Lua55!StatList(t) = On(On(On(On(Word3(Expect("function"), Expect("Name"),
             Parse("funcname")), Word5(Expect("("), Parse("parlist"), Expect(")"), Parse("statlist"),
             Expect("end"))), Word1(Node("function_decl"))), <<>>), Word1(Parse("statlist")))
        /\ t = "local" => Lua55!StatList(t) = On(On(Word2(Expect("local"), Parse("localstat")), <<>>),
             Word1(Parse("statlist")))
        /\ t = "::" => Lua55!StatList(t) = On(On(Word4(Expect("::"), Expect("Name"), Expect("::"),
             Node("label")), <<>>), Word1(Parse("statlist")))
        /\ t = "goto" => Lua55!StatList(t) = On(On(Word3(Expect("goto"), Expect("Name"), Node("goto")),
             <<>>), Word1(Parse("statlist")))
        /\ t = "break" => Lua55!StatList(t) = On(On(Word2(Expect("break"), Node("break")), <<>>),
             Word1(Parse("statlist")))
        /\ t = "global" => Lua55!StatList(t) = On(On(Word3(Expect("global"), Node("name"),
             Parse("globalstat")), <<>>), Word1(Parse("statlist")))
        /\ (t \notin BlockEnds /\ t # "return" /\ t # SemiMark /\ t # "if" /\ t # "while" /\ t # "do"
             /\ t # "for" /\ t # "repeat" /\ t # "function" /\ t # "local" /\ t # "::" /\ t # "goto"
             /\ t # "break" /\ t # "global")
             => Lua55!StatList(t) = On(On(On(Word2(Parse("primaryexp"), Parse("suffixedexp")),
             Word1(Parse("exprstat"))), <<>>), Word1(Parse("statlist")))
<1>1. ASSUME NEW t, t \in BlockEnds PROVE Lua55!StatList(t) = <<>>
  BY Zenon, <1>1 DEF Lua55!StatList, Lua55!Statement, Lua55!Expr, Lua55!SubExpr, Lua55!ExpList,
     Lua55!Suffixed, Lua55!Constructor, Lua55!Body, Lua55!ForBody, Lua55!RetStat, Lua55!Assignable,
     Lua55!Calls, Lua55!Operators, Lua55!Prefixes, Lua55!Is51, Lua55!Expect, Lua55!Parse, Lua55!Climb,
     Lua55!Node, Lua55!Shape, Lua55!Fail, Lua55!Unop, Lua55!Binop, Lua55!BlockEnds, Lua55!Names,
     Lua55!Simple, Lua55!UnaryOps, Lua55!LineParen, Expect, Parse, Climb, Node, Shape, Fail, Unop, Binop,
     On, Word1, Word2, Word3, Word4, Word5, Comma, SemiMark, OpenBrace, CloseBrace, BlockEnds, Names,
     Simple, UnaryOps, LineParen
<1>2. ASSUME NEW t, t = "return"
                 PROVE Lua55!StatList(t) = Word4(Expect("return"), Parse("retstat"), Node("return"),
                 Parse("semicolon"))
  BY Zenon, <1>2 DEF Lua55!StatList, Lua55!Statement, Lua55!Expr, Lua55!SubExpr, Lua55!ExpList,
     Lua55!Suffixed, Lua55!Constructor, Lua55!Body, Lua55!ForBody, Lua55!RetStat, Lua55!Assignable,
     Lua55!Calls, Lua55!Operators, Lua55!Prefixes, Lua55!Is51, Lua55!Expect, Lua55!Parse, Lua55!Climb,
     Lua55!Node, Lua55!Shape, Lua55!Fail, Lua55!Unop, Lua55!Binop, Lua55!BlockEnds, Lua55!Names,
     Lua55!Simple, Lua55!UnaryOps, Lua55!LineParen, Expect, Parse, Climb, Node, Shape, Fail, Unop, Binop,
     On, Word1, Word2, Word3, Word4, Word5, Comma, SemiMark, OpenBrace, CloseBrace, BlockEnds, Names,
     Simple, UnaryOps, LineParen
<1>3. ASSUME NEW t, t = SemiMark PROVE Lua55!StatList(t) = Word2(Expect(SemiMark), Parse("statlist"))
  BY Zenon, <1>3 DEF Lua55!StatList, Lua55!Statement, Lua55!Expr, Lua55!SubExpr, Lua55!ExpList,
     Lua55!Suffixed, Lua55!Constructor, Lua55!Body, Lua55!ForBody, Lua55!RetStat, Lua55!Assignable,
     Lua55!Calls, Lua55!Operators, Lua55!Prefixes, Lua55!Is51, Lua55!Expect, Lua55!Parse, Lua55!Climb,
     Lua55!Node, Lua55!Shape, Lua55!Fail, Lua55!Unop, Lua55!Binop, Lua55!BlockEnds, Lua55!Names,
     Lua55!Simple, Lua55!UnaryOps, Lua55!LineParen, Expect, Parse, Climb, Node, Shape, Fail, Unop, Binop,
     On, Word1, Word2, Word3, Word4, Word5, Comma, SemiMark, OpenBrace, CloseBrace, BlockEnds, Names,
     Simple, UnaryOps, LineParen
<1>4. ASSUME NEW t, t = "if" PROVE Lua55!StatList(t) = On(On(On(On(Word1(Expect("if")),
                 Word2(Parse("subexpr"), Climb("none"))),
                 Word5(Expect("then"), Parse("statlist"), Parse("test_then"), Expect("end"), Node("if"))),
                 <<>>), Word1(Parse("statlist")))
  BY Zenon, <1>4 DEF Lua55!StatList, Lua55!Statement, Lua55!Expr, Lua55!SubExpr, Lua55!ExpList,
     Lua55!Suffixed, Lua55!Constructor, Lua55!Body, Lua55!ForBody, Lua55!RetStat, Lua55!Assignable,
     Lua55!Calls, Lua55!Operators, Lua55!Prefixes, Lua55!Is51, Lua55!Expect, Lua55!Parse, Lua55!Climb,
     Lua55!Node, Lua55!Shape, Lua55!Fail, Lua55!Unop, Lua55!Binop, Lua55!BlockEnds, Lua55!Names,
     Lua55!Simple, Lua55!UnaryOps, Lua55!LineParen, Expect, Parse, Climb, Node, Shape, Fail, Unop, Binop,
     On, Word1, Word2, Word3, Word4, Word5, Comma, SemiMark, OpenBrace, CloseBrace, BlockEnds, Names,
     Simple, UnaryOps, LineParen
<1>5. ASSUME NEW t, t = "while"
                 PROVE Lua55!StatList(t) = On(On(On(On(On(Word1(Expect("while")),
                 Word2(Parse("subexpr"), Climb("none"))),
                 Word3(Expect("do"), Parse("statlist"), Expect("end"))), Word1(Node("while"))), <<>>),
                 Word1(Parse("statlist")))
  BY Zenon, <1>5 DEF Lua55!StatList, Lua55!Statement, Lua55!Expr, Lua55!SubExpr, Lua55!ExpList,
     Lua55!Suffixed, Lua55!Constructor, Lua55!Body, Lua55!ForBody, Lua55!RetStat, Lua55!Assignable,
     Lua55!Calls, Lua55!Operators, Lua55!Prefixes, Lua55!Is51, Lua55!Expect, Lua55!Parse, Lua55!Climb,
     Lua55!Node, Lua55!Shape, Lua55!Fail, Lua55!Unop, Lua55!Binop, Lua55!BlockEnds, Lua55!Names,
     Lua55!Simple, Lua55!UnaryOps, Lua55!LineParen, Expect, Parse, Climb, Node, Shape, Fail, Unop, Binop,
     On, Word1, Word2, Word3, Word4, Word5, Comma, SemiMark, OpenBrace, CloseBrace, BlockEnds, Names,
     Simple, UnaryOps, LineParen
<1>6. ASSUME NEW t, t = "do" PROVE Lua55!StatList(t) = On(On(On(Word3(Expect("do"), Parse("statlist"),
                 Expect("end")), Word1(Node("do"))), <<>>), Word1(Parse("statlist")))
  BY Zenon, <1>6 DEF Lua55!StatList, Lua55!Statement, Lua55!Expr, Lua55!SubExpr, Lua55!ExpList,
     Lua55!Suffixed, Lua55!Constructor, Lua55!Body, Lua55!ForBody, Lua55!RetStat, Lua55!Assignable,
     Lua55!Calls, Lua55!Operators, Lua55!Prefixes, Lua55!Is51, Lua55!Expect, Lua55!Parse, Lua55!Climb,
     Lua55!Node, Lua55!Shape, Lua55!Fail, Lua55!Unop, Lua55!Binop, Lua55!BlockEnds, Lua55!Names,
     Lua55!Simple, Lua55!UnaryOps, Lua55!LineParen, Expect, Parse, Climb, Node, Shape, Fail, Unop, Binop,
     On, Word1, Word2, Word3, Word4, Word5, Comma, SemiMark, OpenBrace, CloseBrace, BlockEnds, Names,
     Simple, UnaryOps, LineParen
<1>7. ASSUME NEW t, t = "for" PROVE Lua55!StatList(t) = On(On(Word3(Expect("for"), Expect("Name"),
                 Parse("forstat")), <<>>), Word1(Parse("statlist")))
  BY Zenon, <1>7 DEF Lua55!StatList, Lua55!Statement, Lua55!Expr, Lua55!SubExpr, Lua55!ExpList,
     Lua55!Suffixed, Lua55!Constructor, Lua55!Body, Lua55!ForBody, Lua55!RetStat, Lua55!Assignable,
     Lua55!Calls, Lua55!Operators, Lua55!Prefixes, Lua55!Is51, Lua55!Expect, Lua55!Parse, Lua55!Climb,
     Lua55!Node, Lua55!Shape, Lua55!Fail, Lua55!Unop, Lua55!Binop, Lua55!BlockEnds, Lua55!Names,
     Lua55!Simple, Lua55!UnaryOps, Lua55!LineParen, Expect, Parse, Climb, Node, Shape, Fail, Unop, Binop,
     On, Word1, Word2, Word3, Word4, Word5, Comma, SemiMark, OpenBrace, CloseBrace, BlockEnds, Names,
     Simple, UnaryOps, LineParen
<1>8. ASSUME NEW t, t = "repeat"
                 PROVE Lua55!StatList(t) = On(On(On(On(Word3(Expect("repeat"), Parse("statlist"),
                 Expect("until")), Word2(Parse("subexpr"), Climb("none"))), Word1(Node("repeat"))), <<>>),
                 Word1(Parse("statlist")))
  BY Zenon, <1>8 DEF Lua55!StatList, Lua55!Statement, Lua55!Expr, Lua55!SubExpr, Lua55!ExpList,
     Lua55!Suffixed, Lua55!Constructor, Lua55!Body, Lua55!ForBody, Lua55!RetStat, Lua55!Assignable,
     Lua55!Calls, Lua55!Operators, Lua55!Prefixes, Lua55!Is51, Lua55!Expect, Lua55!Parse, Lua55!Climb,
     Lua55!Node, Lua55!Shape, Lua55!Fail, Lua55!Unop, Lua55!Binop, Lua55!BlockEnds, Lua55!Names,
     Lua55!Simple, Lua55!UnaryOps, Lua55!LineParen, Expect, Parse, Climb, Node, Shape, Fail, Unop, Binop,
     On, Word1, Word2, Word3, Word4, Word5, Comma, SemiMark, OpenBrace, CloseBrace, BlockEnds, Names,
     Simple, UnaryOps, LineParen
<1>9. ASSUME NEW t, t = "function"
                 PROVE Lua55!StatList(t) = On(On(On(On(Word3(Expect("function"), Expect("Name"),
                 Parse("funcname")), Word5(Expect("("), Parse("parlist"), Expect(")"), Parse("statlist"),
                 Expect("end"))), Word1(Node("function_decl"))), <<>>), Word1(Parse("statlist")))
  BY Zenon, <1>9 DEF Lua55!StatList, Lua55!Statement, Lua55!Expr, Lua55!SubExpr, Lua55!ExpList,
     Lua55!Suffixed, Lua55!Constructor, Lua55!Body, Lua55!ForBody, Lua55!RetStat, Lua55!Assignable,
     Lua55!Calls, Lua55!Operators, Lua55!Prefixes, Lua55!Is51, Lua55!Expect, Lua55!Parse, Lua55!Climb,
     Lua55!Node, Lua55!Shape, Lua55!Fail, Lua55!Unop, Lua55!Binop, Lua55!BlockEnds, Lua55!Names,
     Lua55!Simple, Lua55!UnaryOps, Lua55!LineParen, Expect, Parse, Climb, Node, Shape, Fail, Unop, Binop,
     On, Word1, Word2, Word3, Word4, Word5, Comma, SemiMark, OpenBrace, CloseBrace, BlockEnds, Names,
     Simple, UnaryOps, LineParen
<1>10. ASSUME NEW t, t = "local"
                  PROVE Lua55!StatList(t) = On(On(Word2(Expect("local"), Parse("localstat")), <<>>),
                  Word1(Parse("statlist")))
  BY Zenon, <1>10 DEF Lua55!StatList, Lua55!Statement, Lua55!Expr, Lua55!SubExpr, Lua55!ExpList,
     Lua55!Suffixed, Lua55!Constructor, Lua55!Body, Lua55!ForBody, Lua55!RetStat, Lua55!Assignable,
     Lua55!Calls, Lua55!Operators, Lua55!Prefixes, Lua55!Is51, Lua55!Expect, Lua55!Parse, Lua55!Climb,
     Lua55!Node, Lua55!Shape, Lua55!Fail, Lua55!Unop, Lua55!Binop, Lua55!BlockEnds, Lua55!Names,
     Lua55!Simple, Lua55!UnaryOps, Lua55!LineParen, Expect, Parse, Climb, Node, Shape, Fail, Unop, Binop,
     On, Word1, Word2, Word3, Word4, Word5, Comma, SemiMark, OpenBrace, CloseBrace, BlockEnds, Names,
     Simple, UnaryOps, LineParen
<1>11. ASSUME NEW t, t = "::" PROVE Lua55!StatList(t) = On(On(Word4(Expect("::"), Expect("Name"),
                  Expect("::"), Node("label")), <<>>), Word1(Parse("statlist")))
  BY Zenon, <1>11 DEF Lua55!StatList, Lua55!Statement, Lua55!Expr, Lua55!SubExpr, Lua55!ExpList,
     Lua55!Suffixed, Lua55!Constructor, Lua55!Body, Lua55!ForBody, Lua55!RetStat, Lua55!Assignable,
     Lua55!Calls, Lua55!Operators, Lua55!Prefixes, Lua55!Is51, Lua55!Expect, Lua55!Parse, Lua55!Climb,
     Lua55!Node, Lua55!Shape, Lua55!Fail, Lua55!Unop, Lua55!Binop, Lua55!BlockEnds, Lua55!Names,
     Lua55!Simple, Lua55!UnaryOps, Lua55!LineParen, Expect, Parse, Climb, Node, Shape, Fail, Unop, Binop,
     On, Word1, Word2, Word3, Word4, Word5, Comma, SemiMark, OpenBrace, CloseBrace, BlockEnds, Names,
     Simple, UnaryOps, LineParen
<1>12. ASSUME NEW t, t = "goto"
                  PROVE Lua55!StatList(t) = On(On(Word3(Expect("goto"), Expect("Name"), Node("goto")),
                  <<>>), Word1(Parse("statlist")))
  BY Zenon, <1>12 DEF Lua55!StatList, Lua55!Statement, Lua55!Expr, Lua55!SubExpr, Lua55!ExpList,
     Lua55!Suffixed, Lua55!Constructor, Lua55!Body, Lua55!ForBody, Lua55!RetStat, Lua55!Assignable,
     Lua55!Calls, Lua55!Operators, Lua55!Prefixes, Lua55!Is51, Lua55!Expect, Lua55!Parse, Lua55!Climb,
     Lua55!Node, Lua55!Shape, Lua55!Fail, Lua55!Unop, Lua55!Binop, Lua55!BlockEnds, Lua55!Names,
     Lua55!Simple, Lua55!UnaryOps, Lua55!LineParen, Expect, Parse, Climb, Node, Shape, Fail, Unop, Binop,
     On, Word1, Word2, Word3, Word4, Word5, Comma, SemiMark, OpenBrace, CloseBrace, BlockEnds, Names,
     Simple, UnaryOps, LineParen
<1>13. ASSUME NEW t, t = "break"
                  PROVE Lua55!StatList(t) = On(On(Word2(Expect("break"), Node("break")), <<>>),
                  Word1(Parse("statlist")))
  BY Zenon, <1>13 DEF Lua55!StatList, Lua55!Statement, Lua55!Expr, Lua55!SubExpr, Lua55!ExpList,
     Lua55!Suffixed, Lua55!Constructor, Lua55!Body, Lua55!ForBody, Lua55!RetStat, Lua55!Assignable,
     Lua55!Calls, Lua55!Operators, Lua55!Prefixes, Lua55!Is51, Lua55!Expect, Lua55!Parse, Lua55!Climb,
     Lua55!Node, Lua55!Shape, Lua55!Fail, Lua55!Unop, Lua55!Binop, Lua55!BlockEnds, Lua55!Names,
     Lua55!Simple, Lua55!UnaryOps, Lua55!LineParen, Expect, Parse, Climb, Node, Shape, Fail, Unop, Binop,
     On, Word1, Word2, Word3, Word4, Word5, Comma, SemiMark, OpenBrace, CloseBrace, BlockEnds, Names,
     Simple, UnaryOps, LineParen
<1>14. ASSUME NEW t, t = "global"
                  PROVE Lua55!StatList(t) = On(On(Word3(Expect("global"), Node("name"),
                  Parse("globalstat")), <<>>), Word1(Parse("statlist")))
  BY Zenon, <1>14 DEF Lua55!StatList, Lua55!Statement, Lua55!Expr, Lua55!SubExpr, Lua55!ExpList,
     Lua55!Suffixed, Lua55!Constructor, Lua55!Body, Lua55!ForBody, Lua55!RetStat, Lua55!Assignable,
     Lua55!Calls, Lua55!Operators, Lua55!Prefixes, Lua55!Is51, Lua55!Expect, Lua55!Parse, Lua55!Climb,
     Lua55!Node, Lua55!Shape, Lua55!Fail, Lua55!Unop, Lua55!Binop, Lua55!BlockEnds, Lua55!Names,
     Lua55!Simple, Lua55!UnaryOps, Lua55!LineParen, Expect, Parse, Climb, Node, Shape, Fail, Unop, Binop,
     On, Word1, Word2, Word3, Word4, Word5, Comma, SemiMark, OpenBrace, CloseBrace, BlockEnds, Names,
     Simple, UnaryOps, LineParen
<1>15. ASSUME NEW t, t \notin BlockEnds /\ t # "return" /\ t # SemiMark /\ t # "if" /\ t # "while"
                  /\ t # "do" /\ t # "for" /\ t # "repeat" /\ t # "function" /\ t # "local" /\ t # "::"
                  /\ t # "goto" /\ t # "break" /\ t # "global"
                  PROVE Lua55!StatList(t) = On(On(On(Word2(Parse("primaryexp"), Parse("suffixedexp")),
                  Word1(Parse("exprstat"))), <<>>), Word1(Parse("statlist")))
  BY Zenon, <1>15 DEF Lua55!StatList, Lua55!Statement, Lua55!Expr, Lua55!SubExpr, Lua55!ExpList,
     Lua55!Suffixed, Lua55!Constructor, Lua55!Body, Lua55!ForBody, Lua55!RetStat, Lua55!Assignable,
     Lua55!Calls, Lua55!Operators, Lua55!Prefixes, Lua55!Is51, Lua55!Expect, Lua55!Parse, Lua55!Climb,
     Lua55!Node, Lua55!Shape, Lua55!Fail, Lua55!Unop, Lua55!Binop, Lua55!BlockEnds, Lua55!Names,
     Lua55!Simple, Lua55!UnaryOps, Lua55!LineParen, Expect, Parse, Climb, Node, Shape, Fail, Unop, Binop,
     On, Word1, Word2, Word3, Word4, Word5, Comma, SemiMark, OpenBrace, CloseBrace, BlockEnds, Names,
     Simple, UnaryOps, LineParen
<1> QED BY Zenon, <1>1, <1>2, <1>3, <1>4, <1>5, <1>6, <1>7, <1>8, <1>9, <1>10, <1>11, <1>12, <1>13, <1>14,
           <1>15

LEMMA LuaPrimaryexpIs ==
    \A t :
        /\ t \in Names => Lua55!PrimaryExp(t) = Word2(Expect(t), Node("name"))
        /\ (t = "(" \/ t = LineParen) => Lua55!PrimaryExp(t) = On(On(Word1(Expect("(")),
             Word2(Parse("subexpr"), Climb("none"))), Word2(Expect(")"), Parse("discharge")))
        /\ (t \in Simple \/ t = OpenBrace \/ t = "function")
             => Lua55!PrimaryExp(t) = Word1(Fail("no_variable"))
        /\ (t \notin Names /\ t \notin Simple /\ t # "(" /\ t # OpenBrace /\ t # "function"
             /\ t # LineParen) => Lua55!PrimaryExp(t) = Word1(Fail("none"))
BY Zenon DEF Lua55!PrimaryExp, Lua55!Expr, Lua55!SubExpr, Lua55!ExpList, Lua55!Suffixed, Lua55!Constructor,
   Lua55!Body, Lua55!ForBody, Lua55!RetStat, Lua55!Assignable, Lua55!Calls, Lua55!Operators,
   Lua55!Prefixes, Lua55!Is51, Lua55!Expect, Lua55!Parse, Lua55!Climb, Lua55!Node, Lua55!Shape, Lua55!Fail,
   Lua55!Unop, Lua55!Binop, Lua55!BlockEnds, Lua55!Names, Lua55!Simple, Lua55!UnaryOps, Lua55!LineParen,
   Expect, Parse, Climb, Node, Shape, Fail, Unop, Binop, On, Word1, Word2, Word3, Word4, Word5, Comma,
   SemiMark, OpenBrace, CloseBrace, BlockEnds, Names, Simple, UnaryOps, LineParen

LEMMA LuaSuffixedexpIs ==
    \A t :
        /\ t = "." => Lua55!SuffixedExp(t) = Word4(Expect("."), Expect("Name"), Node("index"),
             Parse("suffixedexp"))
        /\ t = "[" => Lua55!SuffixedExp(t) = On(On(Word1(Expect("[")),
             Word2(Parse("subexpr"), Climb("none"))),
             Word3(Expect("]"), Node("index_expr"), Parse("suffixedexp")))
        /\ t = ":" => Lua55!SuffixedExp(t) = Word5(Expect(":"), Expect("Name"), Parse("funcargs"),
             Node("method_call"), Parse("suffixedexp"))
        /\ (t = "(" \/ t = LineParen \/ t = "String" \/ t = OpenBrace)
             => Lua55!SuffixedExp(t) = Word3(Parse("funcargs"), Node("call"), Parse("suffixedexp"))
        /\ (t # "." /\ t # "[" /\ t # ":" /\ t # "(" /\ t # "String" /\ t # OpenBrace /\ t # LineParen)
             => Lua55!SuffixedExp(t) = <<>>
BY Zenon DEF Lua55!SuffixedExp, Lua55!Expr, Lua55!SubExpr, Lua55!ExpList, Lua55!Suffixed,
   Lua55!Constructor, Lua55!Body, Lua55!ForBody, Lua55!RetStat, Lua55!Assignable, Lua55!Calls,
   Lua55!Operators, Lua55!Prefixes, Lua55!Is51, Lua55!Expect, Lua55!Parse, Lua55!Climb, Lua55!Node,
   Lua55!Shape, Lua55!Fail, Lua55!Unop, Lua55!Binop, Lua55!BlockEnds, Lua55!Names, Lua55!Simple,
   Lua55!UnaryOps, Lua55!LineParen, Expect, Parse, Climb, Node, Shape, Fail, Unop, Binop, On, Word1, Word2,
   Word3, Word4, Word5, Comma, SemiMark, OpenBrace, CloseBrace, BlockEnds, Names, Simple, UnaryOps,
   LineParen

LEMMA LuaDischargeIs ==
    \A x :
        /\ x \in {"call", "method_call", "..."}
             => Lua55!Discharge(x) = On(Word1(Node("one_value")), Word1(Shape("paren")))
        /\ x \notin {"call", "method_call", "..."} => Lua55!Discharge(x) = On(<<>>, Word1(Shape("paren")))
BY Zenon DEF Lua55!Discharge, Lua55!Expr, Lua55!SubExpr, Lua55!ExpList, Lua55!Suffixed, Lua55!Constructor,
   Lua55!Body, Lua55!ForBody, Lua55!RetStat, Lua55!Assignable, Lua55!Calls, Lua55!Operators,
   Lua55!Prefixes, Lua55!Is51, Lua55!Expect, Lua55!Parse, Lua55!Climb, Lua55!Node, Lua55!Shape, Lua55!Fail,
   Lua55!Unop, Lua55!Binop, Lua55!BlockEnds, Lua55!Names, Lua55!Simple, Lua55!UnaryOps, Lua55!LineParen,
   Expect, Parse, Climb, Node, Shape, Fail, Unop, Binop, On, Word1, Word2, Word3, Word4, Word5, Comma,
   SemiMark, OpenBrace, CloseBrace, BlockEnds, Names, Simple, UnaryOps, LineParen

LEMMA LuaFuncargsIs ==
    \A t :
        /\ (t = "(" \/ t = LineParen) => Lua55!FuncArgs(t) = Word3(Expect("("), Parse("args"), Expect(")"))
        /\ t = "String" => Lua55!FuncArgs(t) = Word2(Expect("String"), Node("String"))
        /\ t = OpenBrace => Lua55!FuncArgs(t) = Word4(Expect(OpenBrace), Parse("constructor"),
             Expect(CloseBrace), Node("table"))
        /\ (t # "(" /\ t # "String" /\ t # OpenBrace /\ t # LineParen)
             => Lua55!FuncArgs(t) = Word1(Fail("none"))
BY Zenon DEF Lua55!FuncArgs, Lua55!Expr, Lua55!SubExpr, Lua55!ExpList, Lua55!Suffixed, Lua55!Constructor,
   Lua55!Body, Lua55!ForBody, Lua55!RetStat, Lua55!Assignable, Lua55!Calls, Lua55!Operators,
   Lua55!Prefixes, Lua55!Is51, Lua55!Expect, Lua55!Parse, Lua55!Climb, Lua55!Node, Lua55!Shape, Lua55!Fail,
   Lua55!Unop, Lua55!Binop, Lua55!BlockEnds, Lua55!Names, Lua55!Simple, Lua55!UnaryOps, Lua55!LineParen,
   Expect, Parse, Climb, Node, Shape, Fail, Unop, Binop, On, Word1, Word2, Word3, Word4, Word5, Comma,
   SemiMark, OpenBrace, CloseBrace, BlockEnds, Names, Simple, UnaryOps, LineParen

LEMMA LuaSubexprIs ==
    \A t :
        /\ t \in UnaryOps => Lua55!SubExprStart(t) = On(On(Word1(Expect(t)),
             Word2(Parse("subexpr"), Climb("unary"))), Word1(Unop(t)))
        /\ t \in Simple => Lua55!SubExprStart(t) = Word2(Expect(t), Node(t))
        /\ t = OpenBrace => Lua55!SubExprStart(t) = Word4(Expect(OpenBrace), Parse("constructor"),
             Expect(CloseBrace), Node("table"))
        /\ t = "function" => Lua55!SubExprStart(t) = On(On(Word1(Expect("function")),
             Word5(Expect("("), Parse("parlist"), Expect(")"), Parse("statlist"), Expect("end"))),
             Word1(Node("function")))
        /\ (t \notin UnaryOps /\ t \notin Simple /\ t # OpenBrace /\ t # "function")
             => Lua55!SubExprStart(t) = Word2(Parse("primaryexp"), Parse("suffixedexp"))
BY Zenon DEF Lua55!SubExprStart, Lua55!Expr, Lua55!SubExpr, Lua55!ExpList, Lua55!Suffixed,
   Lua55!Constructor, Lua55!Body, Lua55!ForBody, Lua55!RetStat, Lua55!Assignable, Lua55!Calls,
   Lua55!Operators, Lua55!Prefixes, Lua55!Is51, Lua55!Expect, Lua55!Parse, Lua55!Climb, Lua55!Node,
   Lua55!Shape, Lua55!Fail, Lua55!Unop, Lua55!Binop, Lua55!BlockEnds, Lua55!Names, Lua55!Simple,
   Lua55!UnaryOps, Lua55!LineParen, Expect, Parse, Climb, Node, Shape, Fail, Unop, Binop, On, Word1, Word2,
   Word3, Word4, Word5, Comma, SemiMark, OpenBrace, CloseBrace, BlockEnds, Names, Simple, UnaryOps,
   LineParen

LEMMA LuaExprstatIs ==
    \A t, x :
        /\ (t = Comma /\ x \in {"name", "index", "index_expr"})
             => Lua55!ExprStat(t,
             x) = On(On(Word1(Expect(Comma)), Word2(Parse("primaryexp"), Parse("suffixedexp"))),
             Word1(Parse("restassign")))
        /\ (t = "=" /\ x \in {"name", "index", "index_expr"})
             => Lua55!ExprStat(t,
             x) = On(On(Word1(Expect("=")),
             On(Word2(Parse("subexpr"), Climb("none")), Word1(Parse("explist")))), Word1(Node("assign")))
        /\ (t # Comma /\ t # "=" /\ x \in {"call", "method_call"})
             => Lua55!ExprStat(t, x) = Word1(Node("call_statement"))
        /\ ((t = Comma \/ t = "=") /\ x \notin {"name", "index", "index_expr"})
             => Lua55!ExprStat(t, x) = Word1(Fail("no_variable"))
        /\ (t # Comma /\ t # "=" /\ x = "paren") => Lua55!ExprStat(t, x) = Word1(Fail("no_variable"))
        /\ (t # Comma /\ t # "=" /\ x # "paren" /\ x \notin {"call", "method_call"})
             => Lua55!ExprStat(t, x) = Word1(Fail("none"))
<1>1. ASSUME NEW t, NEW x, t = Comma /\ x \in {"name", "index", "index_expr"}
                 PROVE Lua55!ExprStat(t,
                 x) = On(On(Word1(Expect(Comma)), Word2(Parse("primaryexp"), Parse("suffixedexp"))),
                 Word1(Parse("restassign")))
  BY Zenon, <1>1 DEF Lua55!ExprStat, Lua55!Expr, Lua55!SubExpr, Lua55!ExpList, Lua55!Suffixed,
     Lua55!Constructor, Lua55!Body, Lua55!ForBody, Lua55!RetStat, Lua55!Assignable, Lua55!Calls,
     Lua55!Operators, Lua55!Prefixes, Lua55!Is51, Lua55!Expect, Lua55!Parse, Lua55!Climb, Lua55!Node,
     Lua55!Shape, Lua55!Fail, Lua55!Unop, Lua55!Binop, Lua55!BlockEnds, Lua55!Names, Lua55!Simple,
     Lua55!UnaryOps, Lua55!LineParen, Expect, Parse, Climb, Node, Shape, Fail, Unop, Binop, On, Word1,
     Word2, Word3, Word4, Word5, Comma, SemiMark, OpenBrace, CloseBrace, BlockEnds, Names, Simple,
     UnaryOps, LineParen
<1>2. ASSUME NEW t, NEW x, t = "=" /\ x \in {"name", "index", "index_expr"}
                 PROVE Lua55!ExprStat(t,
                 x) = On(On(Word1(Expect("=")),
                 On(Word2(Parse("subexpr"), Climb("none")), Word1(Parse("explist")))),
                 Word1(Node("assign")))
  BY Zenon, <1>2 DEF Lua55!ExprStat, Lua55!Expr, Lua55!SubExpr, Lua55!ExpList, Lua55!Suffixed,
     Lua55!Constructor, Lua55!Body, Lua55!ForBody, Lua55!RetStat, Lua55!Assignable, Lua55!Calls,
     Lua55!Operators, Lua55!Prefixes, Lua55!Is51, Lua55!Expect, Lua55!Parse, Lua55!Climb, Lua55!Node,
     Lua55!Shape, Lua55!Fail, Lua55!Unop, Lua55!Binop, Lua55!BlockEnds, Lua55!Names, Lua55!Simple,
     Lua55!UnaryOps, Lua55!LineParen, Expect, Parse, Climb, Node, Shape, Fail, Unop, Binop, On, Word1,
     Word2, Word3, Word4, Word5, Comma, SemiMark, OpenBrace, CloseBrace, BlockEnds, Names, Simple,
     UnaryOps, LineParen
<1>3. ASSUME NEW t, NEW x, t # Comma /\ t # "=" /\ x \in {"call", "method_call"}
                 PROVE Lua55!ExprStat(t, x) = Word1(Node("call_statement"))
  BY Zenon, <1>3 DEF Lua55!ExprStat, Lua55!Expr, Lua55!SubExpr, Lua55!ExpList, Lua55!Suffixed,
     Lua55!Constructor, Lua55!Body, Lua55!ForBody, Lua55!RetStat, Lua55!Assignable, Lua55!Calls,
     Lua55!Operators, Lua55!Prefixes, Lua55!Is51, Lua55!Expect, Lua55!Parse, Lua55!Climb, Lua55!Node,
     Lua55!Shape, Lua55!Fail, Lua55!Unop, Lua55!Binop, Lua55!BlockEnds, Lua55!Names, Lua55!Simple,
     Lua55!UnaryOps, Lua55!LineParen, Expect, Parse, Climb, Node, Shape, Fail, Unop, Binop, On, Word1,
     Word2, Word3, Word4, Word5, Comma, SemiMark, OpenBrace, CloseBrace, BlockEnds, Names, Simple,
     UnaryOps, LineParen
<1>4. ASSUME NEW t, NEW x, (t = Comma \/ t = "=") /\ x \notin {"name", "index", "index_expr"}
                 PROVE Lua55!ExprStat(t, x) = Word1(Fail("no_variable"))
  BY Zenon, <1>4 DEF Lua55!ExprStat, Lua55!Expr, Lua55!SubExpr, Lua55!ExpList, Lua55!Suffixed,
     Lua55!Constructor, Lua55!Body, Lua55!ForBody, Lua55!RetStat, Lua55!Assignable, Lua55!Calls,
     Lua55!Operators, Lua55!Prefixes, Lua55!Is51, Lua55!Expect, Lua55!Parse, Lua55!Climb, Lua55!Node,
     Lua55!Shape, Lua55!Fail, Lua55!Unop, Lua55!Binop, Lua55!BlockEnds, Lua55!Names, Lua55!Simple,
     Lua55!UnaryOps, Lua55!LineParen, Expect, Parse, Climb, Node, Shape, Fail, Unop, Binop, On, Word1,
     Word2, Word3, Word4, Word5, Comma, SemiMark, OpenBrace, CloseBrace, BlockEnds, Names, Simple,
     UnaryOps, LineParen
<1>5. ASSUME NEW t, NEW x, t # Comma /\ t # "=" /\ x = "paren"
                 PROVE Lua55!ExprStat(t, x) = Word1(Fail("no_variable"))
  BY Zenon, <1>5 DEF Lua55!ExprStat, Lua55!Expr, Lua55!SubExpr, Lua55!ExpList, Lua55!Suffixed,
     Lua55!Constructor, Lua55!Body, Lua55!ForBody, Lua55!RetStat, Lua55!Assignable, Lua55!Calls,
     Lua55!Operators, Lua55!Prefixes, Lua55!Is51, Lua55!Expect, Lua55!Parse, Lua55!Climb, Lua55!Node,
     Lua55!Shape, Lua55!Fail, Lua55!Unop, Lua55!Binop, Lua55!BlockEnds, Lua55!Names, Lua55!Simple,
     Lua55!UnaryOps, Lua55!LineParen, Expect, Parse, Climb, Node, Shape, Fail, Unop, Binop, On, Word1,
     Word2, Word3, Word4, Word5, Comma, SemiMark, OpenBrace, CloseBrace, BlockEnds, Names, Simple,
     UnaryOps, LineParen
<1>6. ASSUME NEW t, NEW x, t # Comma /\ t # "=" /\ x # "paren" /\ x \notin {"call", "method_call"}
                 PROVE Lua55!ExprStat(t, x) = Word1(Fail("none"))
  BY Zenon, <1>6 DEF Lua55!ExprStat, Lua55!Expr, Lua55!SubExpr, Lua55!ExpList, Lua55!Suffixed,
     Lua55!Constructor, Lua55!Body, Lua55!ForBody, Lua55!RetStat, Lua55!Assignable, Lua55!Calls,
     Lua55!Operators, Lua55!Prefixes, Lua55!Is51, Lua55!Expect, Lua55!Parse, Lua55!Climb, Lua55!Node,
     Lua55!Shape, Lua55!Fail, Lua55!Unop, Lua55!Binop, Lua55!BlockEnds, Lua55!Names, Lua55!Simple,
     Lua55!UnaryOps, Lua55!LineParen, Expect, Parse, Climb, Node, Shape, Fail, Unop, Binop, On, Word1,
     Word2, Word3, Word4, Word5, Comma, SemiMark, OpenBrace, CloseBrace, BlockEnds, Names, Simple,
     UnaryOps, LineParen
<1> QED BY Zenon, <1>1, <1>2, <1>3, <1>4, <1>5, <1>6

LEMMA LuaRestassignIs ==
    \A t, x :
        /\ (t = Comma /\ x \in {"name", "index", "index_expr"})
             => Lua55!RestAssign(t,
             x) = On(On(Word1(Expect(Comma)), Word2(Parse("primaryexp"), Parse("suffixedexp"))),
             Word1(Parse("restassign")))
        /\ (t = "=" /\ x \in {"name", "index", "index_expr"})
             => Lua55!RestAssign(t,
             x) = On(On(Word1(Expect("=")),
             On(Word2(Parse("subexpr"), Climb("none")), Word1(Parse("explist")))), Word1(Node("assign")))
        /\ ((t = Comma \/ t = "=") /\ x \notin {"name", "index", "index_expr"})
             => Lua55!RestAssign(t, x) = Word1(Fail("no_variable"))
        /\ (t # Comma /\ t # "=") => Lua55!RestAssign(t, x) = Word1(Fail("none"))
BY Zenon DEF Lua55!RestAssign, Lua55!ExprStat, Lua55!Expr, Lua55!SubExpr, Lua55!ExpList, Lua55!Suffixed,
   Lua55!Constructor, Lua55!Body, Lua55!ForBody, Lua55!RetStat, Lua55!Assignable, Lua55!Calls,
   Lua55!Operators, Lua55!Prefixes, Lua55!Is51, Lua55!Expect, Lua55!Parse, Lua55!Climb, Lua55!Node,
   Lua55!Shape, Lua55!Fail, Lua55!Unop, Lua55!Binop, Lua55!BlockEnds, Lua55!Names, Lua55!Simple,
   Lua55!UnaryOps, Lua55!LineParen, Expect, Parse, Climb, Node, Shape, Fail, Unop, Binop, On, Word1, Word2,
   Word3, Word4, Word5, Comma, SemiMark, OpenBrace, CloseBrace, BlockEnds, Names, Simple, UnaryOps,
   LineParen

LEMMA LuaLocalstatIs ==
    \A t :
        /\ t = "function" => Lua55!LocalStat(t) = On(On(Word2(Expect("function"), Expect("Name")),
             Word5(Expect("("), Parse("parlist"), Expect(")"), Parse("statlist"), Expect("end"))),
             Word1(Node("local_function")))
        /\ t # "function" => Lua55!LocalStat(t) = On(Word1(Parse("attrib")),
             Word5(Expect("Name"), Parse("attrib"), Parse("attnamelist"), Parse("init"), Node("local")))
BY Zenon DEF Lua55!LocalStat, Lua55!Expr, Lua55!SubExpr, Lua55!ExpList, Lua55!Suffixed, Lua55!Constructor,
   Lua55!Body, Lua55!ForBody, Lua55!RetStat, Lua55!Assignable, Lua55!Calls, Lua55!Operators,
   Lua55!Prefixes, Lua55!Is51, Lua55!Expect, Lua55!Parse, Lua55!Climb, Lua55!Node, Lua55!Shape, Lua55!Fail,
   Lua55!Unop, Lua55!Binop, Lua55!BlockEnds, Lua55!Names, Lua55!Simple, Lua55!UnaryOps, Lua55!LineParen,
   Expect, Parse, Climb, Node, Shape, Fail, Unop, Binop, On, Word1, Word2, Word3, Word4, Word5, Comma,
   SemiMark, OpenBrace, CloseBrace, BlockEnds, Names, Simple, UnaryOps, LineParen

LEMMA LuaAttribIs ==
    \A t :
        /\ t = "<" => Lua55!Attrib(t) = Word2(Expect("<"), Parse("attname"))
        /\ t # "<" => Lua55!Attrib(t) = <<>>
BY Zenon DEF Lua55!Attrib, Lua55!Expr, Lua55!SubExpr, Lua55!ExpList, Lua55!Suffixed, Lua55!Constructor,
   Lua55!Body, Lua55!ForBody, Lua55!RetStat, Lua55!Assignable, Lua55!Calls, Lua55!Operators,
   Lua55!Prefixes, Lua55!Is51, Lua55!Expect, Lua55!Parse, Lua55!Climb, Lua55!Node, Lua55!Shape, Lua55!Fail,
   Lua55!Unop, Lua55!Binop, Lua55!BlockEnds, Lua55!Names, Lua55!Simple, Lua55!UnaryOps, Lua55!LineParen,
   Expect, Parse, Climb, Node, Shape, Fail, Unop, Binop, On, Word1, Word2, Word3, Word4, Word5, Comma,
   SemiMark, OpenBrace, CloseBrace, BlockEnds, Names, Simple, UnaryOps, LineParen

LEMMA LuaAttnameIs ==
    \A t :
        /\ t \in {"const", "close"} => Lua55!AttName(t) = Word3(Expect(t), Expect(">"), Node(t))
        /\ (t # "const" /\ t # "close") => Lua55!AttName(t) = Word1(Fail("none"))
BY Zenon DEF Lua55!AttName, Lua55!Expr, Lua55!SubExpr, Lua55!ExpList, Lua55!Suffixed, Lua55!Constructor,
   Lua55!Body, Lua55!ForBody, Lua55!RetStat, Lua55!Assignable, Lua55!Calls, Lua55!Operators,
   Lua55!Prefixes, Lua55!Is51, Lua55!Expect, Lua55!Parse, Lua55!Climb, Lua55!Node, Lua55!Shape, Lua55!Fail,
   Lua55!Unop, Lua55!Binop, Lua55!BlockEnds, Lua55!Names, Lua55!Simple, Lua55!UnaryOps, Lua55!LineParen,
   Expect, Parse, Climb, Node, Shape, Fail, Unop, Binop, On, Word1, Word2, Word3, Word4, Word5, Comma,
   SemiMark, OpenBrace, CloseBrace, BlockEnds, Names, Simple, UnaryOps, LineParen

LEMMA LuaAttnamelistIs ==
    \A t, x :
        /\ t # Comma => Lua55!AttNameList(t, x) = <<>>
        /\ (t = Comma /\ x = "close") => Lua55!AttNameList(t, x) = Word4(Expect(Comma), Expect("Name"),
             Parse("closed"), Parse("closedlist"))
        /\ (t = Comma /\ x # "close") => Lua55!AttNameList(t, x) = Word4(Expect(Comma), Expect("Name"),
             Parse("attrib"), Parse("attnamelist"))
BY Zenon DEF Lua55!AttNameList, Lua55!Expr, Lua55!SubExpr, Lua55!ExpList, Lua55!Suffixed,
   Lua55!Constructor, Lua55!Body, Lua55!ForBody, Lua55!RetStat, Lua55!Assignable, Lua55!Calls,
   Lua55!Operators, Lua55!Prefixes, Lua55!Is51, Lua55!Expect, Lua55!Parse, Lua55!Climb, Lua55!Node,
   Lua55!Shape, Lua55!Fail, Lua55!Unop, Lua55!Binop, Lua55!BlockEnds, Lua55!Names, Lua55!Simple,
   Lua55!UnaryOps, Lua55!LineParen, Expect, Parse, Climb, Node, Shape, Fail, Unop, Binop, On, Word1, Word2,
   Word3, Word4, Word5, Comma, SemiMark, OpenBrace, CloseBrace, BlockEnds, Names, Simple, UnaryOps,
   LineParen

LEMMA LuaClosedIs ==
    \A t :
        /\ t = "<" => Lua55!Closed(t) = Word4(Expect("<"), Expect("const"), Expect(">"), Node("const"))
        /\ t # "<" => Lua55!Closed(t) = <<>>
BY Zenon DEF Lua55!Closed, Lua55!Expr, Lua55!SubExpr, Lua55!ExpList, Lua55!Suffixed, Lua55!Constructor,
   Lua55!Body, Lua55!ForBody, Lua55!RetStat, Lua55!Assignable, Lua55!Calls, Lua55!Operators,
   Lua55!Prefixes, Lua55!Is51, Lua55!Expect, Lua55!Parse, Lua55!Climb, Lua55!Node, Lua55!Shape, Lua55!Fail,
   Lua55!Unop, Lua55!Binop, Lua55!BlockEnds, Lua55!Names, Lua55!Simple, Lua55!UnaryOps, Lua55!LineParen,
   Expect, Parse, Climb, Node, Shape, Fail, Unop, Binop, On, Word1, Word2, Word3, Word4, Word5, Comma,
   SemiMark, OpenBrace, CloseBrace, BlockEnds, Names, Simple, UnaryOps, LineParen

LEMMA LuaClosedlistIs ==
    \A t :
        /\ t = Comma => Lua55!ClosedList(t) = Word4(Expect(Comma), Expect("Name"), Parse("closed"),
             Parse("closedlist"))
        /\ t # Comma => Lua55!ClosedList(t) = <<>>
BY Zenon DEF Lua55!ClosedList, Lua55!Expr, Lua55!SubExpr, Lua55!ExpList, Lua55!Suffixed, Lua55!Constructor,
   Lua55!Body, Lua55!ForBody, Lua55!RetStat, Lua55!Assignable, Lua55!Calls, Lua55!Operators,
   Lua55!Prefixes, Lua55!Is51, Lua55!Expect, Lua55!Parse, Lua55!Climb, Lua55!Node, Lua55!Shape, Lua55!Fail,
   Lua55!Unop, Lua55!Binop, Lua55!BlockEnds, Lua55!Names, Lua55!Simple, Lua55!UnaryOps, Lua55!LineParen,
   Expect, Parse, Climb, Node, Shape, Fail, Unop, Binop, On, Word1, Word2, Word3, Word4, Word5, Comma,
   SemiMark, OpenBrace, CloseBrace, BlockEnds, Names, Simple, UnaryOps, LineParen

LEMMA LuaGlobalstatIs ==
    \A t :
        /\ t = "function" => Lua55!GlobalStat(t) = On(On(Word2(Expect("function"), Expect("Name")),
             Word5(Expect("("), Parse("parlist"), Expect(")"), Parse("statlist"), Expect("end"))),
             Word1(Node("global")))
        /\ t = "*" => Lua55!GlobalStat(t) = Word2(Expect("*"), Node("global"))
        /\ (t \in Names \/ t = "<") => Lua55!GlobalStat(t) = Word5(Parse("attrib"), Expect("Name"),
             Parse("attrib"), Parse("attnamelist"), Node("global"))
        /\ (t \notin Names /\ t # "function" /\ t # "*" /\ t # "<")
             => Lua55!GlobalStat(t) = Word2(Parse("suffixedexp"), Parse("exprstat"))
BY Zenon DEF Lua55!GlobalStat, Lua55!Expr, Lua55!SubExpr, Lua55!ExpList, Lua55!Suffixed, Lua55!Constructor,
   Lua55!Body, Lua55!ForBody, Lua55!RetStat, Lua55!Assignable, Lua55!Calls, Lua55!Operators,
   Lua55!Prefixes, Lua55!Is51, Lua55!Expect, Lua55!Parse, Lua55!Climb, Lua55!Node, Lua55!Shape, Lua55!Fail,
   Lua55!Unop, Lua55!Binop, Lua55!BlockEnds, Lua55!Names, Lua55!Simple, Lua55!UnaryOps, Lua55!LineParen,
   Expect, Parse, Climb, Node, Shape, Fail, Unop, Binop, On, Word1, Word2, Word3, Word4, Word5, Comma,
   SemiMark, OpenBrace, CloseBrace, BlockEnds, Names, Simple, UnaryOps, LineParen

LEMMA LuaForstatIs ==
    \A t :
        /\ t = "=" => Lua55!ForStat(t) = On(On(On(On(On(On(Word1(Expect("=")),
             Word2(Parse("subexpr"), Climb("none"))), Word1(Expect(Comma))),
             Word2(Parse("subexpr"), Climb("none"))), Word1(Parse("fornum"))),
             Word3(Expect("do"), Parse("statlist"), Expect("end"))), Word1(Node("numeric_for")))
        /\ t # "=" => Lua55!ForStat(t) = On(On(On(Word2(Parse("forlist"), Expect("in")),
             On(Word2(Parse("subexpr"), Climb("none")), Word1(Parse("explist")))),
             Word3(Expect("do"), Parse("statlist"), Expect("end"))), Word1(Node("generic_for")))
BY Zenon DEF Lua55!ForStat, Lua55!Expr, Lua55!SubExpr, Lua55!ExpList, Lua55!Suffixed, Lua55!Constructor,
   Lua55!Body, Lua55!ForBody, Lua55!RetStat, Lua55!Assignable, Lua55!Calls, Lua55!Operators,
   Lua55!Prefixes, Lua55!Is51, Lua55!Expect, Lua55!Parse, Lua55!Climb, Lua55!Node, Lua55!Shape, Lua55!Fail,
   Lua55!Unop, Lua55!Binop, Lua55!BlockEnds, Lua55!Names, Lua55!Simple, Lua55!UnaryOps, Lua55!LineParen,
   Expect, Parse, Climb, Node, Shape, Fail, Unop, Binop, On, Word1, Word2, Word3, Word4, Word5, Comma,
   SemiMark, OpenBrace, CloseBrace, BlockEnds, Names, Simple, UnaryOps, LineParen

LEMMA LuaTestThenIs ==
    \A t :
        /\ t = "elseif" => Lua55!TestThen(t) = On(On(Word1(Expect("elseif")),
             Word2(Parse("subexpr"), Climb("none"))),
             Word4(Expect("then"), Parse("statlist"), Node("elseif"), Parse("test_then")))
        /\ t = "else" => Lua55!TestThen(t) = Word3(Expect("else"), Parse("statlist"), Node("else"))
        /\ (t # "elseif" /\ t # "else") => Lua55!TestThen(t) = <<>>
BY Zenon DEF Lua55!TestThen, Lua55!Expr, Lua55!SubExpr, Lua55!ExpList, Lua55!Suffixed, Lua55!Constructor,
   Lua55!Body, Lua55!ForBody, Lua55!RetStat, Lua55!Assignable, Lua55!Calls, Lua55!Operators,
   Lua55!Prefixes, Lua55!Is51, Lua55!Expect, Lua55!Parse, Lua55!Climb, Lua55!Node, Lua55!Shape, Lua55!Fail,
   Lua55!Unop, Lua55!Binop, Lua55!BlockEnds, Lua55!Names, Lua55!Simple, Lua55!UnaryOps, Lua55!LineParen,
   Expect, Parse, Climb, Node, Shape, Fail, Unop, Binop, On, Word1, Word2, Word3, Word4, Word5, Comma,
   SemiMark, OpenBrace, CloseBrace, BlockEnds, Names, Simple, UnaryOps, LineParen

LEMMA LuaFuncnameIs ==
    \A t :
        /\ t = "." => Lua55!FuncName(t) = Word4(Expect("."), Expect("Name"), Node("part"),
             Parse("funcname"))
        /\ t = ":" => Lua55!FuncName(t) = Word3(Expect(":"), Expect("Name"), Node("method"))
        /\ (t # "." /\ t # ":") => Lua55!FuncName(t) = <<>>
BY Zenon DEF Lua55!FuncName, Lua55!Expr, Lua55!SubExpr, Lua55!ExpList, Lua55!Suffixed, Lua55!Constructor,
   Lua55!Body, Lua55!ForBody, Lua55!RetStat, Lua55!Assignable, Lua55!Calls, Lua55!Operators,
   Lua55!Prefixes, Lua55!Is51, Lua55!Expect, Lua55!Parse, Lua55!Climb, Lua55!Node, Lua55!Shape, Lua55!Fail,
   Lua55!Unop, Lua55!Binop, Lua55!BlockEnds, Lua55!Names, Lua55!Simple, Lua55!UnaryOps, Lua55!LineParen,
   Expect, Parse, Climb, Node, Shape, Fail, Unop, Binop, On, Word1, Word2, Word3, Word4, Word5, Comma,
   SemiMark, OpenBrace, CloseBrace, BlockEnds, Names, Simple, UnaryOps, LineParen

LEMMA LuaParameterIs ==
    \A t :
        /\ t = "..." => Lua55!Parameter(t) = On(Word2(Expect("..."), Node("is_vararg")),
             Word1(Parse("vararg_name")))
        /\ t # "..." => Lua55!Parameter(t) = Word3(Expect("Name"), Node("param"), Parse("morepars"))
BY Zenon DEF Lua55!Parameter, Lua55!Expr, Lua55!SubExpr, Lua55!ExpList, Lua55!Suffixed, Lua55!Constructor,
   Lua55!Body, Lua55!ForBody, Lua55!RetStat, Lua55!Assignable, Lua55!Calls, Lua55!Operators,
   Lua55!Prefixes, Lua55!Is51, Lua55!Expect, Lua55!Parse, Lua55!Climb, Lua55!Node, Lua55!Shape, Lua55!Fail,
   Lua55!Unop, Lua55!Binop, Lua55!BlockEnds, Lua55!Names, Lua55!Simple, Lua55!UnaryOps, Lua55!LineParen,
   Expect, Parse, Climb, Node, Shape, Fail, Unop, Binop, On, Word1, Word2, Word3, Word4, Word5, Comma,
   SemiMark, OpenBrace, CloseBrace, BlockEnds, Names, Simple, UnaryOps, LineParen

LEMMA LuaFieldIs ==
    \A t :
        /\ t = "[" => Lua55!Field(t) = On(On(On(On(Word1(Expect("[")),
             Word2(Parse("subexpr"), Climb("none"))), Word2(Expect("]"), Expect("="))),
             Word2(Parse("subexpr"), Climb("none"))), Word1(Node("expr_key")))
        /\ t \in Names => Lua55!Field(t) = Word2(Expect("Name"), Parse("recfield"))
        /\ (t \notin Names /\ t # "[")
             => Lua55!Field(t) = On(Word2(Parse("subexpr"), Climb("none")), Word1(Node("positional")))
BY Zenon DEF Lua55!Field, Lua55!Expr, Lua55!SubExpr, Lua55!ExpList, Lua55!Suffixed, Lua55!Constructor,
   Lua55!Body, Lua55!ForBody, Lua55!RetStat, Lua55!Assignable, Lua55!Calls, Lua55!Operators,
   Lua55!Prefixes, Lua55!Is51, Lua55!Expect, Lua55!Parse, Lua55!Climb, Lua55!Node, Lua55!Shape, Lua55!Fail,
   Lua55!Unop, Lua55!Binop, Lua55!BlockEnds, Lua55!Names, Lua55!Simple, Lua55!UnaryOps, Lua55!LineParen,
   Expect, Parse, Climb, Node, Shape, Fail, Unop, Binop, On, Word1, Word2, Word3, Word4, Word5, Comma,
   SemiMark, OpenBrace, CloseBrace, BlockEnds, Names, Simple, UnaryOps, LineParen

LEMMA LuaRecfieldIs ==
    \A t :
        /\ t = "=" => Lua55!RecField(t) = On(On(Word1(Expect("=")),
             Word2(Parse("subexpr"), Climb("none"))), Word1(Node("name_key")))
        /\ t # "=" => Lua55!RecField(t) = Word4(Node("name"), Parse("suffixedexp"), Climb("none"),
             Node("positional"))
BY Zenon DEF Lua55!RecField, Lua55!Expr, Lua55!SubExpr, Lua55!ExpList, Lua55!Suffixed, Lua55!Constructor,
   Lua55!Body, Lua55!ForBody, Lua55!RetStat, Lua55!Assignable, Lua55!Calls, Lua55!Operators,
   Lua55!Prefixes, Lua55!Is51, Lua55!Expect, Lua55!Parse, Lua55!Climb, Lua55!Node, Lua55!Shape, Lua55!Fail,
   Lua55!Unop, Lua55!Binop, Lua55!BlockEnds, Lua55!Names, Lua55!Simple, Lua55!UnaryOps, Lua55!LineParen,
   Expect, Parse, Climb, Node, Shape, Fail, Unop, Binop, On, Word1, Word2, Word3, Word4, Word5, Comma,
   SemiMark, OpenBrace, CloseBrace, BlockEnds, Names, Simple, UnaryOps, LineParen

LEMMA LuaSemicolonIs ==
    \A t :
        /\ t = SemiMark => Lua55!Optional("semicolon", t) = Word1(Expect(SemiMark))
        /\ t # SemiMark => Lua55!Optional("semicolon", t) = <<>>
BY Zenon DEF Lua55!Optional, Lua55!Expr, Lua55!SubExpr, Lua55!ExpList, Lua55!Suffixed, Lua55!Constructor,
   Lua55!Body, Lua55!ForBody, Lua55!RetStat, Lua55!Assignable, Lua55!Calls, Lua55!Operators,
   Lua55!Prefixes, Lua55!Is51, Lua55!Expect, Lua55!Parse, Lua55!Climb, Lua55!Node, Lua55!Shape, Lua55!Fail,
   Lua55!Unop, Lua55!Binop, Lua55!BlockEnds, Lua55!Names, Lua55!Simple, Lua55!UnaryOps, Lua55!LineParen,
   Expect, Parse, Climb, Node, Shape, Fail, Unop, Binop, On, Word1, Word2, Word3, Word4, Word5, Comma,
   SemiMark, OpenBrace, CloseBrace, BlockEnds, Names, Simple, UnaryOps, LineParen

LEMMA LuaRetstatIs ==
    \A t :
        /\ (t \in BlockEnds \/ t = SemiMark) => Lua55!Optional("retstat", t) = <<>>
        /\ (t \notin BlockEnds /\ t # SemiMark)
             => Lua55!Optional("retstat", t) = On(Word2(Parse("subexpr"), Climb("none")),
             Word1(Parse("explist")))
BY Zenon DEF Lua55!Optional, Lua55!Expr, Lua55!SubExpr, Lua55!ExpList, Lua55!Suffixed, Lua55!Constructor,
   Lua55!Body, Lua55!ForBody, Lua55!RetStat, Lua55!Assignable, Lua55!Calls, Lua55!Operators,
   Lua55!Prefixes, Lua55!Is51, Lua55!Expect, Lua55!Parse, Lua55!Climb, Lua55!Node, Lua55!Shape, Lua55!Fail,
   Lua55!Unop, Lua55!Binop, Lua55!BlockEnds, Lua55!Names, Lua55!Simple, Lua55!UnaryOps, Lua55!LineParen,
   Expect, Parse, Climb, Node, Shape, Fail, Unop, Binop, On, Word1, Word2, Word3, Word4, Word5, Comma,
   SemiMark, OpenBrace, CloseBrace, BlockEnds, Names, Simple, UnaryOps, LineParen

LEMMA LuaExplistIs ==
    \A t :
        /\ t = Comma => Lua55!Optional("explist", t) = On(Word1(Expect(Comma)),
             On(Word2(Parse("subexpr"), Climb("none")), Word1(Parse("explist"))))
        /\ t # Comma => Lua55!Optional("explist", t) = <<>>
BY Zenon DEF Lua55!Optional, Lua55!Expr, Lua55!SubExpr, Lua55!ExpList, Lua55!Suffixed, Lua55!Constructor,
   Lua55!Body, Lua55!ForBody, Lua55!RetStat, Lua55!Assignable, Lua55!Calls, Lua55!Operators,
   Lua55!Prefixes, Lua55!Is51, Lua55!Expect, Lua55!Parse, Lua55!Climb, Lua55!Node, Lua55!Shape, Lua55!Fail,
   Lua55!Unop, Lua55!Binop, Lua55!BlockEnds, Lua55!Names, Lua55!Simple, Lua55!UnaryOps, Lua55!LineParen,
   Expect, Parse, Climb, Node, Shape, Fail, Unop, Binop, On, Word1, Word2, Word3, Word4, Word5, Comma,
   SemiMark, OpenBrace, CloseBrace, BlockEnds, Names, Simple, UnaryOps, LineParen

LEMMA LuaInitIs ==
    \A t :
        /\ t = "=" => Lua55!Optional("init", t) = On(Word1(Expect("=")),
             On(Word2(Parse("subexpr"), Climb("none")), Word1(Parse("explist"))))
        /\ t # "=" => Lua55!Optional("init", t) = <<>>
BY Zenon DEF Lua55!Optional, Lua55!Expr, Lua55!SubExpr, Lua55!ExpList, Lua55!Suffixed, Lua55!Constructor,
   Lua55!Body, Lua55!ForBody, Lua55!RetStat, Lua55!Assignable, Lua55!Calls, Lua55!Operators,
   Lua55!Prefixes, Lua55!Is51, Lua55!Expect, Lua55!Parse, Lua55!Climb, Lua55!Node, Lua55!Shape, Lua55!Fail,
   Lua55!Unop, Lua55!Binop, Lua55!BlockEnds, Lua55!Names, Lua55!Simple, Lua55!UnaryOps, Lua55!LineParen,
   Expect, Parse, Climb, Node, Shape, Fail, Unop, Binop, On, Word1, Word2, Word3, Word4, Word5, Comma,
   SemiMark, OpenBrace, CloseBrace, BlockEnds, Names, Simple, UnaryOps, LineParen

LEMMA LuaArgsIs ==
    \A t :
        /\ t = ")" => Lua55!Optional("args", t) = <<>>
        /\ t # ")" => Lua55!Optional("args", t) = On(Word2(Parse("subexpr"), Climb("none")),
             Word1(Parse("explist")))
BY Zenon DEF Lua55!Optional, Lua55!Expr, Lua55!SubExpr, Lua55!ExpList, Lua55!Suffixed, Lua55!Constructor,
   Lua55!Body, Lua55!ForBody, Lua55!RetStat, Lua55!Assignable, Lua55!Calls, Lua55!Operators,
   Lua55!Prefixes, Lua55!Is51, Lua55!Expect, Lua55!Parse, Lua55!Climb, Lua55!Node, Lua55!Shape, Lua55!Fail,
   Lua55!Unop, Lua55!Binop, Lua55!BlockEnds, Lua55!Names, Lua55!Simple, Lua55!UnaryOps, Lua55!LineParen,
   Expect, Parse, Climb, Node, Shape, Fail, Unop, Binop, On, Word1, Word2, Word3, Word4, Word5, Comma,
   SemiMark, OpenBrace, CloseBrace, BlockEnds, Names, Simple, UnaryOps, LineParen

LEMMA LuaParlistIs ==
    \A t :
        /\ t = ")" => Lua55!Optional("parlist", t) = <<>>
        /\ t # ")" => Lua55!Optional("parlist", t) = Word1(Parse("parameter"))
BY Zenon DEF Lua55!Optional, Lua55!Expr, Lua55!SubExpr, Lua55!ExpList, Lua55!Suffixed, Lua55!Constructor,
   Lua55!Body, Lua55!ForBody, Lua55!RetStat, Lua55!Assignable, Lua55!Calls, Lua55!Operators,
   Lua55!Prefixes, Lua55!Is51, Lua55!Expect, Lua55!Parse, Lua55!Climb, Lua55!Node, Lua55!Shape, Lua55!Fail,
   Lua55!Unop, Lua55!Binop, Lua55!BlockEnds, Lua55!Names, Lua55!Simple, Lua55!UnaryOps, Lua55!LineParen,
   Expect, Parse, Climb, Node, Shape, Fail, Unop, Binop, On, Word1, Word2, Word3, Word4, Word5, Comma,
   SemiMark, OpenBrace, CloseBrace, BlockEnds, Names, Simple, UnaryOps, LineParen

LEMMA LuaMoreparsIs ==
    \A t :
        /\ t = Comma => Lua55!Optional("morepars", t) = Word2(Expect(Comma), Parse("parameter"))
        /\ t # Comma => Lua55!Optional("morepars", t) = <<>>
BY Zenon DEF Lua55!Optional, Lua55!Expr, Lua55!SubExpr, Lua55!ExpList, Lua55!Suffixed, Lua55!Constructor,
   Lua55!Body, Lua55!ForBody, Lua55!RetStat, Lua55!Assignable, Lua55!Calls, Lua55!Operators,
   Lua55!Prefixes, Lua55!Is51, Lua55!Expect, Lua55!Parse, Lua55!Climb, Lua55!Node, Lua55!Shape, Lua55!Fail,
   Lua55!Unop, Lua55!Binop, Lua55!BlockEnds, Lua55!Names, Lua55!Simple, Lua55!UnaryOps, Lua55!LineParen,
   Expect, Parse, Climb, Node, Shape, Fail, Unop, Binop, On, Word1, Word2, Word3, Word4, Word5, Comma,
   SemiMark, OpenBrace, CloseBrace, BlockEnds, Names, Simple, UnaryOps, LineParen

LEMMA LuaVarargNameIs ==
    \A t :
        /\ t \in Names => Lua55!Optional("vararg_name", t) = Word1(Expect("Name"))
        /\ t \notin Names => Lua55!Optional("vararg_name", t) = <<>>
BY Zenon DEF Lua55!Optional, Lua55!Expr, Lua55!SubExpr, Lua55!ExpList, Lua55!Suffixed, Lua55!Constructor,
   Lua55!Body, Lua55!ForBody, Lua55!RetStat, Lua55!Assignable, Lua55!Calls, Lua55!Operators,
   Lua55!Prefixes, Lua55!Is51, Lua55!Expect, Lua55!Parse, Lua55!Climb, Lua55!Node, Lua55!Shape, Lua55!Fail,
   Lua55!Unop, Lua55!Binop, Lua55!BlockEnds, Lua55!Names, Lua55!Simple, Lua55!UnaryOps, Lua55!LineParen,
   Expect, Parse, Climb, Node, Shape, Fail, Unop, Binop, On, Word1, Word2, Word3, Word4, Word5, Comma,
   SemiMark, OpenBrace, CloseBrace, BlockEnds, Names, Simple, UnaryOps, LineParen

LEMMA LuaConstructorIs ==
    \A t :
        /\ t = CloseBrace => Lua55!Optional("constructor", t) = <<>>
        /\ t # CloseBrace => Lua55!Optional("constructor", t) = Word2(Parse("field"), Parse("fieldsep"))
BY Zenon DEF Lua55!Optional, Lua55!Expr, Lua55!SubExpr, Lua55!ExpList, Lua55!Suffixed, Lua55!Constructor,
   Lua55!Body, Lua55!ForBody, Lua55!RetStat, Lua55!Assignable, Lua55!Calls, Lua55!Operators,
   Lua55!Prefixes, Lua55!Is51, Lua55!Expect, Lua55!Parse, Lua55!Climb, Lua55!Node, Lua55!Shape, Lua55!Fail,
   Lua55!Unop, Lua55!Binop, Lua55!BlockEnds, Lua55!Names, Lua55!Simple, Lua55!UnaryOps, Lua55!LineParen,
   Expect, Parse, Climb, Node, Shape, Fail, Unop, Binop, On, Word1, Word2, Word3, Word4, Word5, Comma,
   SemiMark, OpenBrace, CloseBrace, BlockEnds, Names, Simple, UnaryOps, LineParen

LEMMA LuaFieldsepIs ==
    \A t :
        /\ (t = Comma \/ t = SemiMark)
             => Lua55!Optional("fieldsep", t) = Word2(Expect(t), Parse("constructor"))
        /\ (t # Comma /\ t # SemiMark) => Lua55!Optional("fieldsep", t) = <<>>
BY Zenon DEF Lua55!Optional, Lua55!Expr, Lua55!SubExpr, Lua55!ExpList, Lua55!Suffixed, Lua55!Constructor,
   Lua55!Body, Lua55!ForBody, Lua55!RetStat, Lua55!Assignable, Lua55!Calls, Lua55!Operators,
   Lua55!Prefixes, Lua55!Is51, Lua55!Expect, Lua55!Parse, Lua55!Climb, Lua55!Node, Lua55!Shape, Lua55!Fail,
   Lua55!Unop, Lua55!Binop, Lua55!BlockEnds, Lua55!Names, Lua55!Simple, Lua55!UnaryOps, Lua55!LineParen,
   Expect, Parse, Climb, Node, Shape, Fail, Unop, Binop, On, Word1, Word2, Word3, Word4, Word5, Comma,
   SemiMark, OpenBrace, CloseBrace, BlockEnds, Names, Simple, UnaryOps, LineParen

LEMMA LuaFornumIs ==
    \A t :
        /\ t = Comma => Lua55!Optional("fornum", t) = On(Word1(Expect(Comma)),
             Word2(Parse("subexpr"), Climb("none")))
        /\ t # Comma => Lua55!Optional("fornum", t) = <<>>
BY Zenon DEF Lua55!Optional, Lua55!Expr, Lua55!SubExpr, Lua55!ExpList, Lua55!Suffixed, Lua55!Constructor,
   Lua55!Body, Lua55!ForBody, Lua55!RetStat, Lua55!Assignable, Lua55!Calls, Lua55!Operators,
   Lua55!Prefixes, Lua55!Is51, Lua55!Expect, Lua55!Parse, Lua55!Climb, Lua55!Node, Lua55!Shape, Lua55!Fail,
   Lua55!Unop, Lua55!Binop, Lua55!BlockEnds, Lua55!Names, Lua55!Simple, Lua55!UnaryOps, Lua55!LineParen,
   Expect, Parse, Climb, Node, Shape, Fail, Unop, Binop, On, Word1, Word2, Word3, Word4, Word5, Comma,
   SemiMark, OpenBrace, CloseBrace, BlockEnds, Names, Simple, UnaryOps, LineParen

LEMMA LuaForlistIs ==
    \A t :
        /\ t = Comma => Lua55!Optional("forlist", t) = Word3(Expect(Comma), Expect("Name"),
             Parse("forlist"))
        /\ t # Comma => Lua55!Optional("forlist", t) = <<>>
BY Zenon DEF Lua55!Optional, Lua55!Expr, Lua55!SubExpr, Lua55!ExpList, Lua55!Suffixed, Lua55!Constructor,
   Lua55!Body, Lua55!ForBody, Lua55!RetStat, Lua55!Assignable, Lua55!Calls, Lua55!Operators,
   Lua55!Prefixes, Lua55!Is51, Lua55!Expect, Lua55!Parse, Lua55!Climb, Lua55!Node, Lua55!Shape, Lua55!Fail,
   Lua55!Unop, Lua55!Binop, Lua55!BlockEnds, Lua55!Names, Lua55!Simple, Lua55!UnaryOps, Lua55!LineParen,
   Expect, Parse, Climb, Node, Shape, Fail, Unop, Binop, On, Word1, Word2, Word3, Word4, Word5, Comma,
   SemiMark, OpenBrace, CloseBrace, BlockEnds, Names, Simple, UnaryOps, LineParen

-----------------------------------------------------------------------------
(* Every procedure pushes a word of the vocabulary.                        *)
LEMMA OursProcedures ==
    \A t, x :
      /\ Procedure("block", t, x) = ParseBlock(t)
      /\ Procedure("rest", t, x) = Rest
      /\ Procedure("semicolon", t, x) = Semicolon(t)
      /\ Procedure("values", t, x) = Values(t)
      /\ Procedure("statement", t, x) = ParseStatement(t)
      /\ Procedure("local", t, x) = ParseLocal(t)
      /\ Procedure("more_names", t, x) = MoreNames(t)
      /\ Procedure("initializer", t, x) = Initializer(t)
      /\ Procedure("attribute", t, x) = ParseAttribute(t)
      /\ Procedure("attribute_name", t, x) = AttributeName(t)
      /\ Procedure("name_parts", t, x) = NameParts(t)
      /\ Procedure("params", t, x) = Params(t)
      /\ Procedure("param", t, x) = Param(t)
      /\ Procedure("more_params", t, x) = MoreParams(t)
      /\ Procedure("else_clauses", t, x) = ElseClauses(t)
      /\ Procedure("for", t, x) = ParseFor(t)
      /\ Procedure("step", t, x) = Stride(t)
      /\ Procedure("for_names", t, x) = ForNames(t)
      /\ Procedure("assign_or_call", t, x) = AssignOrCall(t, x)
      /\ Procedure("targets", t, x) = Targets(t)
      /\ Procedure("more_exprs", t, x) = MoreExprs(t)
      /\ Procedure("unary", t, x) = ParseUnary(t)
      /\ Procedure("suffixes", t, x) = MoreSuffixes(t)
      /\ Procedure("primary", t, x) = ParsePrimary(t)
      /\ Procedure("call_args", t, x) = ParseCallArgs(t)
      /\ Procedure("args", t, x) = Args(t)
      /\ Procedure("fields", t, x) = Fields(t)
      /\ Procedure("separator", t, x) = Separator(t)
      /\ Procedure("field", t, x) = ParseField(t)
      /\ Procedure("named_field", t, x) = NamedField(t)
BY DEF Procedure

LEMMA OursBlockIn == \A t : ParseBlock(t) \in Stack
BY OursBlockIs, SymbolsIn, TokensAre, ConstCloseIn, MarksIn, WordsIn, OnIs

LEMMA OursRestIn == \A t : Rest \in Stack
BY OursRestIs, SymbolsIn, TokensAre, ConstCloseIn, MarksIn, WordsIn, OnIs

LEMMA OursSemicolonIn == \A t : Semicolon(t) \in Stack
BY OursSemicolonIs, SymbolsIn, TokensAre, ConstCloseIn, MarksIn, WordsIn, OnIs

LEMMA OursValuesIn == \A t : Values(t) \in Stack
BY OursValuesIs, SymbolsIn, TokensAre, ConstCloseIn, MarksIn, WordsIn, OnIs

LEMMA OursStatementIn == \A t : ParseStatement(t) \in Stack
BY OursStatementIs, SymbolsIn, TokensAre, ConstCloseIn, MarksIn, WordsIn, OnIs

LEMMA OursLocalIn == \A t : ParseLocal(t) \in Stack
BY OursLocalIs, SymbolsIn, TokensAre, ConstCloseIn, MarksIn, WordsIn, OnIs

LEMMA OursMoreNamesIn == \A t : MoreNames(t) \in Stack
BY OursMoreNamesIs, SymbolsIn, TokensAre, ConstCloseIn, MarksIn, WordsIn, OnIs

LEMMA OursInitializerIn == \A t : Initializer(t) \in Stack
BY OursInitializerIs, SymbolsIn, TokensAre, ConstCloseIn, MarksIn, WordsIn, OnIs

LEMMA OursAttributeIn == \A t : ParseAttribute(t) \in Stack
BY OursAttributeIs, SymbolsIn, TokensAre, ConstCloseIn, MarksIn, WordsIn, OnIs

LEMMA OursAttributeNameIn == \A t : AttributeName(t) \in Stack
BY OursAttributeNameIs, SymbolsIn, TokensAre, ConstCloseIn, MarksIn, WordsIn, OnIs

LEMMA OursNamePartsIn == \A t : NameParts(t) \in Stack
BY OursNamePartsIs, SymbolsIn, TokensAre, ConstCloseIn, MarksIn, WordsIn, OnIs

LEMMA OursParamsIn == \A t : Params(t) \in Stack
BY OursParamsIs, SymbolsIn, TokensAre, ConstCloseIn, MarksIn, WordsIn, OnIs

LEMMA OursParamIn == \A t : Param(t) \in Stack
BY OursParamIs, SymbolsIn, TokensAre, ConstCloseIn, MarksIn, WordsIn, OnIs

LEMMA OursMoreParamsIn == \A t : MoreParams(t) \in Stack
BY OursMoreParamsIs, SymbolsIn, TokensAre, ConstCloseIn, MarksIn, WordsIn, OnIs

LEMMA OursElseClausesIn == \A t : ElseClauses(t) \in Stack
BY OursElseClausesIs, SymbolsIn, TokensAre, ConstCloseIn, MarksIn, WordsIn, OnIs

LEMMA OursForIn == \A t : ParseFor(t) \in Stack
BY OursForIs, SymbolsIn, TokensAre, ConstCloseIn, MarksIn, WordsIn, OnIs

LEMMA OursStepIn == \A t : Stride(t) \in Stack
BY OursStepIs, SymbolsIn, TokensAre, ConstCloseIn, MarksIn, WordsIn, OnIs

LEMMA OursForNamesIn == \A t : ForNames(t) \in Stack
BY OursForNamesIs, SymbolsIn, TokensAre, ConstCloseIn, MarksIn, WordsIn, OnIs

LEMMA OursAssignOrCallIn == \A t, x : AssignOrCall(t, x) \in Stack
BY OursAssignOrCallIs, SymbolsIn, TokensAre, ConstCloseIn, MarksIn, WordsIn, OnIs

LEMMA OursTargetsIn == \A t : Targets(t) \in Stack
BY OursTargetsIs, SymbolsIn, TokensAre, ConstCloseIn, MarksIn, WordsIn, OnIs

LEMMA OursMoreExprsIn == \A t : MoreExprs(t) \in Stack
BY OursMoreExprsIs, SymbolsIn, TokensAre, ConstCloseIn, MarksIn, WordsIn, OnIs

LEMMA OursUnaryIn == \A t : ParseUnary(t) \in Stack
BY OursUnaryIs, SymbolsIn, TokensAre, ConstCloseIn, MarksIn, WordsIn, OnIs

LEMMA OursSuffixesIn == \A t : MoreSuffixes(t) \in Stack
BY OursSuffixesIs, SymbolsIn, TokensAre, ConstCloseIn, MarksIn, WordsIn, OnIs

LEMMA OursPrimaryIn == \A t : ParsePrimary(t) \in Stack
BY OursPrimaryIs, SymbolsIn, TokensAre, ConstCloseIn, MarksIn, WordsIn, OnIs

LEMMA OursCallArgsIn == \A t : ParseCallArgs(t) \in Stack
BY OursCallArgsIs, SymbolsIn, TokensAre, ConstCloseIn, MarksIn, WordsIn, OnIs

LEMMA OursArgsIn == \A t : Args(t) \in Stack
BY OursArgsIs, SymbolsIn, TokensAre, ConstCloseIn, MarksIn, WordsIn, OnIs

LEMMA OursFieldsIn == \A t : Fields(t) \in Stack
BY OursFieldsIs, SymbolsIn, TokensAre, ConstCloseIn, MarksIn, WordsIn, OnIs

LEMMA OursSeparatorIn == \A t : Separator(t) \in Stack
BY OursSeparatorIs, SymbolsIn, TokensAre, ConstCloseIn, MarksIn, WordsIn, OnIs

LEMMA OursFieldIn == \A t : ParseField(t) \in Stack
BY OursFieldIs, SymbolsIn, TokensAre, ConstCloseIn, MarksIn, WordsIn, OnIs

LEMMA OursNamedFieldIn == \A t : NamedField(t) \in Stack
BY OursNamedFieldIs, SymbolsIn, TokensAre, ConstCloseIn, MarksIn, WordsIn, OnIs

LEMMA LuaProcedures ==
    \A t, x :
      /\ Lua55!LuaProcedure("statlist", t, x) = Lua55!StatList(t)
      /\ Lua55!LuaProcedure("primaryexp", t, x) = Lua55!PrimaryExp(t)
      /\ Lua55!LuaProcedure("suffixedexp", t, x) = Lua55!SuffixedExp(t)
      /\ Lua55!LuaProcedure("discharge", t, x) = Lua55!Discharge(x)
      /\ Lua55!LuaProcedure("funcargs", t, x) = Lua55!FuncArgs(t)
      /\ Lua55!LuaProcedure("subexpr", t, x) = Lua55!SubExprStart(t)
      /\ Lua55!LuaProcedure("exprstat", t, x) = Lua55!ExprStat(t, x)
      /\ Lua55!LuaProcedure("restassign", t, x) = Lua55!RestAssign(t, x)
      /\ Lua55!LuaProcedure("localstat", t, x) = Lua55!LocalStat(t)
      /\ Lua55!LuaProcedure("attrib", t, x) = Lua55!Attrib(t)
      /\ Lua55!LuaProcedure("attname", t, x) = Lua55!AttName(t)
      /\ Lua55!LuaProcedure("attnamelist", t, x) = Lua55!AttNameList(t, x)
      /\ Lua55!LuaProcedure("closed", t, x) = Lua55!Closed(t)
      /\ Lua55!LuaProcedure("closedlist", t, x) = Lua55!ClosedList(t)
      /\ Lua55!LuaProcedure("globalstat", t, x) = Lua55!GlobalStat(t)
      /\ Lua55!LuaProcedure("forstat", t, x) = Lua55!ForStat(t)
      /\ Lua55!LuaProcedure("test_then", t, x) = Lua55!TestThen(t)
      /\ Lua55!LuaProcedure("funcname", t, x) = Lua55!FuncName(t)
      /\ Lua55!LuaProcedure("parameter", t, x) = Lua55!Parameter(t)
      /\ Lua55!LuaProcedure("field", t, x) = Lua55!Field(t)
      /\ Lua55!LuaProcedure("recfield", t, x) = Lua55!RecField(t)
      /\ Lua55!LuaProcedure("semicolon", t, x) = Lua55!Optional("semicolon", t)
      /\ Lua55!LuaProcedure("retstat", t, x) = Lua55!Optional("retstat", t)
      /\ Lua55!LuaProcedure("explist", t, x) = Lua55!Optional("explist", t)
      /\ Lua55!LuaProcedure("init", t, x) = Lua55!Optional("init", t)
      /\ Lua55!LuaProcedure("args", t, x) = Lua55!Optional("args", t)
      /\ Lua55!LuaProcedure("parlist", t, x) = Lua55!Optional("parlist", t)
      /\ Lua55!LuaProcedure("morepars", t, x) = Lua55!Optional("morepars", t)
      /\ Lua55!LuaProcedure("vararg_name", t, x) = Lua55!Optional("vararg_name", t)
      /\ Lua55!LuaProcedure("constructor", t, x) = Lua55!Optional("constructor", t)
      /\ Lua55!LuaProcedure("fieldsep", t, x) = Lua55!Optional("fieldsep", t)
      /\ Lua55!LuaProcedure("fornum", t, x) = Lua55!Optional("fornum", t)
      /\ Lua55!LuaProcedure("forlist", t, x) = Lua55!Optional("forlist", t)
BY DEF Lua55!LuaProcedure

LEMMA LuaStatlistIn == \A t : Lua55!StatList(t) \in Stack
BY LuaStatlistIs, SymbolsIn, TokensAre, ConstCloseIn, MarksIn, WordsIn, OnIs

LEMMA LuaPrimaryexpIn == \A t : Lua55!PrimaryExp(t) \in Stack
BY LuaPrimaryexpIs, SymbolsIn, TokensAre, ConstCloseIn, MarksIn, WordsIn, OnIs

LEMMA LuaSuffixedexpIn == \A t : Lua55!SuffixedExp(t) \in Stack
BY LuaSuffixedexpIs, SymbolsIn, TokensAre, ConstCloseIn, MarksIn, WordsIn, OnIs

LEMMA LuaDischargeIn == \A x : Lua55!Discharge(x) \in Stack
BY LuaDischargeIs, SymbolsIn, TokensAre, ConstCloseIn, MarksIn, WordsIn, OnIs

LEMMA LuaFuncargsIn == \A t : Lua55!FuncArgs(t) \in Stack
BY LuaFuncargsIs, SymbolsIn, TokensAre, ConstCloseIn, MarksIn, WordsIn, OnIs

LEMMA LuaSubexprIn == \A t : Lua55!SubExprStart(t) \in Stack
BY LuaSubexprIs, SymbolsIn, TokensAre, ConstCloseIn, MarksIn, WordsIn, OnIs

LEMMA LuaExprstatIn == \A t, x : Lua55!ExprStat(t, x) \in Stack
BY LuaExprstatIs, SymbolsIn, TokensAre, ConstCloseIn, MarksIn, WordsIn, OnIs

LEMMA LuaRestassignIn == \A t, x : Lua55!RestAssign(t, x) \in Stack
BY LuaRestassignIs, SymbolsIn, TokensAre, ConstCloseIn, MarksIn, WordsIn, OnIs

LEMMA LuaLocalstatIn == \A t : Lua55!LocalStat(t) \in Stack
BY LuaLocalstatIs, SymbolsIn, TokensAre, ConstCloseIn, MarksIn, WordsIn, OnIs

LEMMA LuaAttribIn == \A t : Lua55!Attrib(t) \in Stack
BY LuaAttribIs, SymbolsIn, TokensAre, ConstCloseIn, MarksIn, WordsIn, OnIs

LEMMA LuaAttnameIn == \A t : Lua55!AttName(t) \in Stack
BY LuaAttnameIs, SymbolsIn, TokensAre, ConstCloseIn, MarksIn, WordsIn, OnIs

LEMMA LuaAttnamelistIn == \A t, x : Lua55!AttNameList(t, x) \in Stack
BY LuaAttnamelistIs, SymbolsIn, TokensAre, ConstCloseIn, MarksIn, WordsIn, OnIs

LEMMA LuaClosedIn == \A t : Lua55!Closed(t) \in Stack
BY LuaClosedIs, SymbolsIn, TokensAre, ConstCloseIn, MarksIn, WordsIn, OnIs

LEMMA LuaClosedlistIn == \A t : Lua55!ClosedList(t) \in Stack
BY LuaClosedlistIs, SymbolsIn, TokensAre, ConstCloseIn, MarksIn, WordsIn, OnIs

LEMMA LuaGlobalstatIn == \A t : Lua55!GlobalStat(t) \in Stack
BY LuaGlobalstatIs, SymbolsIn, TokensAre, ConstCloseIn, MarksIn, WordsIn, OnIs

LEMMA LuaForstatIn == \A t : Lua55!ForStat(t) \in Stack
BY LuaForstatIs, SymbolsIn, TokensAre, ConstCloseIn, MarksIn, WordsIn, OnIs

LEMMA LuaTestThenIn == \A t : Lua55!TestThen(t) \in Stack
BY LuaTestThenIs, SymbolsIn, TokensAre, ConstCloseIn, MarksIn, WordsIn, OnIs

LEMMA LuaFuncnameIn == \A t : Lua55!FuncName(t) \in Stack
BY LuaFuncnameIs, SymbolsIn, TokensAre, ConstCloseIn, MarksIn, WordsIn, OnIs

LEMMA LuaParameterIn == \A t : Lua55!Parameter(t) \in Stack
BY LuaParameterIs, SymbolsIn, TokensAre, ConstCloseIn, MarksIn, WordsIn, OnIs

LEMMA LuaFieldIn == \A t : Lua55!Field(t) \in Stack
BY LuaFieldIs, SymbolsIn, TokensAre, ConstCloseIn, MarksIn, WordsIn, OnIs

LEMMA LuaRecfieldIn == \A t : Lua55!RecField(t) \in Stack
BY LuaRecfieldIs, SymbolsIn, TokensAre, ConstCloseIn, MarksIn, WordsIn, OnIs

LEMMA LuaSemicolonIn == \A t : Lua55!Optional("semicolon", t) \in Stack
BY LuaSemicolonIs, SymbolsIn, TokensAre, ConstCloseIn, MarksIn, WordsIn, OnIs

LEMMA LuaRetstatIn == \A t : Lua55!Optional("retstat", t) \in Stack
BY LuaRetstatIs, SymbolsIn, TokensAre, ConstCloseIn, MarksIn, WordsIn, OnIs

LEMMA LuaExplistIn == \A t : Lua55!Optional("explist", t) \in Stack
BY LuaExplistIs, SymbolsIn, TokensAre, ConstCloseIn, MarksIn, WordsIn, OnIs

LEMMA LuaInitIn == \A t : Lua55!Optional("init", t) \in Stack
BY LuaInitIs, SymbolsIn, TokensAre, ConstCloseIn, MarksIn, WordsIn, OnIs

LEMMA LuaArgsIn == \A t : Lua55!Optional("args", t) \in Stack
BY LuaArgsIs, SymbolsIn, TokensAre, ConstCloseIn, MarksIn, WordsIn, OnIs

LEMMA LuaParlistIn == \A t : Lua55!Optional("parlist", t) \in Stack
BY LuaParlistIs, SymbolsIn, TokensAre, ConstCloseIn, MarksIn, WordsIn, OnIs

LEMMA LuaMoreparsIn == \A t : Lua55!Optional("morepars", t) \in Stack
BY LuaMoreparsIs, SymbolsIn, TokensAre, ConstCloseIn, MarksIn, WordsIn, OnIs

LEMMA LuaVarargNameIn == \A t : Lua55!Optional("vararg_name", t) \in Stack
BY LuaVarargNameIs, SymbolsIn, TokensAre, ConstCloseIn, MarksIn, WordsIn, OnIs

LEMMA LuaConstructorIn == \A t : Lua55!Optional("constructor", t) \in Stack
BY LuaConstructorIs, SymbolsIn, TokensAre, ConstCloseIn, MarksIn, WordsIn, OnIs

LEMMA LuaFieldsepIn == \A t : Lua55!Optional("fieldsep", t) \in Stack
BY LuaFieldsepIs, SymbolsIn, TokensAre, ConstCloseIn, MarksIn, WordsIn, OnIs

LEMMA LuaFornumIn == \A t : Lua55!Optional("fornum", t) \in Stack
BY LuaFornumIs, SymbolsIn, TokensAre, ConstCloseIn, MarksIn, WordsIn, OnIs

LEMMA LuaForlistIn == \A t : Lua55!Optional("forlist", t) \in Stack
BY LuaForlistIs, SymbolsIn, TokensAre, ConstCloseIn, MarksIn, WordsIn, OnIs

-----------------------------------------------------------------------------
(* Operators, and the rules as functions on all symbols and tokens.        *)
(* The operator t binds more tightly than the one on its left.             *)
Climbs(op, t) == t \in BinaryOps /\ BindingPower(t)[1] >= MinPrec(op)

LEMMA OursClimbIs ==
    \A op, t :
        /\ Climbs(op, t) => PeekBinaryOp(op, t) = On(On(Word1(Expect(t)), Word2(Parse("unary"), Climb(t))),
             Word2(Binop(t), Climb(op)))
        /\ ~Climbs(op, t) => PeekBinaryOp(op, t) = <<>>
BY Zenon DEF PeekBinaryOp, Climbs, Operand, On, Word1, Word2

LEMMA LuaClimbIs ==
    \A op, t : op \in LeftOf =>
        /\ Climbs(op, t) => Lua55!BinaryOp(op,
             t) = On(On(Word1(Expect(t)), Word2(Parse("subexpr"), Climb(t))), Word2(Binop(t), Climb(op)))
        /\ ~Climbs(op, t) => Lua55!BinaryOp(op, t) = <<>>
<1> SUFFICES ASSUME NEW op \in LeftOf, NEW t
             PROVE  /\ Climbs(op, t) => Lua55!BinaryOp(op,
                         t) = On(On(Word1(Expect(t)), Word2(Parse("subexpr"), Climb(t))),
                         Word2(Binop(t), Climb(op)))
                    /\ ~Climbs(op, t) => Lua55!BinaryOp(op, t) = <<>>
  BY Zenon
<1>1. Climbs(op, t) <=> t \in Lua55!Operators /\ Lua55!Priority(t)[1] > Lua55!Limit(op)
  <2>1. Lua55!Operators = BinaryOps
    BY DEF Lua55!Operators, Lua55!BinaryOps, BinaryOps, Lua55!Is51
  <2> QED BY Zenon, <2>1, TablesAlike DEF Climbs
<1> QED BY Zenon, <1>1 DEF Lua55!BinaryOp, Lua55!SubExpr, Lua55!Expect, Lua55!Parse, Lua55!Climb,
           Lua55!Binop,
                          Expect, Parse, Climb, Binop, On, Word1, Word2

LEMMA ClimbSymbolsIn ==
    \A op, t : (op \in Vocabulary => Climb(op) \in Symbols)
        /\ (Climbs(op, t) => Climb(t) \in Symbols /\ Expect(t) \in Symbols /\ Binop(t) \in Symbols)
BY SymbolIs, TokensAre, SymbolsIn DEF Climbs

LEMMA OursClimbIn == \A op, t : op \in Vocabulary => PeekBinaryOp(op, t) \in Stack
BY OursClimbIs, ClimbSymbolsIn, SymbolsIn, WordsIn, OnIs

LEMMA LuaClimbIn == \A op, t : op \in Vocabulary => Lua55!BinaryOp(op, t) \in Stack
<1> SUFFICES ASSUME NEW op \in Vocabulary, NEW t PROVE Lua55!BinaryOp(op, t) \in Stack
  OBVIOUS
<1>1. Lua55!Operators = BinaryOps
  BY DEF Lua55!Operators, Lua55!BinaryOps, BinaryOps, Lua55!Is51
<1>2. t \in BinaryOps => On(On(Word1(Expect(t)), Word2(Parse("subexpr"), Climb(t))),
          Word2(Binop(t), Climb(op))) \in Stack
  BY SymbolIs, TokensAre, SymbolsIn, WordsIn, OnIs
<1>3. Lua55!BinaryOp(op, t) = On(On(Word1(Expect(t)), Word2(Parse("subexpr"), Climb(t))),
          Word2(Binop(t), Climb(op)))
      \/ Lua55!BinaryOp(op, t) = <<>>
  BY Zenon DEF Lua55!BinaryOp, Lua55!SubExpr, Lua55!Expect, Lua55!Parse, Lua55!Climb, Lua55!Binop,
               Expect, Parse, Climb, Binop, On, Word1, Word2
<1>4. t \notin BinaryOps => Lua55!BinaryOp(op, t) = <<>>
  BY Zenon, <1>1 DEF Lua55!BinaryOp
<1> QED BY <1>2, <1>3, <1>4, OnIs

LEMMA OursRuleIn == OursRule \in Rules
<1>1. \A p, t, x : Procedure(p, t, x) \in Stack
  <2>1. ASSUME NEW p, NEW t, NEW x,
                   p \in {"block", "rest", "semicolon", "values", "statement", "local", "more_names",
                   "initializer", "attribute", "attribute_name", "name_parts", "params", "param",
                   "more_params", "else_clauses", "for", "step", "for_names", "assign_or_call", "targets",
                   "more_exprs", "unary", "suffixes", "primary", "call_args", "args", "fields",
                   "separator", "field", "named_field"} PROVE Procedure(p, t, x) \in Stack
    BY <2>1, OursProcedures, OursBlockIn, OursRestIn, OursSemicolonIn, OursValuesIn, OursStatementIn,
       OursLocalIn, OursMoreNamesIn, OursInitializerIn, OursAttributeIn, OursAttributeNameIn,
       OursNamePartsIn, OursParamsIn, OursParamIn, OursMoreParamsIn, OursElseClausesIn, OursForIn,
       OursStepIn, OursForNamesIn, OursAssignOrCallIn, OursTargetsIn, OursMoreExprsIn, OursUnaryIn,
       OursSuffixesIn, OursPrimaryIn, OursCallArgsIn, OursArgsIn, OursFieldsIn, OursSeparatorIn,
       OursFieldIn, OursNamedFieldIn
  <2>2. ASSUME NEW p, NEW t, NEW x,
                   p \notin {"block", "rest", "semicolon", "values", "statement", "local", "more_names",
                   "initializer", "attribute", "attribute_name", "name_parts", "params", "param",
                   "more_params", "else_clauses", "for", "step", "for_names", "assign_or_call", "targets",
                   "more_exprs", "unary", "suffixes", "primary", "call_args", "args", "fields",
                   "separator", "field", "named_field"} PROVE Procedure(p, t, x) = <<>>
    BY Zenon, <2>2 DEF Procedure, Rest
  <2> QED BY <2>1, <2>2, Flat0
<1>2. ASSUME NEW a \in Symbols, NEW t, NEW x PROVE ParserRule(a, t, x) \in Stack
  <2>1. a[2] \in Vocabulary
    BY DEF Symbols
  <2> QED BY Zenon, <1>1, <2>1, OursClimbIn DEF ParserRule
<1> QED BY <1>2 DEF Rules, OursRule

LEMMA LuaRuleIn == LuasRule \in Rules
<1>1. \A p, t, x : Lua55!LuaProcedure(p, t, x) \in Stack
  <2>1. ASSUME NEW p, NEW t, NEW x,
                   p \in {"statlist", "primaryexp", "suffixedexp", "discharge", "funcargs", "subexpr",
                   "exprstat", "restassign", "localstat", "attrib", "attname", "attnamelist", "closed",
                   "closedlist", "globalstat", "forstat", "test_then", "funcname", "parameter", "field",
                   "recfield", "semicolon", "retstat", "explist", "init", "args", "parlist", "morepars",
                   "vararg_name", "constructor", "fieldsep", "fornum", "forlist"}
                   PROVE Lua55!LuaProcedure(p, t, x) \in Stack
    BY <2>1, LuaProcedures, LuaStatlistIn, LuaPrimaryexpIn, LuaSuffixedexpIn, LuaDischargeIn,
       LuaFuncargsIn, LuaSubexprIn, LuaExprstatIn, LuaRestassignIn, LuaLocalstatIn, LuaAttribIn,
       LuaAttnameIn, LuaAttnamelistIn, LuaClosedIn, LuaClosedlistIn, LuaGlobalstatIn, LuaForstatIn,
       LuaTestThenIn, LuaFuncnameIn, LuaParameterIn, LuaFieldIn, LuaRecfieldIn, LuaSemicolonIn,
       LuaRetstatIn, LuaExplistIn, LuaInitIn, LuaArgsIn, LuaParlistIn, LuaMoreparsIn, LuaVarargNameIn,
       LuaConstructorIn, LuaFieldsepIn, LuaFornumIn, LuaForlistIn
  <2>2. ASSUME NEW p, NEW t, NEW x,
                   p \notin {"statlist", "primaryexp", "suffixedexp", "discharge", "funcargs", "subexpr",
                   "exprstat", "restassign", "localstat", "attrib", "attname", "attnamelist", "closed",
                   "closedlist", "globalstat", "forstat", "test_then", "funcname", "parameter", "field",
                   "recfield", "semicolon", "retstat", "explist", "init", "args", "parlist", "morepars",
                   "vararg_name", "constructor", "fieldsep", "fornum", "forlist"}
                   PROVE Lua55!LuaProcedure(p, t, x) = <<>>
    BY Zenon, <2>2 DEF Lua55!LuaProcedure, Lua55!Optional
  <2> QED BY <2>1, <2>2, Flat0
<1>2. ASSUME NEW a \in Symbols, NEW t, NEW x PROVE Lua55!LuaRule(a, t, x) \in Stack
  <2>1. a[2] \in Vocabulary
    BY DEF Symbols
  <2> QED BY Zenon, <1>1, <2>1, LuaClimbIn DEF Lua55!LuaRule
<1> QED BY <1>2 DEF Rules, LuasRule

(* What a procedure puts on the stack, put there.                          *)
LEMMA OursRuleDoes ==
    ASSUME NEW i \in Tokens55, i # <<>>, NEW a \in Symbols, a[1] \in {"parse", "climb"}, NEW s \in Stack,
               NEW r \in Regs,
           NEW P, ParserRule(a, Head(i), r.last) = P
    PROVE  /\ P = <<>> => ReadOurs(i, Push(a, s), r) = ReadOurs(i, s, r)
           /\ ~Fails(P) => ReadOurs(i, Push(a, s), r) = ReadOurs(i, On(P, s), r)
           /\ P = Word1(Fail("none")) => ReadOurs(i, Push(a, s), r) = Refusal("none")
           /\ P = Word1(Fail("no_variable")) => ReadOurs(i, Push(a, s), r) = Refusal("no_variable")
<1>1. Head(i) \in Vocabulary /\ r.last \in Vocabulary
  BY HeadTailProperties, RegsIn DEF Tokens55
<1>2. OursRule[a, Head(i), r.last] = P
  BY <1>1 DEF OursRule
<1>3. ReadOurs(i, Push(a, s), r) = IF Fails(P) THEN RunParser[Start(P)] ELSE ReadOurs(i, On(P, s), r)
  <2>1. OursRule \in Rules /\ IsRun(RunParser, OursRule) /\ RuleAt(OursRule, a, i, r) = P
            /\ Kind(a) \in {"parse", "climb"}
    BY OursRuleIn, OursRuns, <1>2 DEF RuleAt, Kind
  <2>2. /\ Fails(P) => ReadBy(RunParser, i, Push(a, s), r) = RunParser[Start(P)]
        /\ ~Fails(P) => ReadBy(RunParser, i, Push(a, s), r) = ReadBy(RunParser, i, On(P, s), r)
    BY <2>1, RunGoes
  <2> QED BY Zenon, <2>2 DEF ReadOurs, ReadBy
<1>4. /\ Fails(Word1(Fail("none"))) /\ Fails(Word1(Fail("no_variable"))) /\ ~Fails(<<>>) /\ On(<<>>, s) = s
  <2>1. /\ Word1(Fail("none")) # <<>> /\ Head(Word1(Fail("none"))) = Fail("none")
        /\ Word1(Fail("no_variable")) # <<>> /\ Head(Word1(Fail("no_variable"))) = Fail("no_variable")
    BY DEF Word1
  <2> QED BY <2>1, OnIs DEF Fails, Fail
<1>5. /\ RunParser[Start(Word1(Fail("none")))] = Refusal("none")
      /\ RunParser[Start(Word1(Fail("no_variable")))] = Refusal("no_variable")
  BY OursRuleIn, OursRuns, RunRests, VocabularyIs
<1> QED BY <1>3, <1>4, <1>5

LEMMA OursDoes ==
    ASSUME NEW i \in Tokens55, i # <<>>, NEW p \in Procedures, NEW s \in Stack
    PROVE  /\ \A P : (\A x : Procedure(p, Head(i), x) = P) =>
               /\ P = <<>> => OursTo(i, Push(Parse(p), s), s)
               /\ ~Fails(P) => OursTo(i, Push(Parse(p), s), On(P, s))
               /\ P = Word1(Fail("none")) => OursNo(i, Push(Parse(p), s))
           /\ \A r : r \in Regs => \A P : Procedure(p, Head(i), r.last) = P =>
               /\ P = <<>> => ReadOurs(i, Push(Parse(p), s), r) = ReadOurs(i, s, r)
               /\ ~Fails(P) => ReadOurs(i, Push(Parse(p), s), r) = ReadOurs(i, On(P, s), r)
               /\ P = Word1(Fail("none")) => ReadOurs(i, Push(Parse(p), s), r) = Refusal("none")
               /\ P = Word1(Fail("no_variable"))
                    => ReadOurs(i, Push(Parse(p), s), r) = Refusal("no_variable")
<1>1. Parse(p) \in Symbols /\ Parse(p)[1] = "parse" /\ Parse(p)[2] = p
  BY WordSymbols DEF Parse
<1>2. \A x : ParserRule(Parse(p), Head(i), x) = Procedure(p, Head(i), x)
  BY <1>1 DEF ParserRule
<1>3. ASSUME NEW r \in Regs, NEW P, Procedure(p, Head(i), r.last) = P
      PROVE  /\ P = <<>> => ReadOurs(i, Push(Parse(p), s), r) = ReadOurs(i, s, r)
             /\ ~Fails(P) => ReadOurs(i, Push(Parse(p), s), r) = ReadOurs(i, On(P, s), r)
             /\ P = Word1(Fail("none")) => ReadOurs(i, Push(Parse(p), s), r) = Refusal("none")
             /\ P = Word1(Fail("no_variable")) => ReadOurs(i, Push(Parse(p), s), r) = Refusal("no_variable")
  <2>1. ParserRule(Parse(p), Head(i), r.last) = P
    BY <1>2, <1>3
  <2> QED BY <1>1, <2>1, OursRuleDoes
<1>4. \A r : r \in Regs => \A P : Procedure(p, Head(i), r.last) = P =>
        /\ P = <<>> => ReadOurs(i, Push(Parse(p), s), r) = ReadOurs(i, s, r)
        /\ ~Fails(P) => ReadOurs(i, Push(Parse(p), s), r) = ReadOurs(i, On(P, s), r)
        /\ P = Word1(Fail("none")) => ReadOurs(i, Push(Parse(p), s), r) = Refusal("none")
        /\ P = Word1(Fail("no_variable")) => ReadOurs(i, Push(Parse(p), s), r) = Refusal("no_variable")
  BY <1>3
<1> QED BY Zenon, <1>4 DEF OursTo, OursNo

LEMMA OursClimb ==
    ASSUME NEW i \in Tokens55, i # <<>>, NEW t, t = Head(i), NEW s \in Stack, NEW op \in LeftOf
    PROVE  /\ ~Climbs(op, t) => OursTo(i, Push(Climb(op), s), s)
           /\ Climbs(op, t) => OursTo(i, Push(Climb(op), s),
                Push(Expect(t), Push(Parse("unary"), Push(Climb(t), Push(Binop(t), Push(Climb(op), s))))))
<1>0. op \in Vocabulary
  BY TokensAre, VocabularyIs DEF LeftOf
<1>1. Climb(op) \in Symbols /\ Climb(op)[1] = "climb" /\ Climb(op)[2] = op
  BY <1>0, SymbolIs DEF Climb
<1>2. \A x : ParserRule(Climb(op), t, x) = PeekBinaryOp(op, t)
  BY <1>1 DEF ParserRule
<1> DEFINE P == PeekBinaryOp(op, t)
<1>3. ASSUME NEW r \in Regs
      PROVE  /\ P = <<>> => ReadOurs(i, Push(Climb(op), s), r) = ReadOurs(i, s, r)
             /\ ~Fails(P) => ReadOurs(i, Push(Climb(op), s), r) = ReadOurs(i, On(P, s), r)
  <2>1. ParserRule(Climb(op), Head(i), r.last) = P
    BY <1>2
  <2> HIDE DEF P
  <2> QED BY <1>1, <2>1, OursRuleDoes
<1>4. Climbs(op, t) => ~Fails(P)
          /\ On(P, s) = Push(Expect(t),
          Push(Parse("unary"), Push(Climb(t), Push(Binop(t), Push(Climb(op), s)))))
  BY <1>0, OursClimbIs, ClimbSymbolsIn, SymbolsIn, WordRules, OnIs, GoesAre
<1>5. ~Climbs(op, t) => P = <<>>
  BY OursClimbIs
<1> HIDE DEF P
<1> QED BY <1>3, <1>4, <1>5 DEF OursTo

(* What a procedure puts on the stack, put there.                          *)
LEMMA LuaRuleDoes ==
    ASSUME NEW i \in Tokens55, i # <<>>, NEW a \in Symbols, a[1] \in {"parse", "climb"}, NEW s \in Stack,
               NEW r \in Regs,
           NEW P, Lua55!LuaRule(a, Head(i), r.last) = P
    PROVE  /\ P = <<>> => ReadLua(i, Push(a, s), r) = ReadLua(i, s, r)
           /\ ~Fails(P) => ReadLua(i, Push(a, s), r) = ReadLua(i, On(P, s), r)
           /\ P = Word1(Fail("none")) => ReadLua(i, Push(a, s), r) = Refusal("none")
           /\ P = Word1(Fail("no_variable")) => ReadLua(i, Push(a, s), r) = Refusal("no_variable")
<1>1. Head(i) \in Vocabulary /\ r.last \in Vocabulary
  BY HeadTailProperties, RegsIn DEF Tokens55
<1>2. LuasRule[a, Head(i), r.last] = P
  BY <1>1 DEF LuasRule
<1>3. ReadLua(i, Push(a, s), r) = IF Fails(P) THEN RunLua55[Start(P)] ELSE ReadLua(i, On(P, s), r)
  <2>1. LuasRule \in Rules /\ IsRun(RunLua55, LuasRule) /\ RuleAt(LuasRule, a, i, r) = P
            /\ Kind(a) \in {"parse", "climb"}
    BY LuaRuleIn, LuaRuns, <1>2 DEF RuleAt, Kind
  <2>2. /\ Fails(P) => ReadBy(RunLua55, i, Push(a, s), r) = RunLua55[Start(P)]
        /\ ~Fails(P) => ReadBy(RunLua55, i, Push(a, s), r) = ReadBy(RunLua55, i, On(P, s), r)
    BY <2>1, RunGoes
  <2> QED BY Zenon, <2>2 DEF ReadLua, ReadBy
<1>4. /\ Fails(Word1(Fail("none"))) /\ Fails(Word1(Fail("no_variable"))) /\ ~Fails(<<>>) /\ On(<<>>, s) = s
  <2>1. /\ Word1(Fail("none")) # <<>> /\ Head(Word1(Fail("none"))) = Fail("none")
        /\ Word1(Fail("no_variable")) # <<>> /\ Head(Word1(Fail("no_variable"))) = Fail("no_variable")
    BY DEF Word1
  <2> QED BY <2>1, OnIs DEF Fails, Fail
<1>5. /\ RunLua55[Start(Word1(Fail("none")))] = Refusal("none")
      /\ RunLua55[Start(Word1(Fail("no_variable")))] = Refusal("no_variable")
  BY LuaRuleIn, LuaRuns, RunRests, VocabularyIs
<1> QED BY <1>3, <1>4, <1>5

LEMMA LuaDoes ==
    ASSUME NEW i \in Tokens55, i # <<>>, NEW p \in Lua55!LuaProcedures, NEW s \in Stack
    PROVE  /\ \A P : (\A x : Lua55!LuaProcedure(p, Head(i), x) = P) =>
               /\ P = <<>> => LuaTo(i, Push(Parse(p), s), s)
               /\ ~Fails(P) => LuaTo(i, Push(Parse(p), s), On(P, s))
               /\ P = Word1(Fail("none")) => LuaNo(i, Push(Parse(p), s))
           /\ \A r : r \in Regs => \A P : Lua55!LuaProcedure(p, Head(i), r.last) = P =>
               /\ P = <<>> => ReadLua(i, Push(Parse(p), s), r) = ReadLua(i, s, r)
               /\ ~Fails(P) => ReadLua(i, Push(Parse(p), s), r) = ReadLua(i, On(P, s), r)
               /\ P = Word1(Fail("none")) => ReadLua(i, Push(Parse(p), s), r) = Refusal("none")
               /\ P = Word1(Fail("no_variable"))
                    => ReadLua(i, Push(Parse(p), s), r) = Refusal("no_variable")
<1>1. Parse(p) \in Symbols /\ Parse(p)[1] = "parse" /\ Parse(p)[2] = p
  BY WordSymbols DEF Parse
<1>2. \A x : Lua55!LuaRule(Parse(p), Head(i), x) = Lua55!LuaProcedure(p, Head(i), x)
  BY <1>1 DEF Lua55!LuaRule
<1>3. ASSUME NEW r \in Regs, NEW P, Lua55!LuaProcedure(p, Head(i), r.last) = P
      PROVE  /\ P = <<>> => ReadLua(i, Push(Parse(p), s), r) = ReadLua(i, s, r)
             /\ ~Fails(P) => ReadLua(i, Push(Parse(p), s), r) = ReadLua(i, On(P, s), r)
             /\ P = Word1(Fail("none")) => ReadLua(i, Push(Parse(p), s), r) = Refusal("none")
             /\ P = Word1(Fail("no_variable")) => ReadLua(i, Push(Parse(p), s), r) = Refusal("no_variable")
  <2>1. Lua55!LuaRule(Parse(p), Head(i), r.last) = P
    BY <1>2, <1>3
  <2> QED BY <1>1, <2>1, LuaRuleDoes
<1>4. \A r : r \in Regs => \A P : Lua55!LuaProcedure(p, Head(i), r.last) = P =>
        /\ P = <<>> => ReadLua(i, Push(Parse(p), s), r) = ReadLua(i, s, r)
        /\ ~Fails(P) => ReadLua(i, Push(Parse(p), s), r) = ReadLua(i, On(P, s), r)
        /\ P = Word1(Fail("none")) => ReadLua(i, Push(Parse(p), s), r) = Refusal("none")
        /\ P = Word1(Fail("no_variable")) => ReadLua(i, Push(Parse(p), s), r) = Refusal("no_variable")
  BY <1>3
<1> QED BY Zenon, <1>4 DEF LuaTo, LuaNo

LEMMA LuaClimb ==
    ASSUME NEW i \in Tokens55, i # <<>>, NEW t, t = Head(i), NEW s \in Stack, NEW op \in LeftOf
    PROVE  /\ ~Climbs(op, t) => LuaTo(i, Push(Climb(op), s), s)
           /\ Climbs(op, t) => LuaTo(i, Push(Climb(op), s),
                Push(Expect(t), Push(Parse("subexpr"), Push(Climb(t), Push(Binop(t), Push(Climb(op), s))))))
<1>0. op \in Vocabulary
  BY TokensAre, VocabularyIs DEF LeftOf
<1>1. Climb(op) \in Symbols /\ Climb(op)[1] = "climb" /\ Climb(op)[2] = op
  BY <1>0, SymbolIs DEF Climb
<1>2. \A x : Lua55!LuaRule(Climb(op), t, x) = Lua55!BinaryOp(op, t)
  BY <1>1 DEF Lua55!LuaRule
<1> DEFINE P == Lua55!BinaryOp(op, t)
<1>3. ASSUME NEW r \in Regs
      PROVE  /\ P = <<>> => ReadLua(i, Push(Climb(op), s), r) = ReadLua(i, s, r)
             /\ ~Fails(P) => ReadLua(i, Push(Climb(op), s), r) = ReadLua(i, On(P, s), r)
  <2>1. Lua55!LuaRule(Climb(op), Head(i), r.last) = P
    BY <1>2
  <2> HIDE DEF P
  <2> QED BY <1>1, <2>1, LuaRuleDoes
<1>4. Climbs(op, t) => ~Fails(P)
          /\ On(P, s) = Push(Expect(t),
          Push(Parse("subexpr"), Push(Climb(t), Push(Binop(t), Push(Climb(op), s)))))
  BY <1>0, LuaClimbIs, ClimbSymbolsIn, SymbolsIn, WordRules, OnIs, GoesAre
<1>5. ~Climbs(op, t) => P = <<>>
  BY LuaClimbIs
<1> HIDE DEF P
<1> QED BY <1>3, <1>4, <1>5 DEF LuaTo

-----------------------------------------------------------------------------
(* The equations of the readers: where a procedure is on top of the stack, *)
(* reading goes on with what it stands for, or refuses.                    *)
(* Lua refuses, as what it has read is no variable.                        *)
LuaNoVariable(i, A) == \A r : r \in Regs => ReadLua(i, A, r) = Refusal("no_variable")

LEMMA OursGo ==
    \A i, p, s, P : i \in Tokens55 /\ i # <<>> /\ p \in Procedures /\ s \in Stack
        /\ (\A x : Procedure(p, Head(i), x) = P) =>
        /\ P = <<>> => OursTo(i, Push(Parse(p), s), s)
        /\ ~Fails(P) => OursTo(i, Push(Parse(p), s), On(P, s))
        /\ P = Word1(Fail("none")) => OursNo(i, Push(Parse(p), s))
BY OursDoes

LEMMA LuaGo ==
    \A i, p, s, P : i \in Tokens55 /\ i # <<>> /\ p \in Lua55!LuaProcedures /\ s \in Stack
                     /\ (\A x : Lua55!LuaProcedure(p, Head(i), x) = P) =>
        /\ P = <<>> => LuaTo(i, Push(Parse(p), s), s)
        /\ ~Fails(P) => LuaTo(i, Push(Parse(p), s), On(P, s))
        /\ P = Word1(Fail("none")) => LuaNo(i, Push(Parse(p), s))
        /\ P = Word1(Fail("no_variable")) => LuaNoVariable(i, Push(Parse(p), s))
<1>1. \A i, p, s, P : i \in Tokens55 /\ i # <<>> /\ p \in Lua55!LuaProcedures /\ s \in Stack
                     /\ (\A x : Lua55!LuaProcedure(p, Head(i), x) = P) =>
        /\ P = <<>> => LuaTo(i, Push(Parse(p), s), s)
        /\ ~Fails(P) => LuaTo(i, Push(Parse(p), s), On(P, s))
        /\ P = Word1(Fail("none")) => LuaNo(i, Push(Parse(p), s))
  BY LuaDoes
<1>2. ASSUME NEW i \in Tokens55, i # <<>>, NEW p \in Lua55!LuaProcedures, NEW s \in Stack,
             \A x : Lua55!LuaProcedure(p, Head(i), x) = Word1(Fail("no_variable"))
      PROVE  LuaNoVariable(i, Push(Parse(p), s))
  BY <1>2, LuaDoes DEF LuaNoVariable
<1> QED BY <1>1, <1>2

LEMMA OursBlock ==
    ASSUME NEW i \in Tokens55, i # <<>>, NEW t, t = Head(i), NEW s \in Stack
    PROVE  /\ t \in BlockEnds => OursTo(i, Push(Parse("block"), s), s)
           /\ t = SemiMark => OursTo(i, Push(Parse("block"), s),
                Push(Expect(SemiMark), Push(Parse("block"), s)))
           /\ t = "return" => OursTo(i, Push(Parse("block"), s),
                Push(Expect("return"),
                Push(Parse("values"), Push(Node("return"), Push(Parse("semicolon"), s)))))
           /\ (t \notin BlockEnds /\ t # SemiMark /\ t # "return")
                => OursTo(i, Push(Parse("block"), s), Push(Parse("statement"), Push(Parse("block"), s)))
<1>1. /\ t \in BlockEnds => ParseBlock(t) = <<>>
      /\ t = SemiMark => ~Fails(ParseBlock(t))
           /\ On(ParseBlock(t), s) = Push(Expect(SemiMark), Push(Parse("block"), s))
      /\ t = "return" => ~Fails(ParseBlock(t))
           /\ On(ParseBlock(t), s) = Push(Expect("return"),
           Push(Parse("values"), Push(Node("return"), Push(Parse("semicolon"), s))))
      /\ (t \notin BlockEnds /\ t # SemiMark /\ t # "return") => ~Fails(ParseBlock(t))
           /\ On(ParseBlock(t), s) = Push(Parse("statement"), Push(Parse("block"), s))
  BY OursBlockIs, SymbolsIn, TokensAre, ConstCloseIn, MarksIn, WordRules, OnIs, GoesAre
<1>2. /\ ParseBlock(t) = <<>> => OursTo(i, Push(Parse("block"), s), s)
      /\ ~Fails(ParseBlock(t)) => OursTo(i, Push(Parse("block"), s), On(ParseBlock(t), s))
  <2>1. \A x : Procedure("block", Head(i), x) = ParseBlock(t)
    BY OursProcedures
  <2> QED BY Zenon, <2>1, ProcsIn, OursGo
<1> QED BY Zenon, <1>1, <1>2

LEMMA OursRest ==
    ASSUME NEW i \in Tokens55, i # <<>>, NEW t, t = Head(i), NEW s \in Stack
    PROVE  /\ OursTo(i, Push(Parse("rest"), s), s)
<1>1. /\ Rest = <<>>
  BY OursRestIs, SymbolsIn, TokensAre, ConstCloseIn, MarksIn, WordRules, OnIs, GoesAre
<1>2. /\ Rest = <<>> => OursTo(i, Push(Parse("rest"), s), s)
  <2>1. \A x : Procedure("rest", Head(i), x) = Rest
    BY OursProcedures
  <2> QED BY Zenon, <2>1, ProcsIn, OursGo
<1> QED BY Zenon, <1>1, <1>2

LEMMA OursSemicolon ==
    ASSUME NEW i \in Tokens55, i # <<>>, NEW t, t = Head(i), NEW s \in Stack
    PROVE  /\ t = SemiMark => OursTo(i, Push(Parse("semicolon"), s), Push(Expect(SemiMark), s))
           /\ t # SemiMark => OursTo(i, Push(Parse("semicolon"), s), s)
<1>1. /\ t = SemiMark => ~Fails(Semicolon(t)) /\ On(Semicolon(t), s) = Push(Expect(SemiMark), s)
      /\ t # SemiMark => Semicolon(t) = <<>>
  BY OursSemicolonIs, SymbolsIn, TokensAre, ConstCloseIn, MarksIn, WordRules, OnIs, GoesAre
<1>2. /\ Semicolon(t) = <<>> => OursTo(i, Push(Parse("semicolon"), s), s)
      /\ ~Fails(Semicolon(t)) => OursTo(i, Push(Parse("semicolon"), s), On(Semicolon(t), s))
  <2>1. \A x : Procedure("semicolon", Head(i), x) = Semicolon(t)
    BY OursProcedures
  <2> QED BY Zenon, <2>1, ProcsIn, OursGo
<1> QED BY Zenon, <1>1, <1>2

LEMMA OursValues ==
    ASSUME NEW i \in Tokens55, i # <<>>, NEW t, t = Head(i), NEW s \in Stack
    PROVE  /\ (t \in BlockEnds \/ t = SemiMark) => OursTo(i, Push(Parse("values"), s), s)
           /\ (t \notin BlockEnds /\ t # SemiMark)
                => OursTo(i, Push(Parse("values"), s),
                Push(Parse("unary"), Push(Climb("none"), Push(Parse("more_exprs"), s))))
<1>1. /\ (t \in BlockEnds \/ t = SemiMark) => Values(t) = <<>>
      /\ (t \notin BlockEnds /\ t # SemiMark) => ~Fails(Values(t))
           /\ On(Values(t), s) = Push(Parse("unary"), Push(Climb("none"), Push(Parse("more_exprs"), s)))
  BY OursValuesIs, SymbolsIn, TokensAre, ConstCloseIn, MarksIn, WordRules, OnIs, GoesAre
<1>2. /\ Values(t) = <<>> => OursTo(i, Push(Parse("values"), s), s)
      /\ ~Fails(Values(t)) => OursTo(i, Push(Parse("values"), s), On(Values(t), s))
  <2>1. \A x : Procedure("values", Head(i), x) = Values(t)
    BY OursProcedures
  <2> QED BY Zenon, <2>1, ProcsIn, OursGo
<1> QED BY Zenon, <1>1, <1>2

LEMMA OursStatement ==
    ASSUME NEW i \in Tokens55, i # <<>>, NEW t, t = Head(i), NEW s \in Stack
    PROVE  /\ t = "local" => OursTo(i, Push(Parse("statement"), s),
                Push(Expect("local"), Push(Parse("local"), s)))
           /\ t = "function" => OursTo(i, Push(Parse("statement"), s),
                Push(Expect("function"),
                Push(Expect("Name"),
                Push(Parse("name_parts"),
                Push(Expect("("), Push(Parse("params"),
                Push(Expect(")"), Push(Parse("block"),
                Push(Expect("end"), Push(Node("function_decl"), s))))))))))
           /\ t = "do" => OursTo(i, Push(Parse("statement"), s),
                Push(Expect("do"), Push(Parse("block"), Push(Expect("end"), Push(Node("do"), s)))))
           /\ t = "while" => OursTo(i, Push(Parse("statement"), s),
                Push(Expect("while"),
                Push(Parse("unary"),
                Push(Climb("none"), Push(Expect("do"),
                Push(Parse("block"), Push(Expect("end"), Push(Node("while"), s))))))))
           /\ t = "repeat" => OursTo(i, Push(Parse("statement"), s),
                Push(Expect("repeat"),
                Push(Parse("block"),
                Push(Expect("until"), Push(Parse("unary"), Push(Climb("none"), Push(Node("repeat"), s)))))))
           /\ t = "if" => OursTo(i, Push(Parse("statement"), s),
                Push(Expect("if"), Push(Parse("unary"),
                Push(Climb("none"), Push(Expect("then"),
                Push(Parse("block"),
                Push(Parse("else_clauses"), Push(Expect("end"), Push(Node("if"), s)))))))))
           /\ t = "for" => OursTo(i, Push(Parse("statement"), s),
                Push(Expect("for"), Push(Expect("Name"), Push(Parse("for"), s))))
           /\ t = "goto" => OursTo(i, Push(Parse("statement"), s),
                Push(Expect("goto"), Push(Expect("Name"), Push(Node("goto"), s))))
           /\ t = "::" => OursTo(i, Push(Parse("statement"), s),
                Push(Expect("::"), Push(Expect("Name"), Push(Expect("::"), Push(Node("label"), s)))))
           /\ t = "break" => OursTo(i, Push(Parse("statement"), s),
                Push(Expect("break"), Push(Node("break"), s)))
           /\ (t # "local" /\ t # "function" /\ t # "do" /\ t # "while" /\ t # "repeat" /\ t # "if"
                /\ t # "for" /\ t # "goto" /\ t # "::" /\ t # "break")
                => OursTo(i, Push(Parse("statement"), s),
                Push(Parse("primary"), Push(Parse("suffixes"), Push(Parse("assign_or_call"), s))))
<1>1. /\ t = "local" => ~Fails(ParseStatement(t))
           /\ On(ParseStatement(t), s) = Push(Expect("local"), Push(Parse("local"), s))
      /\ t = "function" => ~Fails(ParseStatement(t))
           /\ On(ParseStatement(t), s) = Push(Expect("function"),
           Push(Expect("Name"),
           Push(Parse("name_parts"),
           Push(Expect("("), Push(Parse("params"),
           Push(Expect(")"), Push(Parse("block"), Push(Expect("end"), Push(Node("function_decl"), s)))))))))
      /\ t = "do" => ~Fails(ParseStatement(t))
           /\ On(ParseStatement(t), s) = Push(Expect("do"),
           Push(Parse("block"), Push(Expect("end"), Push(Node("do"), s))))
      /\ t = "while" => ~Fails(ParseStatement(t))
           /\ On(ParseStatement(t), s) = Push(Expect("while"),
           Push(Parse("unary"),
           Push(Climb("none"), Push(Expect("do"),
           Push(Parse("block"), Push(Expect("end"), Push(Node("while"), s)))))))
      /\ t = "repeat" => ~Fails(ParseStatement(t))
           /\ On(ParseStatement(t), s) = Push(Expect("repeat"),
           Push(Parse("block"),
           Push(Expect("until"), Push(Parse("unary"), Push(Climb("none"), Push(Node("repeat"), s))))))
      /\ t = "if" => ~Fails(ParseStatement(t))
           /\ On(ParseStatement(t), s) = Push(Expect("if"),
           Push(Parse("unary"),
           Push(Climb("none"), Push(Expect("then"),
           Push(Parse("block"), Push(Parse("else_clauses"), Push(Expect("end"), Push(Node("if"), s))))))))
      /\ t = "for" => ~Fails(ParseStatement(t))
           /\ On(ParseStatement(t), s) = Push(Expect("for"), Push(Expect("Name"), Push(Parse("for"), s)))
      /\ t = "goto" => ~Fails(ParseStatement(t))
           /\ On(ParseStatement(t), s) = Push(Expect("goto"), Push(Expect("Name"), Push(Node("goto"), s)))
      /\ t = "::" => ~Fails(ParseStatement(t))
           /\ On(ParseStatement(t), s) = Push(Expect("::"),
           Push(Expect("Name"), Push(Expect("::"), Push(Node("label"), s))))
      /\ t = "break" => ~Fails(ParseStatement(t))
           /\ On(ParseStatement(t), s) = Push(Expect("break"), Push(Node("break"), s))
      /\ (t # "local" /\ t # "function" /\ t # "do" /\ t # "while" /\ t # "repeat" /\ t # "if" /\ t # "for"
           /\ t # "goto" /\ t # "::" /\ t # "break") => ~Fails(ParseStatement(t))
           /\ On(ParseStatement(t), s) = Push(Parse("primary"),
           Push(Parse("suffixes"), Push(Parse("assign_or_call"), s)))
  BY OursStatementIs, SymbolsIn, TokensAre, ConstCloseIn, MarksIn, WordRules, OnIs, GoesAre
<1>2. /\ ~Fails(ParseStatement(t)) => OursTo(i, Push(Parse("statement"), s), On(ParseStatement(t), s))
  <2>1. \A x : Procedure("statement", Head(i), x) = ParseStatement(t)
    BY OursProcedures
  <2> QED BY Zenon, <2>1, ProcsIn, OursGo
<1> QED BY <1>1, <1>2

LEMMA OursLocal ==
    ASSUME NEW i \in Tokens55, i # <<>>, NEW t, t = Head(i), NEW s \in Stack
    PROVE  /\ t = "function" => OursTo(i, Push(Parse("local"), s),
                Push(Expect("function"),
                Push(Expect("Name"),
                Push(Expect("("), Push(Parse("params"),
                Push(Expect(")"), Push(Parse("block"),
                Push(Expect("end"), Push(Node("local_function"), s)))))))))
           /\ t # "function" => OursTo(i, Push(Parse("local"), s),
                Push(Expect("Name"),
                Push(Parse("attribute"),
                Push(Parse("more_names"), Push(Parse("initializer"), Push(Node("local"), s))))))
<1>1. /\ t = "function" => ~Fails(ParseLocal(t))
           /\ On(ParseLocal(t), s) = Push(Expect("function"),
           Push(Expect("Name"),
           Push(Expect("("), Push(Parse("params"),
           Push(Expect(")"), Push(Parse("block"), Push(Expect("end"), Push(Node("local_function"), s))))))))
      /\ t # "function" => ~Fails(ParseLocal(t))
           /\ On(ParseLocal(t), s) = Push(Expect("Name"),
           Push(Parse("attribute"),
           Push(Parse("more_names"), Push(Parse("initializer"), Push(Node("local"), s)))))
  BY OursLocalIs, SymbolsIn, TokensAre, ConstCloseIn, MarksIn, WordRules, OnIs, GoesAre
<1>2. /\ ~Fails(ParseLocal(t)) => OursTo(i, Push(Parse("local"), s), On(ParseLocal(t), s))
  <2>1. \A x : Procedure("local", Head(i), x) = ParseLocal(t)
    BY OursProcedures
  <2> QED BY Zenon, <2>1, ProcsIn, OursGo
<1> QED BY Zenon, <1>1, <1>2

LEMMA OursMoreNames ==
    ASSUME NEW i \in Tokens55, i # <<>>, NEW t, t = Head(i), NEW s \in Stack
    PROVE  /\ t = Comma => OursTo(i, Push(Parse("more_names"), s),
                Push(Expect(Comma), Push(Expect("Name"),
                Push(Parse("attribute"), Push(Parse("more_names"), s)))))
           /\ t # Comma => OursTo(i, Push(Parse("more_names"), s), s)
<1>1. /\ t = Comma => ~Fails(MoreNames(t))
           /\ On(MoreNames(t), s) = Push(Expect(Comma),
           Push(Expect("Name"), Push(Parse("attribute"), Push(Parse("more_names"), s))))
      /\ t # Comma => MoreNames(t) = <<>>
  BY OursMoreNamesIs, SymbolsIn, TokensAre, ConstCloseIn, MarksIn, WordRules, OnIs, GoesAre
<1>2. /\ MoreNames(t) = <<>> => OursTo(i, Push(Parse("more_names"), s), s)
      /\ ~Fails(MoreNames(t)) => OursTo(i, Push(Parse("more_names"), s), On(MoreNames(t), s))
  <2>1. \A x : Procedure("more_names", Head(i), x) = MoreNames(t)
    BY OursProcedures
  <2> QED BY Zenon, <2>1, ProcsIn, OursGo
<1> QED BY Zenon, <1>1, <1>2

LEMMA OursInitializer ==
    ASSUME NEW i \in Tokens55, i # <<>>, NEW t, t = Head(i), NEW s \in Stack
    PROVE  /\ t = "=" => OursTo(i, Push(Parse("initializer"), s),
                Push(Expect("="), Push(Parse("unary"), Push(Climb("none"), Push(Parse("more_exprs"), s)))))
           /\ t # "=" => OursTo(i, Push(Parse("initializer"), s), s)
<1>1. /\ t = "=" => ~Fails(Initializer(t))
           /\ On(Initializer(t), s) = Push(Expect("="),
           Push(Parse("unary"), Push(Climb("none"), Push(Parse("more_exprs"), s))))
      /\ t # "=" => Initializer(t) = <<>>
  BY OursInitializerIs, SymbolsIn, TokensAre, ConstCloseIn, MarksIn, WordRules, OnIs, GoesAre
<1>2. /\ Initializer(t) = <<>> => OursTo(i, Push(Parse("initializer"), s), s)
      /\ ~Fails(Initializer(t)) => OursTo(i, Push(Parse("initializer"), s), On(Initializer(t), s))
  <2>1. \A x : Procedure("initializer", Head(i), x) = Initializer(t)
    BY OursProcedures
  <2> QED BY Zenon, <2>1, ProcsIn, OursGo
<1> QED BY Zenon, <1>1, <1>2

LEMMA OursAttribute ==
    ASSUME NEW i \in Tokens55, i # <<>>, NEW t, t = Head(i), NEW s \in Stack
    PROVE  /\ t = "<" => OursTo(i, Push(Parse("attribute"), s),
                Push(Expect("<"), Push(Parse("attribute_name"), s)))
           /\ t # "<" => OursTo(i, Push(Parse("attribute"), s), s)
<1>1. /\ t = "<" => ~Fails(ParseAttribute(t))
           /\ On(ParseAttribute(t), s) = Push(Expect("<"), Push(Parse("attribute_name"), s))
      /\ t # "<" => ParseAttribute(t) = <<>>
  BY OursAttributeIs, SymbolsIn, TokensAre, ConstCloseIn, MarksIn, WordRules, OnIs, GoesAre
<1>2. /\ ParseAttribute(t) = <<>> => OursTo(i, Push(Parse("attribute"), s), s)
      /\ ~Fails(ParseAttribute(t)) => OursTo(i, Push(Parse("attribute"), s), On(ParseAttribute(t), s))
  <2>1. \A x : Procedure("attribute", Head(i), x) = ParseAttribute(t)
    BY OursProcedures
  <2> QED BY Zenon, <2>1, ProcsIn, OursGo
<1> QED BY Zenon, <1>1, <1>2

LEMMA OursAttributeName ==
    ASSUME NEW i \in Tokens55, i # <<>>, NEW t, t = Head(i), NEW s \in Stack
    PROVE  /\ t \in {"const", "close"}
                => OursTo(i, Push(Parse("attribute_name"), s),
                Push(Expect(t), Push(Expect(">"), Push(Node(t), s))))
           /\ (t # "const" /\ t # "close") => OursNo(i, Push(Parse("attribute_name"), s))
<1>1. /\ t \in {"const", "close"} => ~Fails(AttributeName(t))
           /\ On(AttributeName(t), s) = Push(Expect(t), Push(Expect(">"), Push(Node(t), s)))
      /\ (t # "const" /\ t # "close") => AttributeName(t) = Word1(Fail("none"))
  BY OursAttributeNameIs, SymbolsIn, TokensAre, ConstCloseIn, MarksIn, WordRules, OnIs, GoesAre
<1>2. /\ ~Fails(AttributeName(t)) => OursTo(i, Push(Parse("attribute_name"), s), On(AttributeName(t), s))
      /\ AttributeName(t) = Word1(Fail("none")) => OursNo(i, Push(Parse("attribute_name"), s))
  <2>1. \A x : Procedure("attribute_name", Head(i), x) = AttributeName(t)
    BY OursProcedures
  <2> QED BY Zenon, <2>1, ProcsIn, OursGo
<1> QED BY Zenon, <1>1, <1>2

LEMMA OursNameParts ==
    ASSUME NEW i \in Tokens55, i # <<>>, NEW t, t = Head(i), NEW s \in Stack
    PROVE  /\ t = "." => OursTo(i, Push(Parse("name_parts"), s),
                Push(Expect("."), Push(Expect("Name"), Push(Node("part"), Push(Parse("name_parts"), s)))))
           /\ t = ":" => OursTo(i, Push(Parse("name_parts"), s),
                Push(Expect(":"), Push(Expect("Name"), Push(Node("method"), s))))
           /\ (t # "." /\ t # ":") => OursTo(i, Push(Parse("name_parts"), s), s)
<1>1. /\ t = "." => ~Fails(NameParts(t))
           /\ On(NameParts(t), s) = Push(Expect("."),
           Push(Expect("Name"), Push(Node("part"), Push(Parse("name_parts"), s))))
      /\ t = ":" => ~Fails(NameParts(t))
           /\ On(NameParts(t), s) = Push(Expect(":"), Push(Expect("Name"), Push(Node("method"), s)))
      /\ (t # "." /\ t # ":") => NameParts(t) = <<>>
  BY OursNamePartsIs, SymbolsIn, TokensAre, ConstCloseIn, MarksIn, WordRules, OnIs, GoesAre
<1>2. /\ NameParts(t) = <<>> => OursTo(i, Push(Parse("name_parts"), s), s)
      /\ ~Fails(NameParts(t)) => OursTo(i, Push(Parse("name_parts"), s), On(NameParts(t), s))
  <2>1. \A x : Procedure("name_parts", Head(i), x) = NameParts(t)
    BY OursProcedures
  <2> QED BY Zenon, <2>1, ProcsIn, OursGo
<1> QED BY Zenon, <1>1, <1>2

LEMMA OursParams ==
    ASSUME NEW i \in Tokens55, i # <<>>, NEW t, t = Head(i), NEW s \in Stack
    PROVE  /\ t = ")" => OursTo(i, Push(Parse("params"), s), s)
           /\ t # ")" => OursTo(i, Push(Parse("params"), s), Push(Parse("param"), s))
<1>1. /\ t = ")" => Params(t) = <<>>
      /\ t # ")" => ~Fails(Params(t)) /\ On(Params(t), s) = Push(Parse("param"), s)
  BY OursParamsIs, SymbolsIn, TokensAre, ConstCloseIn, MarksIn, WordRules, OnIs, GoesAre
<1>2. /\ Params(t) = <<>> => OursTo(i, Push(Parse("params"), s), s)
      /\ ~Fails(Params(t)) => OursTo(i, Push(Parse("params"), s), On(Params(t), s))
  <2>1. \A x : Procedure("params", Head(i), x) = Params(t)
    BY OursProcedures
  <2> QED BY Zenon, <2>1, ProcsIn, OursGo
<1> QED BY Zenon, <1>1, <1>2

LEMMA OursParam ==
    ASSUME NEW i \in Tokens55, i # <<>>, NEW t, t = Head(i), NEW s \in Stack
    PROVE  /\ t = "..." => OursTo(i, Push(Parse("param"), s),
                Push(Expect("..."), Push(Node("is_vararg"), s)))
           /\ t # "..." => OursTo(i, Push(Parse("param"), s),
                Push(Expect("Name"), Push(Node("param"), Push(Parse("more_params"), s))))
<1>1. /\ t = "..." => ~Fails(Param(t)) /\ On(Param(t), s) = Push(Expect("..."), Push(Node("is_vararg"), s))
      /\ t # "..." => ~Fails(Param(t))
           /\ On(Param(t), s) = Push(Expect("Name"), Push(Node("param"), Push(Parse("more_params"), s)))
  BY OursParamIs, SymbolsIn, TokensAre, ConstCloseIn, MarksIn, WordRules, OnIs, GoesAre
<1>2. /\ ~Fails(Param(t)) => OursTo(i, Push(Parse("param"), s), On(Param(t), s))
  <2>1. \A x : Procedure("param", Head(i), x) = Param(t)
    BY OursProcedures
  <2> QED BY Zenon, <2>1, ProcsIn, OursGo
<1> QED BY Zenon, <1>1, <1>2

LEMMA OursMoreParams ==
    ASSUME NEW i \in Tokens55, i # <<>>, NEW t, t = Head(i), NEW s \in Stack
    PROVE  /\ t = Comma => OursTo(i, Push(Parse("more_params"), s),
                Push(Expect(Comma), Push(Parse("param"), s)))
           /\ t # Comma => OursTo(i, Push(Parse("more_params"), s), s)
<1>1. /\ t = Comma => ~Fails(MoreParams(t))
           /\ On(MoreParams(t), s) = Push(Expect(Comma), Push(Parse("param"), s))
      /\ t # Comma => MoreParams(t) = <<>>
  BY OursMoreParamsIs, SymbolsIn, TokensAre, ConstCloseIn, MarksIn, WordRules, OnIs, GoesAre
<1>2. /\ MoreParams(t) = <<>> => OursTo(i, Push(Parse("more_params"), s), s)
      /\ ~Fails(MoreParams(t)) => OursTo(i, Push(Parse("more_params"), s), On(MoreParams(t), s))
  <2>1. \A x : Procedure("more_params", Head(i), x) = MoreParams(t)
    BY OursProcedures
  <2> QED BY Zenon, <2>1, ProcsIn, OursGo
<1> QED BY Zenon, <1>1, <1>2

LEMMA OursElseClauses ==
    ASSUME NEW i \in Tokens55, i # <<>>, NEW t, t = Head(i), NEW s \in Stack
    PROVE  /\ t = "elseif" => OursTo(i, Push(Parse("else_clauses"), s),
                Push(Expect("elseif"),
                Push(Parse("unary"),
                Push(Climb("none"), Push(Expect("then"),
                Push(Parse("block"), Push(Node("elseif"), Push(Parse("else_clauses"), s))))))))
           /\ t = "else" => OursTo(i, Push(Parse("else_clauses"), s),
                Push(Expect("else"), Push(Parse("block"), Push(Node("else"), s))))
           /\ (t # "elseif" /\ t # "else") => OursTo(i, Push(Parse("else_clauses"), s), s)
<1>1. /\ t = "elseif" => ~Fails(ElseClauses(t))
           /\ On(ElseClauses(t), s) = Push(Expect("elseif"),
           Push(Parse("unary"),
           Push(Climb("none"), Push(Expect("then"),
           Push(Parse("block"), Push(Node("elseif"), Push(Parse("else_clauses"), s)))))))
      /\ t = "else" => ~Fails(ElseClauses(t))
           /\ On(ElseClauses(t), s) = Push(Expect("else"), Push(Parse("block"), Push(Node("else"), s)))
      /\ (t # "elseif" /\ t # "else") => ElseClauses(t) = <<>>
  BY OursElseClausesIs, SymbolsIn, TokensAre, ConstCloseIn, MarksIn, WordRules, OnIs, GoesAre
<1>2. /\ ElseClauses(t) = <<>> => OursTo(i, Push(Parse("else_clauses"), s), s)
      /\ ~Fails(ElseClauses(t)) => OursTo(i, Push(Parse("else_clauses"), s), On(ElseClauses(t), s))
  <2>1. \A x : Procedure("else_clauses", Head(i), x) = ElseClauses(t)
    BY OursProcedures
  <2> QED BY Zenon, <2>1, ProcsIn, OursGo
<1> QED BY Zenon, <1>1, <1>2

LEMMA OursFor ==
    ASSUME NEW i \in Tokens55, i # <<>>, NEW t, t = Head(i), NEW s \in Stack
    PROVE  /\ t = "=" => OursTo(i, Push(Parse("for"), s),
                Push(Expect("="), Push(Parse("unary"),
                Push(Climb("none"), Push(Expect(Comma),
                Push(Parse("unary"),
                Push(Climb("none"), Push(Parse("step"),
                Push(Expect("do"), Push(Parse("block"),
                Push(Expect("end"), Push(Node("numeric_for"), s))))))))))))
           /\ t # "=" => OursTo(i, Push(Parse("for"), s),
                Push(Parse("for_names"),
                Push(Expect("in"), Push(Parse("unary"),
                Push(Climb("none"), Push(Parse("more_exprs"),
                Push(Expect("do"), Push(Parse("block"),
                Push(Expect("end"), Push(Node("generic_for"), s))))))))))
<1>1. /\ t = "=" => ~Fails(ParseFor(t))
           /\ On(ParseFor(t), s) = Push(Expect("="),
           Push(Parse("unary"),
           Push(Climb("none"), Push(Expect(Comma),
           Push(Parse("unary"),
           Push(Climb("none"), Push(Parse("step"),
           Push(Expect("do"), Push(Parse("block"),
           Push(Expect("end"), Push(Node("numeric_for"), s)))))))))))
      /\ t # "=" => ~Fails(ParseFor(t))
           /\ On(ParseFor(t), s) = Push(Parse("for_names"),
           Push(Expect("in"), Push(Parse("unary"),
           Push(Climb("none"), Push(Parse("more_exprs"),
           Push(Expect("do"), Push(Parse("block"), Push(Expect("end"), Push(Node("generic_for"), s)))))))))
  BY OursForIs, SymbolsIn, TokensAre, ConstCloseIn, MarksIn, WordRules, OnIs, GoesAre
<1>2. /\ ~Fails(ParseFor(t)) => OursTo(i, Push(Parse("for"), s), On(ParseFor(t), s))
  <2>1. \A x : Procedure("for", Head(i), x) = ParseFor(t)
    BY OursProcedures
  <2> QED BY Zenon, <2>1, ProcsIn, OursGo
<1> QED BY Zenon, <1>1, <1>2

LEMMA OursStep ==
    ASSUME NEW i \in Tokens55, i # <<>>, NEW t, t = Head(i), NEW s \in Stack
    PROVE  /\ t = Comma => OursTo(i, Push(Parse("step"), s),
                Push(Expect(Comma), Push(Parse("unary"), Push(Climb("none"), s))))
           /\ t # Comma => OursTo(i, Push(Parse("step"), s), s)
<1>1. /\ t = Comma => ~Fails(Stride(t))
           /\ On(Stride(t), s) = Push(Expect(Comma), Push(Parse("unary"), Push(Climb("none"), s)))
      /\ t # Comma => Stride(t) = <<>>
  BY OursStepIs, SymbolsIn, TokensAre, ConstCloseIn, MarksIn, WordRules, OnIs, GoesAre
<1>2. /\ Stride(t) = <<>> => OursTo(i, Push(Parse("step"), s), s)
      /\ ~Fails(Stride(t)) => OursTo(i, Push(Parse("step"), s), On(Stride(t), s))
  <2>1. \A x : Procedure("step", Head(i), x) = Stride(t)
    BY OursProcedures
  <2> QED BY Zenon, <2>1, ProcsIn, OursGo
<1> QED BY Zenon, <1>1, <1>2

LEMMA OursForNames ==
    ASSUME NEW i \in Tokens55, i # <<>>, NEW t, t = Head(i), NEW s \in Stack
    PROVE  /\ t = Comma => OursTo(i, Push(Parse("for_names"), s),
                Push(Expect(Comma), Push(Expect("Name"), Push(Parse("for_names"), s))))
           /\ t # Comma => OursTo(i, Push(Parse("for_names"), s), s)
<1>1. /\ t = Comma => ~Fails(ForNames(t))
           /\ On(ForNames(t), s) = Push(Expect(Comma), Push(Expect("Name"), Push(Parse("for_names"), s)))
      /\ t # Comma => ForNames(t) = <<>>
  BY OursForNamesIs, SymbolsIn, TokensAre, ConstCloseIn, MarksIn, WordRules, OnIs, GoesAre
<1>2. /\ ForNames(t) = <<>> => OursTo(i, Push(Parse("for_names"), s), s)
      /\ ~Fails(ForNames(t)) => OursTo(i, Push(Parse("for_names"), s), On(ForNames(t), s))
  <2>1. \A x : Procedure("for_names", Head(i), x) = ForNames(t)
    BY OursProcedures
  <2> QED BY Zenon, <2>1, ProcsIn, OursGo
<1> QED BY Zenon, <1>1, <1>2

LEMMA OursAssignOrCall ==
    ASSUME NEW i \in Tokens55, i # <<>>, NEW t, t = Head(i), NEW s \in Stack, NEW r \in Regs
    PROVE  /\ (t = "=" \/ t = Comma)
                => ReadOurs(i, Push(Parse("assign_or_call"), s), r) = ReadOurs(i,
                Push(Parse("targets"),
                Push(Expect("="), Push(Parse("unary"),
                Push(Climb("none"), Push(Parse("more_exprs"), Push(Node("assign"), s)))))), r)
           /\ (t # "=" /\ t # Comma /\ r.last \in {"call", "method_call"})
                => ReadOurs(i, Push(Parse("assign_or_call"), s), r) = ReadOurs(i,
                Push(Node("call_statement"), s), r)
           /\ (t # "=" /\ t # Comma /\ r.last \notin {"call", "method_call"})
                => ReadOurs(i, Push(Parse("assign_or_call"), s), r) = Refusal("none")
<1> DEFINE x == r.last
<1>0. x = r.last
  OBVIOUS
<1> HIDE DEF x
<1>1. /\ (t = "=" \/ t = Comma) => ~Fails(AssignOrCall(t, x))
           /\ On(AssignOrCall(t, x), s) = Push(Parse("targets"),
           Push(Expect("="), Push(Parse("unary"),
           Push(Climb("none"), Push(Parse("more_exprs"), Push(Node("assign"), s))))))
      /\ (t # "=" /\ t # Comma /\ x \in {"call", "method_call"}) => ~Fails(AssignOrCall(t, x))
           /\ On(AssignOrCall(t, x), s) = Push(Node("call_statement"), s)
      /\ (t # "=" /\ t # Comma /\ x \notin {"call", "method_call"})
           => AssignOrCall(t, x) = Word1(Fail("none"))
  BY OursAssignOrCallIs, SymbolsIn, TokensAre, ConstCloseIn, MarksIn, WordRules, OnIs, GoesAre
<1>2. \A u : u \in Regs /\ u.last = x =>
        /\ ~Fails(AssignOrCall(t, x)) => ReadOurs(i, Push(Parse("assign_or_call"), s), u) = ReadOurs(i,
             On(AssignOrCall(t, x), s), u)
        /\ AssignOrCall(t, x) = Word1(Fail("none"))
             => ReadOurs(i, Push(Parse("assign_or_call"), s), u) = Refusal("none")
  <2>1. Procedure("assign_or_call", Head(i), x) = AssignOrCall(t, x)
    BY OursProcedures
  <2> QED BY <2>1, ProcsIn, OursDoes
<1> QED BY Zenon, <1>0, <1>1, <1>2

LEMMA OursTargets ==
    ASSUME NEW i \in Tokens55, i # <<>>, NEW t, t = Head(i), NEW s \in Stack
    PROVE  /\ t = Comma => OursTo(i, Push(Parse("targets"), s),
                Push(Expect(Comma), Push(Parse("primary"),
                Push(Parse("suffixes"), Push(Parse("targets"), s)))))
           /\ t # Comma => OursTo(i, Push(Parse("targets"), s), s)
<1>1. /\ t = Comma => ~Fails(Targets(t))
           /\ On(Targets(t), s) = Push(Expect(Comma),
           Push(Parse("primary"), Push(Parse("suffixes"), Push(Parse("targets"), s))))
      /\ t # Comma => Targets(t) = <<>>
  BY OursTargetsIs, SymbolsIn, TokensAre, ConstCloseIn, MarksIn, WordRules, OnIs, GoesAre
<1>2. /\ Targets(t) = <<>> => OursTo(i, Push(Parse("targets"), s), s)
      /\ ~Fails(Targets(t)) => OursTo(i, Push(Parse("targets"), s), On(Targets(t), s))
  <2>1. \A x : Procedure("targets", Head(i), x) = Targets(t)
    BY OursProcedures
  <2> QED BY Zenon, <2>1, ProcsIn, OursGo
<1> QED BY Zenon, <1>1, <1>2

LEMMA OursMoreExprs ==
    ASSUME NEW i \in Tokens55, i # <<>>, NEW t, t = Head(i), NEW s \in Stack
    PROVE  /\ t = Comma => OursTo(i, Push(Parse("more_exprs"), s),
                Push(Expect(Comma), Push(Parse("unary"),
                Push(Climb("none"), Push(Parse("more_exprs"), s)))))
           /\ t # Comma => OursTo(i, Push(Parse("more_exprs"), s), s)
<1>1. /\ t = Comma => ~Fails(MoreExprs(t))
           /\ On(MoreExprs(t), s) = Push(Expect(Comma),
           Push(Parse("unary"), Push(Climb("none"), Push(Parse("more_exprs"), s))))
      /\ t # Comma => MoreExprs(t) = <<>>
  BY OursMoreExprsIs, SymbolsIn, TokensAre, ConstCloseIn, MarksIn, WordRules, OnIs, GoesAre
<1>2. /\ MoreExprs(t) = <<>> => OursTo(i, Push(Parse("more_exprs"), s), s)
      /\ ~Fails(MoreExprs(t)) => OursTo(i, Push(Parse("more_exprs"), s), On(MoreExprs(t), s))
  <2>1. \A x : Procedure("more_exprs", Head(i), x) = MoreExprs(t)
    BY OursProcedures
  <2> QED BY Zenon, <2>1, ProcsIn, OursGo
<1> QED BY Zenon, <1>1, <1>2

LEMMA OursUnary ==
    ASSUME NEW i \in Tokens55, i # <<>>, NEW t, t = Head(i), NEW s \in Stack
    PROVE  /\ t \in UnaryOps => OursTo(i, Push(Parse("unary"), s),
                Push(Expect(t), Push(Parse("unary"), Push(Climb("unary"), Push(Unop(t), s)))))
           /\ t \notin UnaryOps => OursTo(i, Push(Parse("unary"), s),
                Push(Parse("primary"), Push(Parse("suffixes"), s)))
<1>1. /\ t \in UnaryOps => ~Fails(ParseUnary(t))
           /\ On(ParseUnary(t), s) = Push(Expect(t),
           Push(Parse("unary"), Push(Climb("unary"), Push(Unop(t), s))))
      /\ t \notin UnaryOps => ~Fails(ParseUnary(t))
           /\ On(ParseUnary(t), s) = Push(Parse("primary"), Push(Parse("suffixes"), s))
  BY OursUnaryIs, SymbolsIn, TokensAre, ConstCloseIn, MarksIn, WordRules, OnIs, GoesAre
<1>2. /\ ~Fails(ParseUnary(t)) => OursTo(i, Push(Parse("unary"), s), On(ParseUnary(t), s))
  <2>1. \A x : Procedure("unary", Head(i), x) = ParseUnary(t)
    BY OursProcedures
  <2> QED BY Zenon, <2>1, ProcsIn, OursGo
<1> QED BY Zenon, <1>1, <1>2

LEMMA OursSuffixes ==
    ASSUME NEW i \in Tokens55, i # <<>>, NEW t, t = Head(i), NEW s \in Stack
    PROVE  /\ t = "." => OursTo(i, Push(Parse("suffixes"), s),
                Push(Expect("."), Push(Expect("Name"), Push(Node("index"), Push(Parse("suffixes"), s)))))
           /\ t = "[" => OursTo(i, Push(Parse("suffixes"), s),
                Push(Expect("["), Push(Parse("unary"),
                Push(Climb("none"), Push(Expect("]"),
                Push(Node("index_expr"), Push(Parse("suffixes"), s)))))))
           /\ t = ":" => OursTo(i, Push(Parse("suffixes"), s),
                Push(Expect(":"), Push(Expect("Name"),
                Push(Parse("call_args"), Push(Node("method_call"), Push(Parse("suffixes"), s))))))
           /\ (t = "(" \/ t = "String" \/ t = OpenBrace)
                => OursTo(i, Push(Parse("suffixes"), s),
                Push(Parse("call_args"), Push(Node("call"), Push(Parse("suffixes"), s))))
           /\ (t # "." /\ t # "[" /\ t # ":" /\ t # "(" /\ t # "String" /\ t # OpenBrace)
                => OursTo(i, Push(Parse("suffixes"), s), s)
<1>1. /\ t = "." => ~Fails(MoreSuffixes(t))
           /\ On(MoreSuffixes(t), s) = Push(Expect("."),
           Push(Expect("Name"), Push(Node("index"), Push(Parse("suffixes"), s))))
      /\ t = "[" => ~Fails(MoreSuffixes(t))
           /\ On(MoreSuffixes(t), s) = Push(Expect("["),
           Push(Parse("unary"),
           Push(Climb("none"), Push(Expect("]"), Push(Node("index_expr"), Push(Parse("suffixes"), s))))))
      /\ t = ":" => ~Fails(MoreSuffixes(t))
           /\ On(MoreSuffixes(t), s) = Push(Expect(":"),
           Push(Expect("Name"),
           Push(Parse("call_args"), Push(Node("method_call"), Push(Parse("suffixes"), s)))))
      /\ (t = "(" \/ t = "String" \/ t = OpenBrace) => ~Fails(MoreSuffixes(t))
           /\ On(MoreSuffixes(t), s) = Push(Parse("call_args"),
           Push(Node("call"), Push(Parse("suffixes"), s)))
      /\ (t # "." /\ t # "[" /\ t # ":" /\ t # "(" /\ t # "String" /\ t # OpenBrace)
           => MoreSuffixes(t) = <<>>
  BY OursSuffixesIs, SymbolsIn, TokensAre, ConstCloseIn, MarksIn, WordRules, OnIs, GoesAre
<1>2. /\ MoreSuffixes(t) = <<>> => OursTo(i, Push(Parse("suffixes"), s), s)
      /\ ~Fails(MoreSuffixes(t)) => OursTo(i, Push(Parse("suffixes"), s), On(MoreSuffixes(t), s))
  <2>1. \A x : Procedure("suffixes", Head(i), x) = MoreSuffixes(t)
    BY OursProcedures
  <2> QED BY Zenon, <2>1, ProcsIn, OursGo
<1> QED BY Zenon, <1>1, <1>2

LEMMA OursPrimary ==
    ASSUME NEW i \in Tokens55, i # <<>>, NEW t, t = Head(i), NEW s \in Stack
    PROVE  /\ t \in Simple => OursTo(i, Push(Parse("primary"), s), Push(Expect(t), Push(Node(t), s)))
           /\ t \in Names => OursTo(i, Push(Parse("primary"), s),
                Push(Expect("Name"), Push(Node("name"), s)))
           /\ t = "(" => OursTo(i, Push(Parse("primary"), s),
                Push(Expect("("), Push(Parse("unary"), Push(Climb("none"), Push(Expect(")"), s)))))
           /\ t = OpenBrace => OursTo(i, Push(Parse("primary"), s),
                Push(Expect(OpenBrace),
                Push(Parse("fields"), Push(Expect(CloseBrace), Push(Node("table"), s)))))
           /\ t = "function" => OursTo(i, Push(Parse("primary"), s),
                Push(Expect("function"),
                Push(Expect("("), Push(Parse("params"),
                Push(Expect(")"), Push(Parse("block"), Push(Expect("end"), Push(Node("function"), s))))))))
           /\ (t \notin Simple /\ t \notin Names /\ t # "(" /\ t # OpenBrace /\ t # "function")
                => OursNo(i, Push(Parse("primary"), s))
<1>1. /\ t \in Simple => ~Fails(ParsePrimary(t))
           /\ On(ParsePrimary(t), s) = Push(Expect(t), Push(Node(t), s))
      /\ t \in Names => ~Fails(ParsePrimary(t))
           /\ On(ParsePrimary(t), s) = Push(Expect("Name"), Push(Node("name"), s))
      /\ t = "(" => ~Fails(ParsePrimary(t))
           /\ On(ParsePrimary(t), s) = Push(Expect("("),
           Push(Parse("unary"), Push(Climb("none"), Push(Expect(")"), s))))
      /\ t = OpenBrace => ~Fails(ParsePrimary(t))
           /\ On(ParsePrimary(t), s) = Push(Expect(OpenBrace),
           Push(Parse("fields"), Push(Expect(CloseBrace), Push(Node("table"), s))))
      /\ t = "function" => ~Fails(ParsePrimary(t))
           /\ On(ParsePrimary(t), s) = Push(Expect("function"),
           Push(Expect("("), Push(Parse("params"),
           Push(Expect(")"), Push(Parse("block"), Push(Expect("end"), Push(Node("function"), s)))))))
      /\ (t \notin Simple /\ t \notin Names /\ t # "(" /\ t # OpenBrace /\ t # "function")
           => ParsePrimary(t) = Word1(Fail("none"))
  BY OursPrimaryIs, SymbolsIn, TokensAre, ConstCloseIn, MarksIn, WordRules, OnIs, GoesAre
<1>2. /\ ~Fails(ParsePrimary(t)) => OursTo(i, Push(Parse("primary"), s), On(ParsePrimary(t), s))
      /\ ParsePrimary(t) = Word1(Fail("none")) => OursNo(i, Push(Parse("primary"), s))
  <2>1. \A x : Procedure("primary", Head(i), x) = ParsePrimary(t)
    BY OursProcedures
  <2> QED BY Zenon, <2>1, ProcsIn, OursGo
<1> QED BY Zenon, <1>1, <1>2

LEMMA OursCallArgs ==
    ASSUME NEW i \in Tokens55, i # <<>>, NEW t, t = Head(i), NEW s \in Stack
    PROVE  /\ t = "(" => OursTo(i, Push(Parse("call_args"), s),
                Push(Expect("("), Push(Parse("args"), Push(Expect(")"), s))))
           /\ t = "String" => OursTo(i, Push(Parse("call_args"), s),
                Push(Expect("String"), Push(Node("String"), s)))
           /\ t = OpenBrace => OursTo(i, Push(Parse("call_args"), s),
                Push(Expect(OpenBrace),
                Push(Parse("fields"), Push(Expect(CloseBrace), Push(Node("table"), s)))))
           /\ (t # "(" /\ t # "String" /\ t # OpenBrace) => OursNo(i, Push(Parse("call_args"), s))
<1>1. /\ t = "(" => ~Fails(ParseCallArgs(t))
           /\ On(ParseCallArgs(t), s) = Push(Expect("("), Push(Parse("args"), Push(Expect(")"), s)))
      /\ t = "String" => ~Fails(ParseCallArgs(t))
           /\ On(ParseCallArgs(t), s) = Push(Expect("String"), Push(Node("String"), s))
      /\ t = OpenBrace => ~Fails(ParseCallArgs(t))
           /\ On(ParseCallArgs(t), s) = Push(Expect(OpenBrace),
           Push(Parse("fields"), Push(Expect(CloseBrace), Push(Node("table"), s))))
      /\ (t # "(" /\ t # "String" /\ t # OpenBrace) => ParseCallArgs(t) = Word1(Fail("none"))
  BY OursCallArgsIs, SymbolsIn, TokensAre, ConstCloseIn, MarksIn, WordRules, OnIs, GoesAre
<1>2. /\ ~Fails(ParseCallArgs(t)) => OursTo(i, Push(Parse("call_args"), s), On(ParseCallArgs(t), s))
      /\ ParseCallArgs(t) = Word1(Fail("none")) => OursNo(i, Push(Parse("call_args"), s))
  <2>1. \A x : Procedure("call_args", Head(i), x) = ParseCallArgs(t)
    BY OursProcedures
  <2> QED BY Zenon, <2>1, ProcsIn, OursGo
<1> QED BY Zenon, <1>1, <1>2

LEMMA OursArgs ==
    ASSUME NEW i \in Tokens55, i # <<>>, NEW t, t = Head(i), NEW s \in Stack
    PROVE  /\ t = ")" => OursTo(i, Push(Parse("args"), s), s)
           /\ t # ")" => OursTo(i, Push(Parse("args"), s),
                Push(Parse("unary"), Push(Climb("none"), Push(Parse("more_exprs"), s))))
<1>1. /\ t = ")" => Args(t) = <<>>
      /\ t # ")" => ~Fails(Args(t)) /\ On(Args(t), s) = Push(Parse("unary"),
           Push(Climb("none"), Push(Parse("more_exprs"), s)))
  BY OursArgsIs, SymbolsIn, TokensAre, ConstCloseIn, MarksIn, WordRules, OnIs, GoesAre
<1>2. /\ Args(t) = <<>> => OursTo(i, Push(Parse("args"), s), s)
      /\ ~Fails(Args(t)) => OursTo(i, Push(Parse("args"), s), On(Args(t), s))
  <2>1. \A x : Procedure("args", Head(i), x) = Args(t)
    BY OursProcedures
  <2> QED BY Zenon, <2>1, ProcsIn, OursGo
<1> QED BY Zenon, <1>1, <1>2

LEMMA OursFields ==
    ASSUME NEW i \in Tokens55, i # <<>>, NEW t, t = Head(i), NEW s \in Stack
    PROVE  /\ t = CloseBrace => OursTo(i, Push(Parse("fields"), s), s)
           /\ t # CloseBrace => OursTo(i, Push(Parse("fields"), s),
                Push(Parse("field"), Push(Parse("separator"), s)))
<1>1. /\ t = CloseBrace => Fields(t) = <<>>
      /\ t # CloseBrace => ~Fails(Fields(t))
           /\ On(Fields(t), s) = Push(Parse("field"), Push(Parse("separator"), s))
  BY OursFieldsIs, SymbolsIn, TokensAre, ConstCloseIn, MarksIn, WordRules, OnIs, GoesAre
<1>2. /\ Fields(t) = <<>> => OursTo(i, Push(Parse("fields"), s), s)
      /\ ~Fails(Fields(t)) => OursTo(i, Push(Parse("fields"), s), On(Fields(t), s))
  <2>1. \A x : Procedure("fields", Head(i), x) = Fields(t)
    BY OursProcedures
  <2> QED BY Zenon, <2>1, ProcsIn, OursGo
<1> QED BY Zenon, <1>1, <1>2

LEMMA OursSeparator ==
    ASSUME NEW i \in Tokens55, i # <<>>, NEW t, t = Head(i), NEW s \in Stack
    PROVE  /\ (t = Comma \/ t = SemiMark)
                => OursTo(i, Push(Parse("separator"), s), Push(Expect(t), Push(Parse("fields"), s)))
           /\ (t # Comma /\ t # SemiMark) => OursTo(i, Push(Parse("separator"), s), s)
<1>1. /\ (t = Comma \/ t = SemiMark) => ~Fails(Separator(t))
           /\ On(Separator(t), s) = Push(Expect(t), Push(Parse("fields"), s))
      /\ (t # Comma /\ t # SemiMark) => Separator(t) = <<>>
  BY OursSeparatorIs, SymbolsIn, TokensAre, ConstCloseIn, MarksIn, WordRules, OnIs, GoesAre
<1>2. /\ Separator(t) = <<>> => OursTo(i, Push(Parse("separator"), s), s)
      /\ ~Fails(Separator(t)) => OursTo(i, Push(Parse("separator"), s), On(Separator(t), s))
  <2>1. \A x : Procedure("separator", Head(i), x) = Separator(t)
    BY OursProcedures
  <2> QED BY Zenon, <2>1, ProcsIn, OursGo
<1> QED BY Zenon, <1>1, <1>2

LEMMA OursField ==
    ASSUME NEW i \in Tokens55, i # <<>>, NEW t, t = Head(i), NEW s \in Stack
    PROVE  /\ t = "[" => OursTo(i, Push(Parse("field"), s),
                Push(Expect("["), Push(Parse("unary"),
                Push(Climb("none"), Push(Expect("]"),
                Push(Expect("="), Push(Parse("unary"), Push(Climb("none"), Push(Node("expr_key"), s)))))))))
           /\ t \in Names => OursTo(i, Push(Parse("field"), s),
                Push(Expect("Name"), Push(Parse("named_field"), s)))
           /\ (t \notin Names /\ t # "[")
                => OursTo(i, Push(Parse("field"), s),
                Push(Parse("unary"), Push(Climb("none"), Push(Node("positional"), s))))
<1>1. /\ t = "[" => ~Fails(ParseField(t))
           /\ On(ParseField(t), s) = Push(Expect("["),
           Push(Parse("unary"),
           Push(Climb("none"), Push(Expect("]"),
           Push(Expect("="), Push(Parse("unary"), Push(Climb("none"), Push(Node("expr_key"), s))))))))
      /\ t \in Names => ~Fails(ParseField(t))
           /\ On(ParseField(t), s) = Push(Expect("Name"), Push(Parse("named_field"), s))
      /\ (t \notin Names /\ t # "[") => ~Fails(ParseField(t))
           /\ On(ParseField(t), s) = Push(Parse("unary"), Push(Climb("none"), Push(Node("positional"), s)))
  BY OursFieldIs, SymbolsIn, TokensAre, ConstCloseIn, MarksIn, WordRules, OnIs, GoesAre
<1>2. /\ ~Fails(ParseField(t)) => OursTo(i, Push(Parse("field"), s), On(ParseField(t), s))
  <2>1. \A x : Procedure("field", Head(i), x) = ParseField(t)
    BY OursProcedures
  <2> QED BY Zenon, <2>1, ProcsIn, OursGo
<1> QED BY Zenon, <1>1, <1>2

LEMMA OursNamedField ==
    ASSUME NEW i \in Tokens55, i # <<>>, NEW t, t = Head(i), NEW s \in Stack
    PROVE  /\ t = "=" => OursTo(i, Push(Parse("named_field"), s),
                Push(Expect("="), Push(Parse("unary"), Push(Climb("none"), Push(Node("name_key"), s)))))
           /\ t # "=" => OursTo(i, Push(Parse("named_field"), s),
                Push(Node("name"), Push(Parse("suffixes"),
                Push(Climb("none"), Push(Node("positional"), s)))))
<1>1. /\ t = "=" => ~Fails(NamedField(t))
           /\ On(NamedField(t), s) = Push(Expect("="),
           Push(Parse("unary"), Push(Climb("none"), Push(Node("name_key"), s))))
      /\ t # "=" => ~Fails(NamedField(t))
           /\ On(NamedField(t), s) = Push(Node("name"),
           Push(Parse("suffixes"), Push(Climb("none"), Push(Node("positional"), s))))
  BY OursNamedFieldIs, SymbolsIn, TokensAre, ConstCloseIn, MarksIn, WordRules, OnIs, GoesAre
<1>2. /\ ~Fails(NamedField(t)) => OursTo(i, Push(Parse("named_field"), s), On(NamedField(t), s))
  <2>1. \A x : Procedure("named_field", Head(i), x) = NamedField(t)
    BY OursProcedures
  <2> QED BY Zenon, <2>1, ProcsIn, OursGo
<1> QED BY Zenon, <1>1, <1>2

LEMMA LuaStatlist ==
    ASSUME NEW i \in Tokens55, i # <<>>, NEW t, t = Head(i), NEW s \in Stack
    PROVE  /\ t \in BlockEnds => LuaTo(i, Push(Parse("statlist"), s), s)
           /\ t = "return" => LuaTo(i, Push(Parse("statlist"), s),
                Push(Expect("return"),
                Push(Parse("retstat"), Push(Node("return"), Push(Parse("semicolon"), s)))))
           /\ t = SemiMark => LuaTo(i, Push(Parse("statlist"), s),
                Push(Expect(SemiMark), Push(Parse("statlist"), s)))
           /\ t = "if" => LuaTo(i, Push(Parse("statlist"), s),
                Push(Expect("if"), Push(Parse("subexpr"),
                Push(Climb("none"), Push(Expect("then"),
                Push(Parse("statlist"),
                Push(Parse("test_then"),
                Push(Expect("end"), Push(Node("if"), Push(Parse("statlist"), s))))))))))
           /\ t = "while" => LuaTo(i, Push(Parse("statlist"), s),
                Push(Expect("while"),
                Push(Parse("subexpr"),
                Push(Climb("none"), Push(Expect("do"),
                Push(Parse("statlist"),
                Push(Expect("end"), Push(Node("while"), Push(Parse("statlist"), s)))))))))
           /\ t = "do" => LuaTo(i, Push(Parse("statlist"), s),
                Push(Expect("do"), Push(Parse("statlist"),
                Push(Expect("end"), Push(Node("do"), Push(Parse("statlist"), s))))))
           /\ t = "for" => LuaTo(i, Push(Parse("statlist"), s),
                Push(Expect("for"), Push(Expect("Name"),
                Push(Parse("forstat"), Push(Parse("statlist"), s)))))
           /\ t = "repeat" => LuaTo(i, Push(Parse("statlist"), s),
                Push(Expect("repeat"),
                Push(Parse("statlist"),
                Push(Expect("until"),
                Push(Parse("subexpr"),
                Push(Climb("none"), Push(Node("repeat"), Push(Parse("statlist"), s))))))))
           /\ t = "function" => LuaTo(i, Push(Parse("statlist"), s),
                Push(Expect("function"),
                Push(Expect("Name"),
                Push(Parse("funcname"),
                Push(Expect("("), Push(Parse("parlist"),
                Push(Expect(")"), Push(Parse("statlist"),
                Push(Expect("end"), Push(Node("function_decl"), Push(Parse("statlist"), s)))))))))))
           /\ t = "local" => LuaTo(i, Push(Parse("statlist"), s),
                Push(Expect("local"), Push(Parse("localstat"), Push(Parse("statlist"), s))))
           /\ t = "::" => LuaTo(i, Push(Parse("statlist"), s),
                Push(Expect("::"), Push(Expect("Name"),
                Push(Expect("::"), Push(Node("label"), Push(Parse("statlist"), s))))))
           /\ t = "goto" => LuaTo(i, Push(Parse("statlist"), s),
                Push(Expect("goto"), Push(Expect("Name"), Push(Node("goto"), Push(Parse("statlist"), s)))))
           /\ t = "break" => LuaTo(i, Push(Parse("statlist"), s),
                Push(Expect("break"), Push(Node("break"), Push(Parse("statlist"), s))))
           /\ t = "global" => LuaTo(i, Push(Parse("statlist"), s),
                Push(Expect("global"),
                Push(Node("name"), Push(Parse("globalstat"), Push(Parse("statlist"), s)))))
           /\ (t \notin BlockEnds /\ t # "return" /\ t # SemiMark /\ t # "if" /\ t # "while" /\ t # "do"
                /\ t # "for" /\ t # "repeat" /\ t # "function" /\ t # "local" /\ t # "::" /\ t # "goto"
                /\ t # "break" /\ t # "global")
                => LuaTo(i, Push(Parse("statlist"), s),
                Push(Parse("primaryexp"),
                Push(Parse("suffixedexp"), Push(Parse("exprstat"), Push(Parse("statlist"), s)))))
<1>1. /\ t \in BlockEnds => Lua55!StatList(t) = <<>>
      /\ t = "return" => ~Fails(Lua55!StatList(t))
           /\ On(Lua55!StatList(t), s) = Push(Expect("return"),
           Push(Parse("retstat"), Push(Node("return"), Push(Parse("semicolon"), s))))
      /\ t = SemiMark => ~Fails(Lua55!StatList(t))
           /\ On(Lua55!StatList(t), s) = Push(Expect(SemiMark), Push(Parse("statlist"), s))
      /\ t = "if" => ~Fails(Lua55!StatList(t))
           /\ On(Lua55!StatList(t), s) = Push(Expect("if"),
           Push(Parse("subexpr"),
           Push(Climb("none"), Push(Expect("then"),
           Push(Parse("statlist"),
           Push(Parse("test_then"), Push(Expect("end"), Push(Node("if"), Push(Parse("statlist"), s)))))))))
      /\ t = "while" => ~Fails(Lua55!StatList(t))
           /\ On(Lua55!StatList(t), s) = Push(Expect("while"),
           Push(Parse("subexpr"),
           Push(Climb("none"), Push(Expect("do"),
           Push(Parse("statlist"), Push(Expect("end"), Push(Node("while"), Push(Parse("statlist"), s))))))))
      /\ t = "do" => ~Fails(Lua55!StatList(t))
           /\ On(Lua55!StatList(t), s) = Push(Expect("do"),
           Push(Parse("statlist"), Push(Expect("end"), Push(Node("do"), Push(Parse("statlist"), s)))))
      /\ t = "for" => ~Fails(Lua55!StatList(t))
           /\ On(Lua55!StatList(t), s) = Push(Expect("for"),
           Push(Expect("Name"), Push(Parse("forstat"), Push(Parse("statlist"), s))))
      /\ t = "repeat" => ~Fails(Lua55!StatList(t))
           /\ On(Lua55!StatList(t), s) = Push(Expect("repeat"),
           Push(Parse("statlist"),
           Push(Expect("until"),
           Push(Parse("subexpr"), Push(Climb("none"), Push(Node("repeat"), Push(Parse("statlist"), s)))))))
      /\ t = "function" => ~Fails(Lua55!StatList(t))
           /\ On(Lua55!StatList(t), s) = Push(Expect("function"),
           Push(Expect("Name"),
           Push(Parse("funcname"),
           Push(Expect("("), Push(Parse("parlist"),
           Push(Expect(")"), Push(Parse("statlist"),
           Push(Expect("end"), Push(Node("function_decl"), Push(Parse("statlist"), s))))))))))
      /\ t = "local" => ~Fails(Lua55!StatList(t))
           /\ On(Lua55!StatList(t), s) = Push(Expect("local"),
           Push(Parse("localstat"), Push(Parse("statlist"), s)))
      /\ t = "::" => ~Fails(Lua55!StatList(t))
           /\ On(Lua55!StatList(t), s) = Push(Expect("::"),
           Push(Expect("Name"), Push(Expect("::"), Push(Node("label"), Push(Parse("statlist"), s)))))
      /\ t = "goto" => ~Fails(Lua55!StatList(t))
           /\ On(Lua55!StatList(t), s) = Push(Expect("goto"),
           Push(Expect("Name"), Push(Node("goto"), Push(Parse("statlist"), s))))
      /\ t = "break" => ~Fails(Lua55!StatList(t))
           /\ On(Lua55!StatList(t), s) = Push(Expect("break"),
           Push(Node("break"), Push(Parse("statlist"), s)))
      /\ t = "global" => ~Fails(Lua55!StatList(t))
           /\ On(Lua55!StatList(t), s) = Push(Expect("global"),
           Push(Node("name"), Push(Parse("globalstat"), Push(Parse("statlist"), s))))
      /\ (t \notin BlockEnds /\ t # "return" /\ t # SemiMark /\ t # "if" /\ t # "while" /\ t # "do"
           /\ t # "for" /\ t # "repeat" /\ t # "function" /\ t # "local" /\ t # "::" /\ t # "goto"
           /\ t # "break" /\ t # "global") => ~Fails(Lua55!StatList(t))
           /\ On(Lua55!StatList(t), s) = Push(Parse("primaryexp"),
           Push(Parse("suffixedexp"), Push(Parse("exprstat"), Push(Parse("statlist"), s))))
  BY LuaStatlistIs, SymbolsIn, TokensAre, ConstCloseIn, MarksIn, WordRules, OnIs, GoesAre
<1>2. /\ Lua55!StatList(t) = <<>> => LuaTo(i, Push(Parse("statlist"), s), s)
      /\ ~Fails(Lua55!StatList(t)) => LuaTo(i, Push(Parse("statlist"), s), On(Lua55!StatList(t), s))
  <2>1. \A x : Lua55!LuaProcedure("statlist", Head(i), x) = Lua55!StatList(t)
    BY LuaProcedures
  <2> QED BY Zenon, <2>1, ProcsIn, LuaGo
<1> QED BY <1>1, <1>2

LEMMA LuaPrimaryexp ==
    ASSUME NEW i \in Tokens55, i # <<>>, NEW t, t = Head(i), NEW s \in Stack
    PROVE  /\ t \in Names => LuaTo(i, Push(Parse("primaryexp"), s), Push(Expect(t), Push(Node("name"), s)))
           /\ (t = "(" \/ t = LineParen) => LuaTo(i, Push(Parse("primaryexp"), s),
                Push(Expect("("), Push(Parse("subexpr"),
                Push(Climb("none"), Push(Expect(")"), Push(Parse("discharge"), s))))))
           /\ (t \in Simple \/ t = OpenBrace \/ t = "function")
                => LuaNoVariable(i, Push(Parse("primaryexp"), s))
           /\ (t \notin Names /\ t \notin Simple /\ t # "(" /\ t # OpenBrace /\ t # "function"
                /\ t # LineParen) => LuaNo(i, Push(Parse("primaryexp"), s))
<1>1. /\ t \in Names => ~Fails(Lua55!PrimaryExp(t))
           /\ On(Lua55!PrimaryExp(t), s) = Push(Expect(t), Push(Node("name"), s))
      /\ (t = "(" \/ t = LineParen) => ~Fails(Lua55!PrimaryExp(t))
           /\ On(Lua55!PrimaryExp(t), s) = Push(Expect("("),
           Push(Parse("subexpr"), Push(Climb("none"), Push(Expect(")"), Push(Parse("discharge"), s)))))
      /\ (t \in Simple \/ t = OpenBrace \/ t = "function")
           => Lua55!PrimaryExp(t) = Word1(Fail("no_variable"))
      /\ (t \notin Names /\ t \notin Simple /\ t # "(" /\ t # OpenBrace /\ t # "function" /\ t # LineParen)
           => Lua55!PrimaryExp(t) = Word1(Fail("none"))
  BY LuaPrimaryexpIs, SymbolsIn, TokensAre, ConstCloseIn, MarksIn, WordRules, OnIs, GoesAre
<1>2. /\ ~Fails(Lua55!PrimaryExp(t)) => LuaTo(i, Push(Parse("primaryexp"), s), On(Lua55!PrimaryExp(t), s))
      /\ Lua55!PrimaryExp(t) = Word1(Fail("none")) => LuaNo(i, Push(Parse("primaryexp"), s))
      /\ Lua55!PrimaryExp(t) = Word1(Fail("no_variable")) => LuaNoVariable(i, Push(Parse("primaryexp"), s))
  <2>1. \A x : Lua55!LuaProcedure("primaryexp", Head(i), x) = Lua55!PrimaryExp(t)
    BY LuaProcedures
  <2> QED BY Zenon, <2>1, ProcsIn, LuaGo
<1> QED BY Zenon, <1>1, <1>2

LEMMA LuaSuffixedexp ==
    ASSUME NEW i \in Tokens55, i # <<>>, NEW t, t = Head(i), NEW s \in Stack
    PROVE  /\ t = "." => LuaTo(i, Push(Parse("suffixedexp"), s),
                Push(Expect("."), Push(Expect("Name"), Push(Node("index"), Push(Parse("suffixedexp"), s)))))
           /\ t = "[" => LuaTo(i, Push(Parse("suffixedexp"), s),
                Push(Expect("["), Push(Parse("subexpr"),
                Push(Climb("none"), Push(Expect("]"),
                Push(Node("index_expr"), Push(Parse("suffixedexp"), s)))))))
           /\ t = ":" => LuaTo(i, Push(Parse("suffixedexp"), s),
                Push(Expect(":"), Push(Expect("Name"),
                Push(Parse("funcargs"), Push(Node("method_call"), Push(Parse("suffixedexp"), s))))))
           /\ (t = "(" \/ t = LineParen \/ t = "String" \/ t = OpenBrace)
                => LuaTo(i, Push(Parse("suffixedexp"), s),
                Push(Parse("funcargs"), Push(Node("call"), Push(Parse("suffixedexp"), s))))
           /\ (t # "." /\ t # "[" /\ t # ":" /\ t # "(" /\ t # "String" /\ t # OpenBrace /\ t # LineParen)
                => LuaTo(i, Push(Parse("suffixedexp"), s), s)
<1>1. /\ t = "." => ~Fails(Lua55!SuffixedExp(t))
           /\ On(Lua55!SuffixedExp(t), s) = Push(Expect("."),
           Push(Expect("Name"), Push(Node("index"), Push(Parse("suffixedexp"), s))))
      /\ t = "[" => ~Fails(Lua55!SuffixedExp(t))
           /\ On(Lua55!SuffixedExp(t), s) = Push(Expect("["),
           Push(Parse("subexpr"),
           Push(Climb("none"), Push(Expect("]"), Push(Node("index_expr"), Push(Parse("suffixedexp"), s))))))
      /\ t = ":" => ~Fails(Lua55!SuffixedExp(t))
           /\ On(Lua55!SuffixedExp(t), s) = Push(Expect(":"),
           Push(Expect("Name"),
           Push(Parse("funcargs"), Push(Node("method_call"), Push(Parse("suffixedexp"), s)))))
      /\ (t = "(" \/ t = LineParen \/ t = "String" \/ t = OpenBrace) => ~Fails(Lua55!SuffixedExp(t))
           /\ On(Lua55!SuffixedExp(t), s) = Push(Parse("funcargs"),
           Push(Node("call"), Push(Parse("suffixedexp"), s)))
      /\ (t # "." /\ t # "[" /\ t # ":" /\ t # "(" /\ t # "String" /\ t # OpenBrace /\ t # LineParen)
           => Lua55!SuffixedExp(t) = <<>>
  BY LuaSuffixedexpIs, SymbolsIn, TokensAre, ConstCloseIn, MarksIn, WordRules, OnIs, GoesAre
<1>2. /\ Lua55!SuffixedExp(t) = <<>> => LuaTo(i, Push(Parse("suffixedexp"), s), s)
      /\ ~Fails(Lua55!SuffixedExp(t))
           => LuaTo(i, Push(Parse("suffixedexp"), s), On(Lua55!SuffixedExp(t), s))
  <2>1. \A x : Lua55!LuaProcedure("suffixedexp", Head(i), x) = Lua55!SuffixedExp(t)
    BY LuaProcedures
  <2> QED BY Zenon, <2>1, ProcsIn, LuaGo
<1> QED BY Zenon, <1>1, <1>2

LEMMA LuaDischarge ==
    ASSUME NEW i \in Tokens55, i # <<>>, NEW t, t = Head(i), NEW s \in Stack, NEW r \in Regs
    PROVE  /\ r.last \in {"call", "method_call", "..."}
                => ReadLua(i, Push(Parse("discharge"), s), r) = ReadLua(i,
                Push(Node("one_value"), Push(Shape("paren"), s)), r)
           /\ r.last \notin {"call", "method_call", "..."}
                => ReadLua(i, Push(Parse("discharge"), s), r) = ReadLua(i, Push(Shape("paren"), s), r)
<1> DEFINE x == r.last
<1>0. x = r.last
  OBVIOUS
<1> HIDE DEF x
<1>1. /\ x \in {"call", "method_call", "..."} => ~Fails(Lua55!Discharge(x))
           /\ On(Lua55!Discharge(x), s) = Push(Node("one_value"), Push(Shape("paren"), s))
      /\ x \notin {"call", "method_call", "..."} => ~Fails(Lua55!Discharge(x))
           /\ On(Lua55!Discharge(x), s) = Push(Shape("paren"), s)
  BY LuaDischargeIs, SymbolsIn, TokensAre, ConstCloseIn, MarksIn, WordRules, OnIs, GoesAre
<1>2. \A u : u \in Regs /\ u.last = x =>
        /\ ~Fails(Lua55!Discharge(x)) => ReadLua(i, Push(Parse("discharge"), s), u) = ReadLua(i,
             On(Lua55!Discharge(x), s), u)
  <2>1. Lua55!LuaProcedure("discharge", Head(i), x) = Lua55!Discharge(x)
    BY LuaProcedures
  <2> QED BY <2>1, ProcsIn, LuaDoes
<1> QED BY Zenon, <1>0, <1>1, <1>2

LEMMA LuaFuncargs ==
    ASSUME NEW i \in Tokens55, i # <<>>, NEW t, t = Head(i), NEW s \in Stack
    PROVE  /\ (t = "(" \/ t = LineParen)
                => LuaTo(i, Push(Parse("funcargs"), s),
                Push(Expect("("), Push(Parse("args"), Push(Expect(")"), s))))
           /\ t = "String" => LuaTo(i, Push(Parse("funcargs"), s),
                Push(Expect("String"), Push(Node("String"), s)))
           /\ t = OpenBrace => LuaTo(i, Push(Parse("funcargs"), s),
                Push(Expect(OpenBrace),
                Push(Parse("constructor"), Push(Expect(CloseBrace), Push(Node("table"), s)))))
           /\ (t # "(" /\ t # "String" /\ t # OpenBrace /\ t # LineParen)
                => LuaNo(i, Push(Parse("funcargs"), s))
<1>1. /\ (t = "(" \/ t = LineParen) => ~Fails(Lua55!FuncArgs(t))
           /\ On(Lua55!FuncArgs(t), s) = Push(Expect("("), Push(Parse("args"), Push(Expect(")"), s)))
      /\ t = "String" => ~Fails(Lua55!FuncArgs(t))
           /\ On(Lua55!FuncArgs(t), s) = Push(Expect("String"), Push(Node("String"), s))
      /\ t = OpenBrace => ~Fails(Lua55!FuncArgs(t))
           /\ On(Lua55!FuncArgs(t), s) = Push(Expect(OpenBrace),
           Push(Parse("constructor"), Push(Expect(CloseBrace), Push(Node("table"), s))))
      /\ (t # "(" /\ t # "String" /\ t # OpenBrace /\ t # LineParen)
           => Lua55!FuncArgs(t) = Word1(Fail("none"))
  BY LuaFuncargsIs, SymbolsIn, TokensAre, ConstCloseIn, MarksIn, WordRules, OnIs, GoesAre
<1>2. /\ ~Fails(Lua55!FuncArgs(t)) => LuaTo(i, Push(Parse("funcargs"), s), On(Lua55!FuncArgs(t), s))
      /\ Lua55!FuncArgs(t) = Word1(Fail("none")) => LuaNo(i, Push(Parse("funcargs"), s))
  <2>1. \A x : Lua55!LuaProcedure("funcargs", Head(i), x) = Lua55!FuncArgs(t)
    BY LuaProcedures
  <2> QED BY Zenon, <2>1, ProcsIn, LuaGo
<1> QED BY Zenon, <1>1, <1>2

LEMMA LuaSubexpr ==
    ASSUME NEW i \in Tokens55, i # <<>>, NEW t, t = Head(i), NEW s \in Stack
    PROVE  /\ t \in UnaryOps => LuaTo(i, Push(Parse("subexpr"), s),
                Push(Expect(t), Push(Parse("subexpr"), Push(Climb("unary"), Push(Unop(t), s)))))
           /\ t \in Simple => LuaTo(i, Push(Parse("subexpr"), s), Push(Expect(t), Push(Node(t), s)))
           /\ t = OpenBrace => LuaTo(i, Push(Parse("subexpr"), s),
                Push(Expect(OpenBrace),
                Push(Parse("constructor"), Push(Expect(CloseBrace), Push(Node("table"), s)))))
           /\ t = "function" => LuaTo(i, Push(Parse("subexpr"), s),
                Push(Expect("function"),
                Push(Expect("("), Push(Parse("parlist"),
                Push(Expect(")"), Push(Parse("statlist"),
                Push(Expect("end"), Push(Node("function"), s))))))))
           /\ (t \notin UnaryOps /\ t \notin Simple /\ t # OpenBrace /\ t # "function")
                => LuaTo(i, Push(Parse("subexpr"), s),
                Push(Parse("primaryexp"), Push(Parse("suffixedexp"), s)))
<1>1. /\ t \in UnaryOps => ~Fails(Lua55!SubExprStart(t))
           /\ On(Lua55!SubExprStart(t), s) = Push(Expect(t),
           Push(Parse("subexpr"), Push(Climb("unary"), Push(Unop(t), s))))
      /\ t \in Simple => ~Fails(Lua55!SubExprStart(t))
           /\ On(Lua55!SubExprStart(t), s) = Push(Expect(t), Push(Node(t), s))
      /\ t = OpenBrace => ~Fails(Lua55!SubExprStart(t))
           /\ On(Lua55!SubExprStart(t), s) = Push(Expect(OpenBrace),
           Push(Parse("constructor"), Push(Expect(CloseBrace), Push(Node("table"), s))))
      /\ t = "function" => ~Fails(Lua55!SubExprStart(t))
           /\ On(Lua55!SubExprStart(t), s) = Push(Expect("function"),
           Push(Expect("("), Push(Parse("parlist"),
           Push(Expect(")"), Push(Parse("statlist"), Push(Expect("end"), Push(Node("function"), s)))))))
      /\ (t \notin UnaryOps /\ t \notin Simple /\ t # OpenBrace /\ t # "function")
           => ~Fails(Lua55!SubExprStart(t))
           /\ On(Lua55!SubExprStart(t), s) = Push(Parse("primaryexp"), Push(Parse("suffixedexp"), s))
  BY LuaSubexprIs, SymbolsIn, TokensAre, ConstCloseIn, MarksIn, WordRules, OnIs, GoesAre
<1>2. /\ ~Fails(Lua55!SubExprStart(t)) => LuaTo(i, Push(Parse("subexpr"), s), On(Lua55!SubExprStart(t), s))
  <2>1. \A x : Lua55!LuaProcedure("subexpr", Head(i), x) = Lua55!SubExprStart(t)
    BY LuaProcedures
  <2> QED BY Zenon, <2>1, ProcsIn, LuaGo
<1> QED BY Zenon, <1>1, <1>2

LEMMA LuaExprstat ==
    ASSUME NEW i \in Tokens55, i # <<>>, NEW t, t = Head(i), NEW s \in Stack, NEW r \in Regs
    PROVE  /\ (t = Comma /\ r.last \in {"name", "index", "index_expr"})
                => ReadLua(i, Push(Parse("exprstat"), s), r) = ReadLua(i,
                Push(Expect(Comma), Push(Parse("primaryexp"),
                Push(Parse("suffixedexp"), Push(Parse("restassign"), s)))), r)
           /\ (t = "=" /\ r.last \in {"name", "index", "index_expr"})
                => ReadLua(i, Push(Parse("exprstat"), s), r) = ReadLua(i,
                Push(Expect("="), Push(Parse("subexpr"),
                Push(Climb("none"), Push(Parse("explist"), Push(Node("assign"), s))))), r)
           /\ (t # Comma /\ t # "=" /\ r.last \in {"call", "method_call"})
                => ReadLua(i, Push(Parse("exprstat"), s), r) = ReadLua(i, Push(Node("call_statement"), s),
                r)
           /\ ((t = Comma \/ t = "=") /\ r.last \notin {"name", "index", "index_expr"})
                => ReadLua(i, Push(Parse("exprstat"), s), r) = Refusal("no_variable")
           /\ (t # Comma /\ t # "=" /\ r.last = "paren")
                => ReadLua(i, Push(Parse("exprstat"), s), r) = Refusal("no_variable")
           /\ (t # Comma /\ t # "=" /\ r.last # "paren" /\ r.last \notin {"call", "method_call"})
                => ReadLua(i, Push(Parse("exprstat"), s), r) = Refusal("none")
<1> DEFINE x == r.last
<1>0. x = r.last
  OBVIOUS
<1> HIDE DEF x
<1>1. /\ (t = Comma /\ x \in {"name", "index", "index_expr"}) => ~Fails(Lua55!ExprStat(t, x))
           /\ On(Lua55!ExprStat(t, x), s) = Push(Expect(Comma),
           Push(Parse("primaryexp"), Push(Parse("suffixedexp"), Push(Parse("restassign"), s))))
      /\ (t = "=" /\ x \in {"name", "index", "index_expr"}) => ~Fails(Lua55!ExprStat(t, x))
           /\ On(Lua55!ExprStat(t, x), s) = Push(Expect("="),
           Push(Parse("subexpr"), Push(Climb("none"), Push(Parse("explist"), Push(Node("assign"), s)))))
      /\ (t # Comma /\ t # "=" /\ x \in {"call", "method_call"}) => ~Fails(Lua55!ExprStat(t, x))
           /\ On(Lua55!ExprStat(t, x), s) = Push(Node("call_statement"), s)
      /\ ((t = Comma \/ t = "=") /\ x \notin {"name", "index", "index_expr"})
           => Lua55!ExprStat(t, x) = Word1(Fail("no_variable"))
      /\ (t # Comma /\ t # "=" /\ x = "paren") => Lua55!ExprStat(t, x) = Word1(Fail("no_variable"))
      /\ (t # Comma /\ t # "=" /\ x # "paren" /\ x \notin {"call", "method_call"})
           => Lua55!ExprStat(t, x) = Word1(Fail("none"))
  BY LuaExprstatIs, SymbolsIn, TokensAre, ConstCloseIn, MarksIn, WordRules, OnIs, GoesAre
<1>2. \A u : u \in Regs /\ u.last = x =>
        /\ ~Fails(Lua55!ExprStat(t, x))
             => ReadLua(i, Push(Parse("exprstat"), s), u) = ReadLua(i, On(Lua55!ExprStat(t, x), s), u)
        /\ Lua55!ExprStat(t, x) = Word1(Fail("no_variable"))
             => ReadLua(i, Push(Parse("exprstat"), s), u) = Refusal("no_variable")
        /\ Lua55!ExprStat(t, x) = Word1(Fail("none"))
             => ReadLua(i, Push(Parse("exprstat"), s), u) = Refusal("none")
  <2>1. Lua55!LuaProcedure("exprstat", Head(i), x) = Lua55!ExprStat(t, x)
    BY LuaProcedures
  <2> QED BY <2>1, ProcsIn, LuaDoes
<1> QED BY Zenon, <1>0, <1>1, <1>2

LEMMA LuaRestassign ==
    ASSUME NEW i \in Tokens55, i # <<>>, NEW t, t = Head(i), NEW s \in Stack, NEW r \in Regs
    PROVE  /\ (t = Comma /\ r.last \in {"name", "index", "index_expr"})
                => ReadLua(i, Push(Parse("restassign"), s), r) = ReadLua(i,
                Push(Expect(Comma), Push(Parse("primaryexp"),
                Push(Parse("suffixedexp"), Push(Parse("restassign"), s)))), r)
           /\ (t = "=" /\ r.last \in {"name", "index", "index_expr"})
                => ReadLua(i, Push(Parse("restassign"), s), r) = ReadLua(i,
                Push(Expect("="), Push(Parse("subexpr"),
                Push(Climb("none"), Push(Parse("explist"), Push(Node("assign"), s))))), r)
           /\ ((t = Comma \/ t = "=") /\ r.last \notin {"name", "index", "index_expr"})
                => ReadLua(i, Push(Parse("restassign"), s), r) = Refusal("no_variable")
           /\ (t # Comma /\ t # "=") => ReadLua(i, Push(Parse("restassign"), s), r) = Refusal("none")
<1> DEFINE x == r.last
<1>0. x = r.last
  OBVIOUS
<1> HIDE DEF x
<1>1. /\ (t = Comma /\ x \in {"name", "index", "index_expr"}) => ~Fails(Lua55!RestAssign(t, x))
           /\ On(Lua55!RestAssign(t, x), s) = Push(Expect(Comma),
           Push(Parse("primaryexp"), Push(Parse("suffixedexp"), Push(Parse("restassign"), s))))
      /\ (t = "=" /\ x \in {"name", "index", "index_expr"}) => ~Fails(Lua55!RestAssign(t, x))
           /\ On(Lua55!RestAssign(t, x), s) = Push(Expect("="),
           Push(Parse("subexpr"), Push(Climb("none"), Push(Parse("explist"), Push(Node("assign"), s)))))
      /\ ((t = Comma \/ t = "=") /\ x \notin {"name", "index", "index_expr"})
           => Lua55!RestAssign(t, x) = Word1(Fail("no_variable"))
      /\ (t # Comma /\ t # "=") => Lua55!RestAssign(t, x) = Word1(Fail("none"))
  BY LuaRestassignIs, SymbolsIn, TokensAre, ConstCloseIn, MarksIn, WordRules, OnIs, GoesAre
<1>2. \A u : u \in Regs /\ u.last = x =>
        /\ ~Fails(Lua55!RestAssign(t, x))
             => ReadLua(i, Push(Parse("restassign"), s), u) = ReadLua(i, On(Lua55!RestAssign(t, x), s), u)
        /\ Lua55!RestAssign(t, x) = Word1(Fail("no_variable"))
             => ReadLua(i, Push(Parse("restassign"), s), u) = Refusal("no_variable")
        /\ Lua55!RestAssign(t, x) = Word1(Fail("none"))
             => ReadLua(i, Push(Parse("restassign"), s), u) = Refusal("none")
  <2>1. Lua55!LuaProcedure("restassign", Head(i), x) = Lua55!RestAssign(t, x)
    BY LuaProcedures
  <2> QED BY <2>1, ProcsIn, LuaDoes
<1> QED BY Zenon, <1>0, <1>1, <1>2

LEMMA LuaLocalstat ==
    ASSUME NEW i \in Tokens55, i # <<>>, NEW t, t = Head(i), NEW s \in Stack
    PROVE  /\ t = "function" => LuaTo(i, Push(Parse("localstat"), s),
                Push(Expect("function"),
                Push(Expect("Name"),
                Push(Expect("("), Push(Parse("parlist"),
                Push(Expect(")"), Push(Parse("statlist"),
                Push(Expect("end"), Push(Node("local_function"), s)))))))))
           /\ t # "function" => LuaTo(i, Push(Parse("localstat"), s),
                Push(Parse("attrib"),
                Push(Expect("Name"),
                Push(Parse("attrib"),
                Push(Parse("attnamelist"), Push(Parse("init"), Push(Node("local"), s)))))))
<1>1. /\ t = "function" => ~Fails(Lua55!LocalStat(t))
           /\ On(Lua55!LocalStat(t), s) = Push(Expect("function"),
           Push(Expect("Name"),
           Push(Expect("("), Push(Parse("parlist"),
           Push(Expect(")"), Push(Parse("statlist"),
           Push(Expect("end"), Push(Node("local_function"), s))))))))
      /\ t # "function" => ~Fails(Lua55!LocalStat(t))
           /\ On(Lua55!LocalStat(t), s) = Push(Parse("attrib"),
           Push(Expect("Name"),
           Push(Parse("attrib"), Push(Parse("attnamelist"), Push(Parse("init"), Push(Node("local"), s))))))
  BY LuaLocalstatIs, SymbolsIn, TokensAre, ConstCloseIn, MarksIn, WordRules, OnIs, GoesAre
<1>2. /\ ~Fails(Lua55!LocalStat(t)) => LuaTo(i, Push(Parse("localstat"), s), On(Lua55!LocalStat(t), s))
  <2>1. \A x : Lua55!LuaProcedure("localstat", Head(i), x) = Lua55!LocalStat(t)
    BY LuaProcedures
  <2> QED BY Zenon, <2>1, ProcsIn, LuaGo
<1> QED BY Zenon, <1>1, <1>2

LEMMA LuaAttrib ==
    ASSUME NEW i \in Tokens55, i # <<>>, NEW t, t = Head(i), NEW s \in Stack
    PROVE  /\ t = "<" => LuaTo(i, Push(Parse("attrib"), s), Push(Expect("<"), Push(Parse("attname"), s)))
           /\ t # "<" => LuaTo(i, Push(Parse("attrib"), s), s)
<1>1. /\ t = "<" => ~Fails(Lua55!Attrib(t))
           /\ On(Lua55!Attrib(t), s) = Push(Expect("<"), Push(Parse("attname"), s))
      /\ t # "<" => Lua55!Attrib(t) = <<>>
  BY LuaAttribIs, SymbolsIn, TokensAre, ConstCloseIn, MarksIn, WordRules, OnIs, GoesAre
<1>2. /\ Lua55!Attrib(t) = <<>> => LuaTo(i, Push(Parse("attrib"), s), s)
      /\ ~Fails(Lua55!Attrib(t)) => LuaTo(i, Push(Parse("attrib"), s), On(Lua55!Attrib(t), s))
  <2>1. \A x : Lua55!LuaProcedure("attrib", Head(i), x) = Lua55!Attrib(t)
    BY LuaProcedures
  <2> QED BY Zenon, <2>1, ProcsIn, LuaGo
<1> QED BY Zenon, <1>1, <1>2

LEMMA LuaAttname ==
    ASSUME NEW i \in Tokens55, i # <<>>, NEW t, t = Head(i), NEW s \in Stack
    PROVE  /\ t \in {"const", "close"}
                => LuaTo(i, Push(Parse("attname"), s), Push(Expect(t), Push(Expect(">"), Push(Node(t), s))))
           /\ (t # "const" /\ t # "close") => LuaNo(i, Push(Parse("attname"), s))
<1>1. /\ t \in {"const", "close"} => ~Fails(Lua55!AttName(t))
           /\ On(Lua55!AttName(t), s) = Push(Expect(t), Push(Expect(">"), Push(Node(t), s)))
      /\ (t # "const" /\ t # "close") => Lua55!AttName(t) = Word1(Fail("none"))
  BY LuaAttnameIs, SymbolsIn, TokensAre, ConstCloseIn, MarksIn, WordRules, OnIs, GoesAre
<1>2. /\ ~Fails(Lua55!AttName(t)) => LuaTo(i, Push(Parse("attname"), s), On(Lua55!AttName(t), s))
      /\ Lua55!AttName(t) = Word1(Fail("none")) => LuaNo(i, Push(Parse("attname"), s))
  <2>1. \A x : Lua55!LuaProcedure("attname", Head(i), x) = Lua55!AttName(t)
    BY LuaProcedures
  <2> QED BY Zenon, <2>1, ProcsIn, LuaGo
<1> QED BY Zenon, <1>1, <1>2

LEMMA LuaAttnamelist ==
    ASSUME NEW i \in Tokens55, i # <<>>, NEW t, t = Head(i), NEW s \in Stack, NEW r \in Regs
    PROVE  /\ t # Comma => ReadLua(i, Push(Parse("attnamelist"), s), r) = ReadLua(i, s, r)
           /\ (t = Comma /\ r.last = "close")
                => ReadLua(i, Push(Parse("attnamelist"), s), r) = ReadLua(i,
                Push(Expect(Comma), Push(Expect("Name"),
                Push(Parse("closed"), Push(Parse("closedlist"), s)))), r)
           /\ (t = Comma /\ r.last # "close")
                => ReadLua(i, Push(Parse("attnamelist"), s), r) = ReadLua(i,
                Push(Expect(Comma), Push(Expect("Name"),
                Push(Parse("attrib"), Push(Parse("attnamelist"), s)))), r)
<1> DEFINE x == r.last
<1>0. x = r.last
  OBVIOUS
<1> HIDE DEF x
<1>1. /\ t # Comma => Lua55!AttNameList(t, x) = <<>>
      /\ (t = Comma /\ x = "close") => ~Fails(Lua55!AttNameList(t, x))
           /\ On(Lua55!AttNameList(t, x), s) = Push(Expect(Comma),
           Push(Expect("Name"), Push(Parse("closed"), Push(Parse("closedlist"), s))))
      /\ (t = Comma /\ x # "close") => ~Fails(Lua55!AttNameList(t, x))
           /\ On(Lua55!AttNameList(t, x), s) = Push(Expect(Comma),
           Push(Expect("Name"), Push(Parse("attrib"), Push(Parse("attnamelist"), s))))
  BY LuaAttnamelistIs, SymbolsIn, TokensAre, ConstCloseIn, MarksIn, WordRules, OnIs, GoesAre
<1>2. \A u : u \in Regs /\ u.last = x =>
        /\ Lua55!AttNameList(t, x) = <<>> => ReadLua(i, Push(Parse("attnamelist"), s), u) = ReadLua(i, s, u)
        /\ ~Fails(Lua55!AttNameList(t, x))
             => ReadLua(i, Push(Parse("attnamelist"), s), u) = ReadLua(i, On(Lua55!AttNameList(t, x), s), u)
  <2>1. Lua55!LuaProcedure("attnamelist", Head(i), x) = Lua55!AttNameList(t, x)
    BY LuaProcedures
  <2> QED BY <2>1, ProcsIn, LuaDoes
<1> QED BY Zenon, <1>0, <1>1, <1>2

LEMMA LuaClosed ==
    ASSUME NEW i \in Tokens55, i # <<>>, NEW t, t = Head(i), NEW s \in Stack
    PROVE  /\ t = "<" => LuaTo(i, Push(Parse("closed"), s),
                Push(Expect("<"), Push(Expect("const"), Push(Expect(">"), Push(Node("const"), s)))))
           /\ t # "<" => LuaTo(i, Push(Parse("closed"), s), s)
<1>1. /\ t = "<" => ~Fails(Lua55!Closed(t))
           /\ On(Lua55!Closed(t), s) = Push(Expect("<"),
           Push(Expect("const"), Push(Expect(">"), Push(Node("const"), s))))
      /\ t # "<" => Lua55!Closed(t) = <<>>
  BY LuaClosedIs, SymbolsIn, TokensAre, ConstCloseIn, MarksIn, WordRules, OnIs, GoesAre
<1>2. /\ Lua55!Closed(t) = <<>> => LuaTo(i, Push(Parse("closed"), s), s)
      /\ ~Fails(Lua55!Closed(t)) => LuaTo(i, Push(Parse("closed"), s), On(Lua55!Closed(t), s))
  <2>1. \A x : Lua55!LuaProcedure("closed", Head(i), x) = Lua55!Closed(t)
    BY LuaProcedures
  <2> QED BY Zenon, <2>1, ProcsIn, LuaGo
<1> QED BY Zenon, <1>1, <1>2

LEMMA LuaClosedlist ==
    ASSUME NEW i \in Tokens55, i # <<>>, NEW t, t = Head(i), NEW s \in Stack
    PROVE  /\ t = Comma => LuaTo(i, Push(Parse("closedlist"), s),
                Push(Expect(Comma), Push(Expect("Name"),
                Push(Parse("closed"), Push(Parse("closedlist"), s)))))
           /\ t # Comma => LuaTo(i, Push(Parse("closedlist"), s), s)
<1>1. /\ t = Comma => ~Fails(Lua55!ClosedList(t))
           /\ On(Lua55!ClosedList(t), s) = Push(Expect(Comma),
           Push(Expect("Name"), Push(Parse("closed"), Push(Parse("closedlist"), s))))
      /\ t # Comma => Lua55!ClosedList(t) = <<>>
  BY LuaClosedlistIs, SymbolsIn, TokensAre, ConstCloseIn, MarksIn, WordRules, OnIs, GoesAre
<1>2. /\ Lua55!ClosedList(t) = <<>> => LuaTo(i, Push(Parse("closedlist"), s), s)
      /\ ~Fails(Lua55!ClosedList(t)) => LuaTo(i, Push(Parse("closedlist"), s), On(Lua55!ClosedList(t), s))
  <2>1. \A x : Lua55!LuaProcedure("closedlist", Head(i), x) = Lua55!ClosedList(t)
    BY LuaProcedures
  <2> QED BY Zenon, <2>1, ProcsIn, LuaGo
<1> QED BY Zenon, <1>1, <1>2

LEMMA LuaGlobalstat ==
    ASSUME NEW i \in Tokens55, i # <<>>, NEW t, t = Head(i), NEW s \in Stack
    PROVE  /\ t = "function" => LuaTo(i, Push(Parse("globalstat"), s),
                Push(Expect("function"),
                Push(Expect("Name"),
                Push(Expect("("), Push(Parse("parlist"),
                Push(Expect(")"), Push(Parse("statlist"),
                Push(Expect("end"), Push(Node("global"), s)))))))))
           /\ t = "*" => LuaTo(i, Push(Parse("globalstat"), s), Push(Expect("*"), Push(Node("global"), s)))
           /\ (t \in Names \/ t = "<") => LuaTo(i, Push(Parse("globalstat"), s),
                Push(Parse("attrib"),
                Push(Expect("Name"),
                Push(Parse("attrib"), Push(Parse("attnamelist"), Push(Node("global"), s))))))
           /\ (t \notin Names /\ t # "function" /\ t # "*" /\ t # "<")
                => LuaTo(i, Push(Parse("globalstat"), s),
                Push(Parse("suffixedexp"), Push(Parse("exprstat"), s)))
<1>1. /\ t = "function" => ~Fails(Lua55!GlobalStat(t))
           /\ On(Lua55!GlobalStat(t), s) = Push(Expect("function"),
           Push(Expect("Name"),
           Push(Expect("("), Push(Parse("parlist"),
           Push(Expect(")"), Push(Parse("statlist"), Push(Expect("end"), Push(Node("global"), s))))))))
      /\ t = "*" => ~Fails(Lua55!GlobalStat(t))
           /\ On(Lua55!GlobalStat(t), s) = Push(Expect("*"), Push(Node("global"), s))
      /\ (t \in Names \/ t = "<") => ~Fails(Lua55!GlobalStat(t))
           /\ On(Lua55!GlobalStat(t), s) = Push(Parse("attrib"),
           Push(Expect("Name"), Push(Parse("attrib"), Push(Parse("attnamelist"), Push(Node("global"), s)))))
      /\ (t \notin Names /\ t # "function" /\ t # "*" /\ t # "<") => ~Fails(Lua55!GlobalStat(t))
           /\ On(Lua55!GlobalStat(t), s) = Push(Parse("suffixedexp"), Push(Parse("exprstat"), s))
  BY LuaGlobalstatIs, SymbolsIn, TokensAre, ConstCloseIn, MarksIn, WordRules, OnIs, GoesAre
<1>2. /\ ~Fails(Lua55!GlobalStat(t)) => LuaTo(i, Push(Parse("globalstat"), s), On(Lua55!GlobalStat(t), s))
  <2>1. \A x : Lua55!LuaProcedure("globalstat", Head(i), x) = Lua55!GlobalStat(t)
    BY LuaProcedures
  <2> QED BY Zenon, <2>1, ProcsIn, LuaGo
<1> QED BY Zenon, <1>1, <1>2

LEMMA LuaForstat ==
    ASSUME NEW i \in Tokens55, i # <<>>, NEW t, t = Head(i), NEW s \in Stack
    PROVE  /\ t = "=" => LuaTo(i, Push(Parse("forstat"), s),
                Push(Expect("="), Push(Parse("subexpr"),
                Push(Climb("none"), Push(Expect(Comma),
                Push(Parse("subexpr"),
                Push(Climb("none"), Push(Parse("fornum"),
                Push(Expect("do"), Push(Parse("statlist"),
                Push(Expect("end"), Push(Node("numeric_for"), s))))))))))))
           /\ t # "=" => LuaTo(i, Push(Parse("forstat"), s),
                Push(Parse("forlist"),
                Push(Expect("in"), Push(Parse("subexpr"),
                Push(Climb("none"), Push(Parse("explist"),
                Push(Expect("do"), Push(Parse("statlist"),
                Push(Expect("end"), Push(Node("generic_for"), s))))))))))
<1>1. /\ t = "=" => ~Fails(Lua55!ForStat(t))
           /\ On(Lua55!ForStat(t), s) = Push(Expect("="),
           Push(Parse("subexpr"),
           Push(Climb("none"), Push(Expect(Comma),
           Push(Parse("subexpr"),
           Push(Climb("none"), Push(Parse("fornum"),
           Push(Expect("do"), Push(Parse("statlist"),
           Push(Expect("end"), Push(Node("numeric_for"), s)))))))))))
      /\ t # "=" => ~Fails(Lua55!ForStat(t))
           /\ On(Lua55!ForStat(t), s) = Push(Parse("forlist"),
           Push(Expect("in"), Push(Parse("subexpr"),
           Push(Climb("none"), Push(Parse("explist"),
           Push(Expect("do"), Push(Parse("statlist"),
           Push(Expect("end"), Push(Node("generic_for"), s)))))))))
  BY LuaForstatIs, SymbolsIn, TokensAre, ConstCloseIn, MarksIn, WordRules, OnIs, GoesAre
<1>2. /\ ~Fails(Lua55!ForStat(t)) => LuaTo(i, Push(Parse("forstat"), s), On(Lua55!ForStat(t), s))
  <2>1. \A x : Lua55!LuaProcedure("forstat", Head(i), x) = Lua55!ForStat(t)
    BY LuaProcedures
  <2> QED BY Zenon, <2>1, ProcsIn, LuaGo
<1> QED BY Zenon, <1>1, <1>2

LEMMA LuaTestThen ==
    ASSUME NEW i \in Tokens55, i # <<>>, NEW t, t = Head(i), NEW s \in Stack
    PROVE  /\ t = "elseif" => LuaTo(i, Push(Parse("test_then"), s),
                Push(Expect("elseif"),
                Push(Parse("subexpr"),
                Push(Climb("none"), Push(Expect("then"),
                Push(Parse("statlist"), Push(Node("elseif"), Push(Parse("test_then"), s))))))))
           /\ t = "else" => LuaTo(i, Push(Parse("test_then"), s),
                Push(Expect("else"), Push(Parse("statlist"), Push(Node("else"), s))))
           /\ (t # "elseif" /\ t # "else") => LuaTo(i, Push(Parse("test_then"), s), s)
<1>1. /\ t = "elseif" => ~Fails(Lua55!TestThen(t))
           /\ On(Lua55!TestThen(t), s) = Push(Expect("elseif"),
           Push(Parse("subexpr"),
           Push(Climb("none"), Push(Expect("then"),
           Push(Parse("statlist"), Push(Node("elseif"), Push(Parse("test_then"), s)))))))
      /\ t = "else" => ~Fails(Lua55!TestThen(t))
           /\ On(Lua55!TestThen(t), s) = Push(Expect("else"),
           Push(Parse("statlist"), Push(Node("else"), s)))
      /\ (t # "elseif" /\ t # "else") => Lua55!TestThen(t) = <<>>
  BY LuaTestThenIs, SymbolsIn, TokensAre, ConstCloseIn, MarksIn, WordRules, OnIs, GoesAre
<1>2. /\ Lua55!TestThen(t) = <<>> => LuaTo(i, Push(Parse("test_then"), s), s)
      /\ ~Fails(Lua55!TestThen(t)) => LuaTo(i, Push(Parse("test_then"), s), On(Lua55!TestThen(t), s))
  <2>1. \A x : Lua55!LuaProcedure("test_then", Head(i), x) = Lua55!TestThen(t)
    BY LuaProcedures
  <2> QED BY Zenon, <2>1, ProcsIn, LuaGo
<1> QED BY Zenon, <1>1, <1>2

LEMMA LuaFuncname ==
    ASSUME NEW i \in Tokens55, i # <<>>, NEW t, t = Head(i), NEW s \in Stack
    PROVE  /\ t = "." => LuaTo(i, Push(Parse("funcname"), s),
                Push(Expect("."), Push(Expect("Name"), Push(Node("part"), Push(Parse("funcname"), s)))))
           /\ t = ":" => LuaTo(i, Push(Parse("funcname"), s),
                Push(Expect(":"), Push(Expect("Name"), Push(Node("method"), s))))
           /\ (t # "." /\ t # ":") => LuaTo(i, Push(Parse("funcname"), s), s)
<1>1. /\ t = "." => ~Fails(Lua55!FuncName(t))
           /\ On(Lua55!FuncName(t), s) = Push(Expect("."),
           Push(Expect("Name"), Push(Node("part"), Push(Parse("funcname"), s))))
      /\ t = ":" => ~Fails(Lua55!FuncName(t))
           /\ On(Lua55!FuncName(t), s) = Push(Expect(":"), Push(Expect("Name"), Push(Node("method"), s)))
      /\ (t # "." /\ t # ":") => Lua55!FuncName(t) = <<>>
  BY LuaFuncnameIs, SymbolsIn, TokensAre, ConstCloseIn, MarksIn, WordRules, OnIs, GoesAre
<1>2. /\ Lua55!FuncName(t) = <<>> => LuaTo(i, Push(Parse("funcname"), s), s)
      /\ ~Fails(Lua55!FuncName(t)) => LuaTo(i, Push(Parse("funcname"), s), On(Lua55!FuncName(t), s))
  <2>1. \A x : Lua55!LuaProcedure("funcname", Head(i), x) = Lua55!FuncName(t)
    BY LuaProcedures
  <2> QED BY Zenon, <2>1, ProcsIn, LuaGo
<1> QED BY Zenon, <1>1, <1>2

LEMMA LuaParameter ==
    ASSUME NEW i \in Tokens55, i # <<>>, NEW t, t = Head(i), NEW s \in Stack
    PROVE  /\ t = "..." => LuaTo(i, Push(Parse("parameter"), s),
                Push(Expect("..."), Push(Node("is_vararg"), Push(Parse("vararg_name"), s))))
           /\ t # "..." => LuaTo(i, Push(Parse("parameter"), s),
                Push(Expect("Name"), Push(Node("param"), Push(Parse("morepars"), s))))
<1>1. /\ t = "..." => ~Fails(Lua55!Parameter(t))
           /\ On(Lua55!Parameter(t), s) = Push(Expect("..."),
           Push(Node("is_vararg"), Push(Parse("vararg_name"), s)))
      /\ t # "..." => ~Fails(Lua55!Parameter(t))
           /\ On(Lua55!Parameter(t), s) = Push(Expect("Name"),
           Push(Node("param"), Push(Parse("morepars"), s)))
  BY LuaParameterIs, SymbolsIn, TokensAre, ConstCloseIn, MarksIn, WordRules, OnIs, GoesAre
<1>2. /\ ~Fails(Lua55!Parameter(t)) => LuaTo(i, Push(Parse("parameter"), s), On(Lua55!Parameter(t), s))
  <2>1. \A x : Lua55!LuaProcedure("parameter", Head(i), x) = Lua55!Parameter(t)
    BY LuaProcedures
  <2> QED BY Zenon, <2>1, ProcsIn, LuaGo
<1> QED BY Zenon, <1>1, <1>2

LEMMA LuaField ==
    ASSUME NEW i \in Tokens55, i # <<>>, NEW t, t = Head(i), NEW s \in Stack
    PROVE  /\ t = "[" => LuaTo(i, Push(Parse("field"), s),
                Push(Expect("["), Push(Parse("subexpr"),
                Push(Climb("none"), Push(Expect("]"),
                Push(Expect("="), Push(Parse("subexpr"),
                Push(Climb("none"), Push(Node("expr_key"), s)))))))))
           /\ t \in Names => LuaTo(i, Push(Parse("field"), s),
                Push(Expect("Name"), Push(Parse("recfield"), s)))
           /\ (t \notin Names /\ t # "[")
                => LuaTo(i, Push(Parse("field"), s),
                Push(Parse("subexpr"), Push(Climb("none"), Push(Node("positional"), s))))
<1>1. /\ t = "[" => ~Fails(Lua55!Field(t))
           /\ On(Lua55!Field(t), s) = Push(Expect("["),
           Push(Parse("subexpr"),
           Push(Climb("none"), Push(Expect("]"),
           Push(Expect("="), Push(Parse("subexpr"), Push(Climb("none"), Push(Node("expr_key"), s))))))))
      /\ t \in Names => ~Fails(Lua55!Field(t))
           /\ On(Lua55!Field(t), s) = Push(Expect("Name"), Push(Parse("recfield"), s))
      /\ (t \notin Names /\ t # "[") => ~Fails(Lua55!Field(t))
           /\ On(Lua55!Field(t), s) = Push(Parse("subexpr"),
           Push(Climb("none"), Push(Node("positional"), s)))
  BY LuaFieldIs, SymbolsIn, TokensAre, ConstCloseIn, MarksIn, WordRules, OnIs, GoesAre
<1>2. /\ ~Fails(Lua55!Field(t)) => LuaTo(i, Push(Parse("field"), s), On(Lua55!Field(t), s))
  <2>1. \A x : Lua55!LuaProcedure("field", Head(i), x) = Lua55!Field(t)
    BY LuaProcedures
  <2> QED BY Zenon, <2>1, ProcsIn, LuaGo
<1> QED BY Zenon, <1>1, <1>2

LEMMA LuaRecfield ==
    ASSUME NEW i \in Tokens55, i # <<>>, NEW t, t = Head(i), NEW s \in Stack
    PROVE  /\ t = "=" => LuaTo(i, Push(Parse("recfield"), s),
                Push(Expect("="), Push(Parse("subexpr"), Push(Climb("none"), Push(Node("name_key"), s)))))
           /\ t # "=" => LuaTo(i, Push(Parse("recfield"), s),
                Push(Node("name"), Push(Parse("suffixedexp"),
                Push(Climb("none"), Push(Node("positional"), s)))))
<1>1. /\ t = "=" => ~Fails(Lua55!RecField(t))
           /\ On(Lua55!RecField(t), s) = Push(Expect("="),
           Push(Parse("subexpr"), Push(Climb("none"), Push(Node("name_key"), s))))
      /\ t # "=" => ~Fails(Lua55!RecField(t))
           /\ On(Lua55!RecField(t), s) = Push(Node("name"),
           Push(Parse("suffixedexp"), Push(Climb("none"), Push(Node("positional"), s))))
  BY LuaRecfieldIs, SymbolsIn, TokensAre, ConstCloseIn, MarksIn, WordRules, OnIs, GoesAre
<1>2. /\ ~Fails(Lua55!RecField(t)) => LuaTo(i, Push(Parse("recfield"), s), On(Lua55!RecField(t), s))
  <2>1. \A x : Lua55!LuaProcedure("recfield", Head(i), x) = Lua55!RecField(t)
    BY LuaProcedures
  <2> QED BY Zenon, <2>1, ProcsIn, LuaGo
<1> QED BY Zenon, <1>1, <1>2

LEMMA LuaSemicolon ==
    ASSUME NEW i \in Tokens55, i # <<>>, NEW t, t = Head(i), NEW s \in Stack
    PROVE  /\ t = SemiMark => LuaTo(i, Push(Parse("semicolon"), s), Push(Expect(SemiMark), s))
           /\ t # SemiMark => LuaTo(i, Push(Parse("semicolon"), s), s)
<1>1. /\ t = SemiMark => ~Fails(Lua55!Optional("semicolon", t))
           /\ On(Lua55!Optional("semicolon", t), s) = Push(Expect(SemiMark), s)
      /\ t # SemiMark => Lua55!Optional("semicolon", t) = <<>>
  BY LuaSemicolonIs, SymbolsIn, TokensAre, ConstCloseIn, MarksIn, WordRules, OnIs, GoesAre
<1>2. /\ Lua55!Optional("semicolon", t) = <<>> => LuaTo(i, Push(Parse("semicolon"), s), s)
      /\ ~Fails(Lua55!Optional("semicolon", t))
           => LuaTo(i, Push(Parse("semicolon"), s), On(Lua55!Optional("semicolon", t), s))
  <2>1. \A x : Lua55!LuaProcedure("semicolon", Head(i), x) = Lua55!Optional("semicolon", t)
    BY LuaProcedures
  <2> QED BY Zenon, <2>1, ProcsIn, LuaGo
<1> QED BY Zenon, <1>1, <1>2

LEMMA LuaRetstat ==
    ASSUME NEW i \in Tokens55, i # <<>>, NEW t, t = Head(i), NEW s \in Stack
    PROVE  /\ (t \in BlockEnds \/ t = SemiMark) => LuaTo(i, Push(Parse("retstat"), s), s)
           /\ (t \notin BlockEnds /\ t # SemiMark)
                => LuaTo(i, Push(Parse("retstat"), s),
                Push(Parse("subexpr"), Push(Climb("none"), Push(Parse("explist"), s))))
<1>1. /\ (t \in BlockEnds \/ t = SemiMark) => Lua55!Optional("retstat", t) = <<>>
      /\ (t \notin BlockEnds /\ t # SemiMark) => ~Fails(Lua55!Optional("retstat", t))
           /\ On(Lua55!Optional("retstat", t), s) = Push(Parse("subexpr"),
           Push(Climb("none"), Push(Parse("explist"), s)))
  BY LuaRetstatIs, SymbolsIn, TokensAre, ConstCloseIn, MarksIn, WordRules, OnIs, GoesAre
<1>2. /\ Lua55!Optional("retstat", t) = <<>> => LuaTo(i, Push(Parse("retstat"), s), s)
      /\ ~Fails(Lua55!Optional("retstat", t))
           => LuaTo(i, Push(Parse("retstat"), s), On(Lua55!Optional("retstat", t), s))
  <2>1. \A x : Lua55!LuaProcedure("retstat", Head(i), x) = Lua55!Optional("retstat", t)
    BY LuaProcedures
  <2> QED BY Zenon, <2>1, ProcsIn, LuaGo
<1> QED BY Zenon, <1>1, <1>2

LEMMA LuaExplist ==
    ASSUME NEW i \in Tokens55, i # <<>>, NEW t, t = Head(i), NEW s \in Stack
    PROVE  /\ t = Comma => LuaTo(i, Push(Parse("explist"), s),
                Push(Expect(Comma), Push(Parse("subexpr"), Push(Climb("none"), Push(Parse("explist"), s)))))
           /\ t # Comma => LuaTo(i, Push(Parse("explist"), s), s)
<1>1. /\ t = Comma => ~Fails(Lua55!Optional("explist", t))
           /\ On(Lua55!Optional("explist", t), s) = Push(Expect(Comma),
           Push(Parse("subexpr"), Push(Climb("none"), Push(Parse("explist"), s))))
      /\ t # Comma => Lua55!Optional("explist", t) = <<>>
  BY LuaExplistIs, SymbolsIn, TokensAre, ConstCloseIn, MarksIn, WordRules, OnIs, GoesAre
<1>2. /\ Lua55!Optional("explist", t) = <<>> => LuaTo(i, Push(Parse("explist"), s), s)
      /\ ~Fails(Lua55!Optional("explist", t))
           => LuaTo(i, Push(Parse("explist"), s), On(Lua55!Optional("explist", t), s))
  <2>1. \A x : Lua55!LuaProcedure("explist", Head(i), x) = Lua55!Optional("explist", t)
    BY LuaProcedures
  <2> QED BY Zenon, <2>1, ProcsIn, LuaGo
<1> QED BY Zenon, <1>1, <1>2

LEMMA LuaInit ==
    ASSUME NEW i \in Tokens55, i # <<>>, NEW t, t = Head(i), NEW s \in Stack
    PROVE  /\ t = "=" => LuaTo(i, Push(Parse("init"), s),
                Push(Expect("="), Push(Parse("subexpr"), Push(Climb("none"), Push(Parse("explist"), s)))))
           /\ t # "=" => LuaTo(i, Push(Parse("init"), s), s)
<1>1. /\ t = "=" => ~Fails(Lua55!Optional("init", t))
           /\ On(Lua55!Optional("init", t), s) = Push(Expect("="),
           Push(Parse("subexpr"), Push(Climb("none"), Push(Parse("explist"), s))))
      /\ t # "=" => Lua55!Optional("init", t) = <<>>
  BY LuaInitIs, SymbolsIn, TokensAre, ConstCloseIn, MarksIn, WordRules, OnIs, GoesAre
<1>2. /\ Lua55!Optional("init", t) = <<>> => LuaTo(i, Push(Parse("init"), s), s)
      /\ ~Fails(Lua55!Optional("init", t))
           => LuaTo(i, Push(Parse("init"), s), On(Lua55!Optional("init", t), s))
  <2>1. \A x : Lua55!LuaProcedure("init", Head(i), x) = Lua55!Optional("init", t)
    BY LuaProcedures
  <2> QED BY Zenon, <2>1, ProcsIn, LuaGo
<1> QED BY Zenon, <1>1, <1>2

LEMMA LuaArgs ==
    ASSUME NEW i \in Tokens55, i # <<>>, NEW t, t = Head(i), NEW s \in Stack
    PROVE  /\ t = ")" => LuaTo(i, Push(Parse("args"), s), s)
           /\ t # ")" => LuaTo(i, Push(Parse("args"), s),
                Push(Parse("subexpr"), Push(Climb("none"), Push(Parse("explist"), s))))
<1>1. /\ t = ")" => Lua55!Optional("args", t) = <<>>
      /\ t # ")" => ~Fails(Lua55!Optional("args", t))
           /\ On(Lua55!Optional("args", t), s) = Push(Parse("subexpr"),
           Push(Climb("none"), Push(Parse("explist"), s)))
  BY LuaArgsIs, SymbolsIn, TokensAre, ConstCloseIn, MarksIn, WordRules, OnIs, GoesAre
<1>2. /\ Lua55!Optional("args", t) = <<>> => LuaTo(i, Push(Parse("args"), s), s)
      /\ ~Fails(Lua55!Optional("args", t))
           => LuaTo(i, Push(Parse("args"), s), On(Lua55!Optional("args", t), s))
  <2>1. \A x : Lua55!LuaProcedure("args", Head(i), x) = Lua55!Optional("args", t)
    BY LuaProcedures
  <2> QED BY Zenon, <2>1, ProcsIn, LuaGo
<1> QED BY Zenon, <1>1, <1>2

LEMMA LuaParlist ==
    ASSUME NEW i \in Tokens55, i # <<>>, NEW t, t = Head(i), NEW s \in Stack
    PROVE  /\ t = ")" => LuaTo(i, Push(Parse("parlist"), s), s)
           /\ t # ")" => LuaTo(i, Push(Parse("parlist"), s), Push(Parse("parameter"), s))
<1>1. /\ t = ")" => Lua55!Optional("parlist", t) = <<>>
      /\ t # ")" => ~Fails(Lua55!Optional("parlist", t))
           /\ On(Lua55!Optional("parlist", t), s) = Push(Parse("parameter"), s)
  BY LuaParlistIs, SymbolsIn, TokensAre, ConstCloseIn, MarksIn, WordRules, OnIs, GoesAre
<1>2. /\ Lua55!Optional("parlist", t) = <<>> => LuaTo(i, Push(Parse("parlist"), s), s)
      /\ ~Fails(Lua55!Optional("parlist", t))
           => LuaTo(i, Push(Parse("parlist"), s), On(Lua55!Optional("parlist", t), s))
  <2>1. \A x : Lua55!LuaProcedure("parlist", Head(i), x) = Lua55!Optional("parlist", t)
    BY LuaProcedures
  <2> QED BY Zenon, <2>1, ProcsIn, LuaGo
<1> QED BY Zenon, <1>1, <1>2

LEMMA LuaMorepars ==
    ASSUME NEW i \in Tokens55, i # <<>>, NEW t, t = Head(i), NEW s \in Stack
    PROVE  /\ t = Comma => LuaTo(i, Push(Parse("morepars"), s),
                Push(Expect(Comma), Push(Parse("parameter"), s)))
           /\ t # Comma => LuaTo(i, Push(Parse("morepars"), s), s)
<1>1. /\ t = Comma => ~Fails(Lua55!Optional("morepars", t))
           /\ On(Lua55!Optional("morepars", t), s) = Push(Expect(Comma), Push(Parse("parameter"), s))
      /\ t # Comma => Lua55!Optional("morepars", t) = <<>>
  BY LuaMoreparsIs, SymbolsIn, TokensAre, ConstCloseIn, MarksIn, WordRules, OnIs, GoesAre
<1>2. /\ Lua55!Optional("morepars", t) = <<>> => LuaTo(i, Push(Parse("morepars"), s), s)
      /\ ~Fails(Lua55!Optional("morepars", t))
           => LuaTo(i, Push(Parse("morepars"), s), On(Lua55!Optional("morepars", t), s))
  <2>1. \A x : Lua55!LuaProcedure("morepars", Head(i), x) = Lua55!Optional("morepars", t)
    BY LuaProcedures
  <2> QED BY Zenon, <2>1, ProcsIn, LuaGo
<1> QED BY Zenon, <1>1, <1>2

LEMMA LuaVarargName ==
    ASSUME NEW i \in Tokens55, i # <<>>, NEW t, t = Head(i), NEW s \in Stack
    PROVE  /\ t \in Names => LuaTo(i, Push(Parse("vararg_name"), s), Push(Expect("Name"), s))
           /\ t \notin Names => LuaTo(i, Push(Parse("vararg_name"), s), s)
<1>1. /\ t \in Names => ~Fails(Lua55!Optional("vararg_name", t))
           /\ On(Lua55!Optional("vararg_name", t), s) = Push(Expect("Name"), s)
      /\ t \notin Names => Lua55!Optional("vararg_name", t) = <<>>
  BY LuaVarargNameIs, SymbolsIn, TokensAre, ConstCloseIn, MarksIn, WordRules, OnIs, GoesAre
<1>2. /\ Lua55!Optional("vararg_name", t) = <<>> => LuaTo(i, Push(Parse("vararg_name"), s), s)
      /\ ~Fails(Lua55!Optional("vararg_name", t))
           => LuaTo(i, Push(Parse("vararg_name"), s), On(Lua55!Optional("vararg_name", t), s))
  <2>1. \A x : Lua55!LuaProcedure("vararg_name", Head(i), x) = Lua55!Optional("vararg_name", t)
    BY LuaProcedures
  <2> QED BY Zenon, <2>1, ProcsIn, LuaGo
<1> QED BY Zenon, <1>1, <1>2

LEMMA LuaConstructor ==
    ASSUME NEW i \in Tokens55, i # <<>>, NEW t, t = Head(i), NEW s \in Stack
    PROVE  /\ t = CloseBrace => LuaTo(i, Push(Parse("constructor"), s), s)
           /\ t # CloseBrace => LuaTo(i, Push(Parse("constructor"), s),
                Push(Parse("field"), Push(Parse("fieldsep"), s)))
<1>1. /\ t = CloseBrace => Lua55!Optional("constructor", t) = <<>>
      /\ t # CloseBrace => ~Fails(Lua55!Optional("constructor", t))
           /\ On(Lua55!Optional("constructor", t), s) = Push(Parse("field"), Push(Parse("fieldsep"), s))
  BY LuaConstructorIs, SymbolsIn, TokensAre, ConstCloseIn, MarksIn, WordRules, OnIs, GoesAre
<1>2. /\ Lua55!Optional("constructor", t) = <<>> => LuaTo(i, Push(Parse("constructor"), s), s)
      /\ ~Fails(Lua55!Optional("constructor", t))
           => LuaTo(i, Push(Parse("constructor"), s), On(Lua55!Optional("constructor", t), s))
  <2>1. \A x : Lua55!LuaProcedure("constructor", Head(i), x) = Lua55!Optional("constructor", t)
    BY LuaProcedures
  <2> QED BY Zenon, <2>1, ProcsIn, LuaGo
<1> QED BY Zenon, <1>1, <1>2

LEMMA LuaFieldsep ==
    ASSUME NEW i \in Tokens55, i # <<>>, NEW t, t = Head(i), NEW s \in Stack
    PROVE  /\ (t = Comma \/ t = SemiMark)
                => LuaTo(i, Push(Parse("fieldsep"), s), Push(Expect(t), Push(Parse("constructor"), s)))
           /\ (t # Comma /\ t # SemiMark) => LuaTo(i, Push(Parse("fieldsep"), s), s)
<1>1. /\ (t = Comma \/ t = SemiMark) => ~Fails(Lua55!Optional("fieldsep", t))
           /\ On(Lua55!Optional("fieldsep", t), s) = Push(Expect(t), Push(Parse("constructor"), s))
      /\ (t # Comma /\ t # SemiMark) => Lua55!Optional("fieldsep", t) = <<>>
  BY LuaFieldsepIs, SymbolsIn, TokensAre, ConstCloseIn, MarksIn, WordRules, OnIs, GoesAre
<1>2. /\ Lua55!Optional("fieldsep", t) = <<>> => LuaTo(i, Push(Parse("fieldsep"), s), s)
      /\ ~Fails(Lua55!Optional("fieldsep", t))
           => LuaTo(i, Push(Parse("fieldsep"), s), On(Lua55!Optional("fieldsep", t), s))
  <2>1. \A x : Lua55!LuaProcedure("fieldsep", Head(i), x) = Lua55!Optional("fieldsep", t)
    BY LuaProcedures
  <2> QED BY Zenon, <2>1, ProcsIn, LuaGo
<1> QED BY Zenon, <1>1, <1>2

LEMMA LuaFornum ==
    ASSUME NEW i \in Tokens55, i # <<>>, NEW t, t = Head(i), NEW s \in Stack
    PROVE  /\ t = Comma => LuaTo(i, Push(Parse("fornum"), s),
                Push(Expect(Comma), Push(Parse("subexpr"), Push(Climb("none"), s))))
           /\ t # Comma => LuaTo(i, Push(Parse("fornum"), s), s)
<1>1. /\ t = Comma => ~Fails(Lua55!Optional("fornum", t))
           /\ On(Lua55!Optional("fornum", t), s) = Push(Expect(Comma),
           Push(Parse("subexpr"), Push(Climb("none"), s)))
      /\ t # Comma => Lua55!Optional("fornum", t) = <<>>
  BY LuaFornumIs, SymbolsIn, TokensAre, ConstCloseIn, MarksIn, WordRules, OnIs, GoesAre
<1>2. /\ Lua55!Optional("fornum", t) = <<>> => LuaTo(i, Push(Parse("fornum"), s), s)
      /\ ~Fails(Lua55!Optional("fornum", t))
           => LuaTo(i, Push(Parse("fornum"), s), On(Lua55!Optional("fornum", t), s))
  <2>1. \A x : Lua55!LuaProcedure("fornum", Head(i), x) = Lua55!Optional("fornum", t)
    BY LuaProcedures
  <2> QED BY Zenon, <2>1, ProcsIn, LuaGo
<1> QED BY Zenon, <1>1, <1>2

LEMMA LuaForlist ==
    ASSUME NEW i \in Tokens55, i # <<>>, NEW t, t = Head(i), NEW s \in Stack
    PROVE  /\ t = Comma => LuaTo(i, Push(Parse("forlist"), s),
                Push(Expect(Comma), Push(Expect("Name"), Push(Parse("forlist"), s))))
           /\ t # Comma => LuaTo(i, Push(Parse("forlist"), s), s)
<1>1. /\ t = Comma => ~Fails(Lua55!Optional("forlist", t))
           /\ On(Lua55!Optional("forlist", t), s) = Push(Expect(Comma),
           Push(Expect("Name"), Push(Parse("forlist"), s)))
      /\ t # Comma => Lua55!Optional("forlist", t) = <<>>
  BY LuaForlistIs, SymbolsIn, TokensAre, ConstCloseIn, MarksIn, WordRules, OnIs, GoesAre
<1>2. /\ Lua55!Optional("forlist", t) = <<>> => LuaTo(i, Push(Parse("forlist"), s), s)
      /\ ~Fails(Lua55!Optional("forlist", t))
           => LuaTo(i, Push(Parse("forlist"), s), On(Lua55!Optional("forlist", t), s))
  <2>1. \A x : Lua55!LuaProcedure("forlist", Head(i), x) = Lua55!Optional("forlist", t)
    BY LuaProcedures
  <2> QED BY Zenon, <2>1, ProcsIn, LuaGo
<1> QED BY Zenon, <1>1, <1>2

=============================================================================
