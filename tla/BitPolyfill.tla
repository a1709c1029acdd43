------------------------------ MODULE BitPolyfill ------------------------------
(***************************************************************************)
(* The bit library that valua puts in front of a program whose bitwise     *)
(* operators it has lowered, function by function and turn by turn of its  *)
(* loops, on integers of BitWidth bits (32 in the code).                   *)
(*                                                                         *)
(* A call of it is [method, a, b, r, m, n]: the function and its locals.   *)
(* Numbers of Lua 5.1 are exact in the range in use, so TLA+'s integers    *)
(* are; its % is Lua's, and n % 2^k is never negative.                     *)
(***************************************************************************)
EXTENDS FixedWidth

CONSTANT BitWidth

ASSUME BitWidthAssumption == BitWidth \in Nat \ {0}

Bitwise  == {"band", "bor", "bxor"}
Shifting == {"lshift", "rshift"}

-----------------------------------------------------------------------------
(* lower_bitwise                                                           *)
Method(op) ==
    CASE op = "&" -> "band" [] op = "|" -> "bor" [] op = "~" -> "bxor"
      [] op = "<<" -> "lshift" [] op = ">>" -> "rshift"
      [] op = "not" -> "bnot"

(* _bu and _bs                                                             *)
Unsigned(n) == n % Pow2[BitWidth]
Signed(n)   == IF Unsigned(n) >= Pow2[BitWidth - 1] THEN Unsigned(n) - Pow2[BitWidth] ELSE Unsigned(n)

NoCall == [method |-> "none", a |-> 0, b |-> 0, r |-> 0, m |-> 1, n |-> 0]

(* Wrong: the count of a shift is taken as it is.                          *)
CalledUnreduced(method, x, y) ==
    CASE method \in Bitwise ->
           [NoCall EXCEPT !.method = method, !.a = Unsigned(x), !.b = Unsigned(y)]
      [] method \in Shifting ->
           [NoCall EXCEPT !.method = method, !.a = Unsigned(x), !.n = y]
      [] method = "bnot" ->
           [NoCall EXCEPT !.method = method, !.r = Pow2[BitWidth] - 1 - Unsigned(x)]

(* Up to the loop, which bnot has none of.                                 *)
Called(method, x, y) ==
    CASE method \in Bitwise ->
           [NoCall EXCEPT !.method = method, !.a = Unsigned(x), !.b = Unsigned(y)]
      [] method \in Shifting ->
           [NoCall EXCEPT !.method = method, !.a = Unsigned(x), !.n = y % BitWidth]
      [] method = "bnot" ->
           [NoCall EXCEPT !.method = method, !.r = Pow2[BitWidth] - 1 - Unsigned(x)]

(* Wrong: the loop ends with the shorter of the two numbers.               *)
LoopsOnBoth(c) == (c.a > 0 /\ c.b > 0) \/ c.n > 0

LoopsOn(c) == (c.a > 0 /\ c.method \in Bitwise) \/ c.b > 0 \/ c.n > 0

Sets(c) ==
    \/ c.method = "band" /\ c.a % 2 = 1 /\ c.b % 2 = 1
    \/ c.method = "bor" /\ (c.a % 2 = 1 \/ c.b % 2 = 1)
    \/ c.method = "bxor" /\ c.a % 2 # c.b % 2

Turn(c) ==
    CASE c.method = "lshift" -> [c EXCEPT !.a = (@ * 2) % Pow2[BitWidth], !.n = @ - 1]
      [] c.method = "rshift" -> [c EXCEPT !.a = @ \div 2, !.n = @ - 1]
      [] OTHER -> [c EXCEPT !.r = IF Sets(c) THEN @ + c.m ELSE @,
                            !.a = @ \div 2, !.b = @ \div 2, !.m = @ * 2]

Returned(c) == Signed(IF c.method \in Shifting THEN c.a ELSE c.r)

-----------------------------------------------------------------------------
(* The operators themselves on integers of w bits, as sets of bits: Lua    *)
(* 5.5's with Width, and with BitWidth those of the bit library of LuaJIT, *)
(* which reduces its operands and the count of a shift.                    *)
Shifted(bits, n, w) == {i + n : i \in bits} \cap (0..(w - 1))

Applied(op, x, y, w) ==
    LET X == Bits(x, w)
        Y == Bits(y, w)
    IN  Integer(CASE op = "&"   -> X \cap Y
                  [] op = "|"   -> X \cup Y
                  [] op = "~"   -> (X \ Y) \cup (Y \ X)
                  [] op = "<<"  -> Shifted(X, y, w)
                  [] op = ">>"  -> Shifted(X, -y, w)
                  [] op = "not" -> (0..(w - 1)) \ X, w)

InLibrary(op, x, y) == Applied(op, x, IF Method(op) \in Shifting THEN y % BitWidth ELSE y, BitWidth)

(* Where the two are known to differ.                                      *)
Narrow(n) == n \in Fixed(BitWidth)

OddOperation(op, x, y) ==
    {c \in {"wide_operand", "shift_count", "negative_shr", "overflow"} :
       \/ c = "wide_operand" /\ (~Narrow(x) \/ (Method(op) \in Bitwise /\ ~Narrow(y)))
       \/ c = "shift_count" /\ Method(op) \in Shifting /\ y \notin 0..(BitWidth - 1)
       \/ c = "negative_shr" /\ op = ">>" /\ x < 0 /\ y > 0
       \/ c = "overflow" /\ op = "<<" /\ y \in 0..(BitWidth - 1) /\ ~Narrow(x * Pow2[y])}
=============================================================================
