------------------------------ MODULE FixedWidth ------------------------------
(***************************************************************************)
(* Integers of w bits in two's complement, as Lua's integers and the       *)
(* numbers of bit libraries are.  Bit i of any integer, of unbounded width *)
(* too, is (n \div 2^i) % 2, since \div rounds down.                       *)
(***************************************************************************)
EXTENDS Integers

Pow2[n \in Nat] == IF n = 0 THEN 1 ELSE 2 * Pow2[n - 1]

Bit(n, i)  == (n \div Pow2[i]) % 2
Bits(n, w) == {i \in 0..(w - 1) : Bit(n, i) = 1}

(* The integers of w bits, and the one with these bits.                    *)
Fixed(w) == -Pow2[w - 1]..(Pow2[w - 1] - 1)
Integer(bits, w) == CHOOSE n \in Fixed(w) : \A i \in 0..(w - 1) : i \in bits <=> Bit(n, i) = 1
=============================================================================
