------------------------------- MODULE Literals -------------------------------
(***************************************************************************)
(* What a literal is worth: to valua's lexer, to Lua 5.5 which reads the   *)
(* same text, and to Lua 5.1 which reads what valua prints for it.         *)
(*                                                                         *)
(* A string is spelled in units [how, v], where v is a code point, spelled *)
(* as itself ("char"), with a letter ("named"), as \ddd with three digits  *)
(* ("decimal"), as \xXX ("hex"), or as \u{XXX} ("unicode"); "skip" is \z   *)
(* with white space, which stands for nothing.  An integer is one unit     *)
(* whose v is written in base 10 or 16.                                    *)
(***************************************************************************)
EXTENDS FixedWidth, Sequences

CONSTANTS Width,      \* of integers, in bits (64 in the code)
          Mantissa    \* of the numbers of Lua 5.1, in bits (53)

ASSUME WidthAssumption == Width \in Nat \ {0} /\ Mantissa \in Nat

MaxCodePoint == 1114111
CodePoints   == 0..MaxCodePoint

StringUnits ==
    [how : {"char", "unicode"}, v : CodePoints] \cup [how : {"decimal", "hex"}, v : 0..255]
    \cup [how : {"named"}, v : 7..13 \cup {34, 39, 92}] \cup [how : {"skip"}, v : {0}]

IntegerUnits == [how : {"base10", "base16"}, v : 0..(Pow2[Width] - 1)]

Wrapped(n) ==
    LET r == n % Pow2[Width] IN IF r < Pow2[Width - 1] THEN r ELSE r - Pow2[Width]

Backslash == 92
Digit(c)  == c \in 48..57

(* The bytes of a code point.                                              *)
Utf8(c) ==
    LET more(n) == 128 + ((c \div n) % 64) IN
    CASE c < 128                -> <<c>>
      [] 128 <= c /\ c < 2048   -> <<192 + c \div 64, more(1)>>
      [] 2048 <= c /\ c < 65536 -> <<224 + c \div 4096, more(64), more(1)>>
      [] OTHER                  -> <<240 + c \div 262144, more(4096), more(64), more(1)>>

-----------------------------------------------------------------------------
(* scan_quoted_string: the escapes for bytes push a code point like the    *)
(* others.                                                                 *)
Scan(unit) == IF unit.how = "skip" THEN <<>> ELSE <<unit.v>>

(* emit_string_content: the letters, then \d for other control characters. *)
Letter(c) ==
    CASE c = 10 -> 110 [] c = 13 -> 114 [] c = 9 -> 116 [] c = 7 -> 97
      [] c = 8 -> 98 [] c = 12 -> 102 [] c = 11 -> 118
      [] c \in {34, Backslash} -> c
      [] OTHER -> 0

Control(c) == c < 32 /\ Letter(c) = 0
Digits(c)  == IF c < 10 THEN <<48 + c>> ELSE <<48 + c \div 10, 48 + (c % 10)>>

(* Wrong: the quotes and the backslash are printed as they are.            *)
EscapedControls(c) ==
    CASE c < 32 /\ Letter(c) # 0 -> <<Backslash, Letter(c)>>
      [] Control(c)              -> <<Backslash>> \o Digits(c)
      [] OTHER                   -> Utf8(c)

Escaped(c) ==
    CASE Letter(c) # 0 -> <<Backslash, Letter(c)>>
      [] Control(c)    -> <<Backslash>> \o Digits(c)
      [] OTHER         -> Utf8(c)

EmitString(points) == IF points = <<>> THEN <<>> ELSE Escaped(points[1])

(* parse_dec_int, parse_hex_int: what fits neither i64 nor u64 is refused. *)
ParseInt(n) == Wrapped(n)

-----------------------------------------------------------------------------
(* Lua's side, external: the bytes and the integer a unit of a source      *)
(* means to Lua 5.5 (in base 10 what does not fit is a float).             *)
LuaString(unit) ==
    CASE unit.how = "skip" -> <<>>
      [] unit.how \in {"char", "unicode"} -> Utf8(unit.v)
      [] OTHER -> <<unit.v>>

LuaInt(unit) == IF unit.how = "base16" THEN Wrapped(unit.v) ELSE unit.v

(* How Lua 5.1 reads a quoted text character by character: the bytes so    *)
(* far, whether a backslash has just been read, and a decimal escape.      *)
NewReader == [bytes |-> <<>>, slash |-> FALSE, digits |-> 0, num |-> 0]

Unescaped(c) == IF \E d \in 7..13 : Letter(d) = c THEN CHOOSE d \in 7..13 : Letter(d) = c ELSE c

Flush(r) == IF r.digits = 0 THEN r ELSE [r EXCEPT !.bytes = Append(@, r.num), !.digits = 0, !.num = 0]

ReadChar(r, c) ==
    CASE Digit(c) /\ (r.slash \/ r.digits \in 1..2) ->
           [r EXCEPT !.slash = FALSE, !.digits = @ + 1, !.num = 10 * @ + (c - 48)]
      [] r.slash /\ ~Digit(c) ->
           [r EXCEPT !.slash = FALSE, !.bytes = Append(@, Unescaped(c))]
      [] OTHER ->
           IF c = Backslash THEN [Flush(r) EXCEPT !.slash = TRUE]
           ELSE [Flush(r) EXCEPT !.bytes = Append(@, c)]

(* The number of Lua 5.1 next to an integer: a multiple of a power of 2    *)
(* that grows with it, the even one of two that are as near.               *)
Spacing(n) ==
    Pow2[CHOOSE e \in 0..Width : /\ n \in -Pow2[Mantissa + e]..Pow2[Mantissa + e]
                                 /\ e > 0 => n \notin -Pow2[Mantissa + e - 1]..Pow2[Mantissa + e - 1]]

Double(n) ==
    LET s   == Spacing(n)
        low == n - (n % s)
    IN  IF 2 * (n % s) < s \/ (2 * (n % s) = s /\ (low \div s) % 2 = 0) THEN low ELSE low + s

-----------------------------------------------------------------------------
(* What is not worth the same, by name.                                    *)
OddUnit(points, unit) ==
    {c \in {"high_byte", "control_digit"} :
       \/ c = "high_byte" /\ unit.how \in {"decimal", "hex"} /\ unit.v > 127
       \/ c = "control_digit" /\ Digit(unit.v) /\ points # <<>> /\ Control(points[Len(points)])}

OddInteger(unit) ==
    {c \in {"wrapped_decimal", "inexact"} :
       \/ c = "wrapped_decimal" /\ unit.how = "base10" /\ unit.v >= Pow2[Width - 1]
       \/ c = "inexact" /\ Wrapped(unit.v) \notin -Pow2[Mantissa]..Pow2[Mantissa]}
=============================================================================
