---------------------------- MODULE MCTranslation ----------------------------
EXTENDS Translation

SourceOps == {"or", "<", ">", "|", "..", "-", "~", "//", "^"}
MCLexemes == (TokenKinds \ (BinaryOps \ SourceOps)) \cup (Lexemes \ {"1and", "1.5.", "3...", "3.e+5"})
MCOps     == {"or", "and", "*", "<", "..", "-", "^"}

MCUnits == [how : {"char"}, v : {49, 97, 233}]       \* 1, a, e acute
           \cup [how : {"named"}, v : {10, 34, 92}]
           \cup [how : {"decimal"}, v : {1, 10, 31, 233}]
           \cup [how : {"hex"}, v : {0, 49, 127, 233}]
           \cup [how : {"unicode"}, v : {1, 233, 8364, 128512}]
           \cup [how : {"skip"}, v : {0}]
MCIntegers == IntegerUnits

MCConstructs == OtherTree \cup MayRefuse \cup MayAccept \cup MayNotLoad \cup {"stale_kind"}
                \cup {"high_byte", "control_digit", "wrapped_decimal", "inexact"}
                \cup {"wide_operand", "shift_count", "negative_shr", "overflow"}

MCOperators55 == {"&", "|", "~", "<<", ">>", "not"}
MCOperands    == Fixed(Width)
=============================================================================
