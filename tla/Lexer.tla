-------------------------------- MODULE Lexer --------------------------------
(***************************************************************************)
(* valua's lexer (crates/valua-lexer): what a lexeme, a stretch of source  *)
(* text, becomes, and the error kind that the callbacks leave behind.      *)
(* tokenize reports a failure under `last_error_kind`, which a callback    *)
(* sets on its way in or when it fails, and which nothing resets.          *)
(*                                                                         *)
(* A lexeme is a token of Descent, or one of                               *)
(*   "number"       a numeral                                              *)
(*   of Pointed     a numeral with a point and no digits after it          *)
(*   of Malformed   a numeral that runs into a word, a point or another    *)
(*                  numeral, so that Lua takes it for a bad one            *)
(*   "wide"         a numeral too large for its type                       *)
(*   "open_string"  a quoted string cut off by the end of its line         *)
(*   "bad_escape"   a quoted string with an escape that Lua rejects too    *)
(*   "surrogate"    a quoted string with an escape for no Unicode scalar   *)
(*   "odd_escape"   a quoted string with an escape Lua does not define     *)
(*   "open_long", "open_comment"  a long string or comment without an end  *)
(*   "odd_char"     a character that starts no token                       *)
(***************************************************************************)
EXTENDS Descent

Pointed   == {"3.", "3.e5", "3.e+5"}
Malformed == {"1x", "1and", "3.x", "1.5.", "3..", "3...", "1.2.3"}

Numerals == {"number", "wide"} \cup Pointed \cup Malformed
Quoted   == {"String", "open_string", "bad_escape", "surrogate", "odd_escape"}
Failing  == {"wide", "open_string", "bad_escape", "surrogate",
             "open_long", "open_comment", "odd_char"}
Lexemes  == Numerals \cup Quoted \cup Failing

(* The regular expressions of the enum Token: none takes "3." as one       *)
(* numeral, and none wants a break between a numeral and what follows it.  *)
Tokens(lexeme) ==
    CASE lexeme \in {"3.", "1.5."}        -> <<"Literal", ".">>
      [] lexeme \in {"3.e5", "3.x"}       -> <<"Literal", ".", "Name">>
      [] lexeme = "3.e+5"                 -> <<"Literal", ".", "Name", "+", "Literal">>
      [] lexeme = "1x"                    -> <<"Literal", "Name">>
      [] lexeme = "1and"                  -> <<"Literal", "and">>
      [] lexeme = "3.."                   -> <<"Literal", "..">>
      [] lexeme = "3..."                  -> <<"Literal", "...">>
      [] lexeme = "1.2.3"                 -> <<"Literal", "Literal">>
      [] lexeme = "number"                -> <<"Literal">>
      [] lexeme \in Quoted                -> <<"String">>
      [] OTHER                            -> <<lexeme>>

(* Wrong: an escape that is rejected leaves the kind of the string.        *)
ErrorKindOfString(lexeme, kind) ==
    CASE lexeme \in Numerals -> "InvalidNumber"
      [] lexeme \in Quoted   -> "UnterminatedString"
      [] lexeme \in {"open_long", "open_comment"} -> "UnterminatedLongString"
      [] OTHER               -> kind

(* Wrong: a good token clears the kind.                                    *)
ErrorKindCleared(lexeme, kind) ==
    CASE lexeme \in Numerals \cap Failing -> "InvalidNumber"
      [] lexeme \in {"bad_escape", "surrogate"} -> "InvalidEscape"
      [] lexeme = "open_string" -> "UnterminatedString"
      [] lexeme \in {"open_long", "open_comment"} -> "UnterminatedLongString"
      [] lexeme = "odd_char" -> kind
      [] OTHER -> "none"

(* last_error_kind after a lexeme.  parse_hex_int and its like set it when *)
(* they are called, scan_quoted_string too, whether or not they fail.      *)
ErrorKind(lexeme, kind) ==
    CASE lexeme \in Numerals                    -> "InvalidNumber"
      [] lexeme \in {"bad_escape", "surrogate"} -> "InvalidEscape"
      [] lexeme \in Quoted \ {"bad_escape", "surrogate"} -> "UnterminatedString"
      [] lexeme \in {"open_long", "open_comment"} -> "UnterminatedLongString"
      [] OTHER                                  -> kind
=============================================================================
