----------------------------- MODULE Translation -----------------------------
(***************************************************************************)
(* The two ends of valua, each beside the Lua it has to agree with.        *)
(*                                                                         *)
(*   "source"   a text is chosen lexeme by lexeme; valua's lexer and       *)
(*              parser read it, and so does Lua 5.5;                       *)
(*   "output"   a syntax tree is chosen node by node; valua's emitter      *)
(*              prints it, and Lua 5.1 reads what is printed;              *)
(*   "string"   a string is written unit by unit; valua prints it, and     *)
(*              Lua 5.1 reads what is printed (see Literals);              *)
(*   "integer"  so is an integer;                                          *)
(*   "operator" bitwise operators are applied one to the result of the     *)
(*              other, by Lua 5.5 and by the emitted calls (BitPolyfill).  *)
(*                                                                         *)
(* Lua reads the same tokens at the same time, so that a difference shows  *)
(* at the token where it arises.  The trees are compared as they grow: a   *)
(* node that both sides have completed is dropped, and what is left over   *)
(* is `tree`.  Constructs that valua treats otherwise than Lua have names; *)
(* `odd` are those that have been met.  A text goes on after them until    *)
(* a side refuses it, the trees differ, or it has been read.               *)
(***************************************************************************)
EXTENDS Parser, Lexer, Literals, BitPolyfill, FiniteSets
LOCAL INSTANCE SequencesExt

CONSTANTS Modes,         \* the modes of behaviours
          SourceLexemes, \* what a text consists of
          EmittedOps,    \* the binary operators of printed trees
          Units,         \* what a string is written with
          Integers55,    \* the integers that are written
          Operators55,   \* the bitwise operators that are applied
          Operands,      \* to these numbers
          Constructs,    \* the odd constructs behaviours may have
          MaxBrackets,   \* how many blocks and expressions are open in a text
          MaxOperators,  \* and operators
          MaxNodes,      \* how deep a tree is
          MaxPoints      \* length of a string

ASSUME ConstantsAssumption ==
    /\ Modes \subseteq {"source", "output", "string", "integer", "operator"}
    /\ SourceLexemes \subseteq TokenKinds \cup Lexemes /\ EmittedOps \subseteq BinaryOps
    /\ Units \subseteq StringUnits
    /\ Integers55 \subseteq IntegerUnits
    /\ Operators55 \subseteq {"&", "|", "~", "<<", ">>", "not"}
    /\ Operands \subseteq Int
    /\ BitWidth <= Width
    /\ MaxPoints \in Nat

VARIABLES mode, ours, lua,      \* what goes on, valua's machine, Lua's
          last_error_kind,      \* of the lexer
          failed,               \* the lexeme the lexer has failed at, or "none"
          odd, vararg,          \* how deep the open functions that take `...` are
          points, text,         \* the string valua has read, what Lua 5.1 has still to read
          reader, bytes,        \* how far it is, and the string in Lua 5.5
          call, value,          \* of the emitted bit library, and its last result
          meant, native         \* the result in Lua 5.5, and that of LuaJIT's library

machines == <<ours, lua, last_error_kind, failed>>
literal == <<points, text, reader, bytes>>
operation == <<call, value, meant, native>>
vars == <<mode, machines, odd, vararg, literal, operation>>

Out   == INSTANCE Emitter
Lua55 == INSTANCE LuaSyntax WITH Version <- "5.5"
Lua51 == INSTANCE LuaSyntax WITH Version <- "5.1"

Init ==
    /\ mode \in Modes
    /\ ours = Start(CASE mode = "source" -> Chunk
                      [] mode = "output" -> <<Out!Part("block"), Out!Say("eof")>>
                      [] OTHER -> <<>>)
    /\ lua = Start(IF mode \in {"source", "output"} THEN <<Parse("statlist"), Expect("eof")>> ELSE <<>>)
    /\ last_error_kind = "UnexpectedChar"
    /\ failed = "none" /\ odd = {} /\ vararg = {0}
    /\ points = <<>> /\ text = <<>> /\ reader = NewReader /\ bytes = <<>>
    /\ call = NoCall /\ value \in IF mode = "operator" THEN Operands ELSE {0}
    /\ meant = value /\ native = value

-----------------------------------------------------------------------------
(* A step that meets some constructs.                                      *)
Meets(cs) == cs \subseteq Constructs /\ odd' = odd \cup cs

(* The machines that read, whose symbols say one of these words.  One that *)
(* is given tokens goes on until it needs another.                         *)
Vocabulary == TokenKinds \cup NodeKinds \cup Procedures \cup Lua55!LuaProcedures
              \cup {LineParen, "none", "unary", "paren", "no_variable"}
Symbols == {"expect", "parse", "climb", "node", "unary", "binary", "shape", "fail"} \X Vocabulary

Machines == [input : Seq(Vocabulary), todo : Seq(Symbols), tree : Seq(Symbols), last : Vocabulary]

RunParser[m \in Machines] ==
    IF ~Running(m) THEN m
    ELSE RunParser[Step(m, ParserRule(Head(m.todo), Head(m.input), m.last))]

RunLua55[m \in Machines] ==
    IF ~Running(m) THEN m
    ELSE RunLua55[Step(m, Lua55!LuaRule(Head(m.todo), Head(m.input), m.last))]

RunLua51[m \in Machines] ==
    IF ~Running(m) THEN m
    ELSE RunLua51[Step(m, Lua51!LuaRule(Head(m.todo), Head(m.input), m.last))]

(* The machines have come to o and l.  Nodes both have completed are       *)
(* dropped from their trees, and all nodes when one of them has refused.   *)
Compare(o, l) ==
    LET refused == Refused(o) \/ Refused(l)
        common  == Len(LongestCommonPrefix({o.tree, l.tree}))
        rest(m) == [m EXCEPT !.tree = IF refused THEN <<>> ELSE SubSeq(@, common + 1, Len(@))]
    IN  ours' = rest(o) /\ lua' = rest(l)

Differ == ours.tree # <<>> /\ lua.tree # <<>>

Count(m, symbols) == Cardinality({i \in DOMAIN m.todo : m.todo[i] \in symbols})

(* How many functions a machine is inside of.                              *)
Depth(m) == Count(m, {Node("function"), Node("function_decl"), Node("local_function")})

(* `...` is the last parameter of the innermost function.                  *)
IsVararg(token) == token = "..." /\ Head(lua.todo) \in {Parse("parlist"), Parse("parameter")}

(* `...` is an expression there, but the function does not take it: Lua,   *)
(* which would come to l, refuses the text.                                *)
Outside(token, l) ==
    token = "..." /\ ~IsVararg(token) /\ Depth(lua) \notin vararg /\ ~Refused(l)

Checked(token, l) == IF Outside(token, l) THEN Refusal("none") ELSE l

(* Lua has read the token and has come to l.                               *)
EnterFunctions(token, l) ==
    vararg' = {d \in vararg : d <= Depth(l)} \cup (IF IsVararg(token) THEN {Depth(lua)} ELSE {})

-----------------------------------------------------------------------------
(* Reading a text.                                                         *)

LuaFailing == (Failing \ {"wide", "surrogate"}) \cup Malformed \cup {"odd_escape"}

LuaTokens(lexeme) ==
    CASE lexeme \in Numerals -> <<"Literal">>
      [] lexeme = "surrogate" -> <<"String">>
      [] OTHER -> <<lexeme>>

SuffixStart == {".", "[", ":", "(", "String", "{"}
SuffixPlace == {Parse("suffixedexp"), Parse("discharge"), Parse("globalstat")}

(* What is odd about a lexeme where it stands.                             *)
OddLexeme(lexeme) ==
    LET t == Tokens(lexeme)[1]
        O == Head(ours.todo)
        L == Head(lua.todo)
    IN  ({lexeme} \cap {"wide", "surrogate", "odd_escape"}) \cup
        {c \in {"pointed", "malformed", "stale_kind", "literal_suffix", "two_closes", "prefix_attribute",
                "named_vararg", "global"} :
           \/ c = "pointed" /\ lexeme \in Pointed
           \/ c = "malformed" /\ lexeme \in Malformed
           \/ c = "stale_kind" /\ lexeme = "odd_char" /\ last_error_kind # "UnexpectedChar"
           \/ c = "literal_suffix" /\ O = Parse("suffixes") /\ L \notin SuffixPlace /\ t \in SuffixStart
           \/ c = "two_closes" /\ L = Expect("const") /\ t = "close"
           \/ c = "prefix_attribute" /\ L = Parse("localstat") /\ t = "<"
           \/ c = "named_vararg" /\ L = Parse("vararg_name") /\ t \in Names
           \/ c = "global" /\ L = Parse("globalstat") /\ t \in Names \cup {"<", "*", "function"}}

(* And about where it leads the machines.                                  *)
OddOutcome(o, l) ==
    {c \in {"leftover", "no_variable", "one_value"} :
       \/ c = "leftover" /\ Ended(o) /\ o.input # <<"eof">>
       \/ c = "no_variable" /\ ~Refused(o) /\ l.todo = <<Fail("no_variable")>>
       \/ c = "one_value" /\ \E i \in DOMAIN l.tree : l.tree[i] = Node("one_value")}

OddVararg(token, l) == IF Outside(token, l) THEN {"outside_vararg"} ELSE {}

Brackets  == {Parse("block"), Climb("none")}
Operators == {Climb(op) : op \in BinaryOps \cup {"unary"}}

(* Where the lexeme leads each side, before it has another.                *)
OursOn(lexeme) ==
    IF lexeme \in Failing THEN Refusal("none") ELSE RunParser[[ours EXCEPT !.input = Tokens(lexeme)]]

LuaOn(lexeme) ==
    IF lexeme \in LuaFailing THEN Refusal("none") ELSE RunLua55[[lua EXCEPT !.input = LuaTokens(lexeme)]]

(* The next lexeme, and all that the two sides do before the one after it. *)
(* The code has the whole text in tokens before it parses; that the parser *)
(* looks at most one token ahead makes no difference to what it accepts.   *)
Read ==
    /\ mode = "source" /\ ~Differ /\ Waiting(ours) /\ Waiting(lua)
    /\ Count(ours, Brackets) <= MaxBrackets
    /\ Count(ours, Operators) <= MaxOperators
    /\ \E lexeme \in SourceLexemes :
         /\ \E o \in {OursOn(lexeme)}, m \in {LuaOn(lexeme)} : \E l \in {Checked(lexeme, m)} :
                /\ Compare(o, l)
                /\ Meets(OddLexeme(lexeme) \cup OddOutcome(o, l) \cup OddVararg(lexeme, m))
                /\ EnterFunctions(lexeme, l)
         /\ last_error_kind' = ErrorKind(lexeme, last_error_kind)
         /\ failed' = IF lexeme \in Failing THEN lexeme ELSE "none"
    /\ UNCHANGED <<mode, literal, operation>>

-----------------------------------------------------------------------------
(* Printing a tree.                                                        *)

Prints(what) ==
    /\ mode = "output" /\ ~Differ /\ ~Refused(lua)
    /\ ~Ended(ours) /\ Head(ours.todo)[1] \in what

Popped == [ours EXCEPT !.todo = Tail(@)]

Unfinished(m) == {i \in DOMAIN m.todo : /\ m.todo[i][1] \in {"node", "unary", "binary"}
                                        /\ m.todo[i][2] \notin Simple \cup {"name"}}

(* What stands next in the tree, in the order it is printed.               *)
ChooseNode ==
    /\ Prints({"print", "operand"})
    /\ \E symbols \in Out!Printed(Head(ours.todo)) :
         /\ ours' = Replace(ours, symbols)
         /\ Cardinality(Unfinished(ours')) <= MaxNodes
    /\ UNCHANGED <<mode, lua, last_error_kind, failed, odd, vararg, literal, operation>>

(* A parenthesis at the start of a line, where Lua 5.1 takes it for a call.  *)
OddParen(token) ==
    IF token = LineParen /\ Head(lua.todo) \in {Parse("suffixedexp"), Parse("discharge")}
    THEN {"paren_start"} ELSE {}

(* push writes a token, and Lua reads it.                                  *)
PrintToken ==
    /\ Prints({"say"})
    /\ LET t == Head(ours.todo)[2]
           token == IF t = "(" /\ ours.last = "line" THEN LineParen ELSE t
           m == RunLua51[[lua EXCEPT !.input = <<token>>]]
           l == Checked(token, m)
       IN  /\ Compare([Popped EXCEPT !.last = "none"], l)
           /\ Meets(OddParen(token) \cup OddVararg(token, m))
           /\ EnterFunctions(token, l)
    /\ UNCHANGED <<mode, last_error_kind, failed, literal, operation>>

(* push_indent, where a line starts.                                       *)
PushIndent ==
    /\ Prints({"line"})
    /\ ours' = [Popped EXCEPT !.last = "line"]
    /\ UNCHANGED <<mode, lua, last_error_kind, failed, odd, vararg, literal, operation>>

(* emit_statement or emit_expr_inner returns.                              *)
CompleteNode ==
    /\ Prints({"node", "unary", "binary"})
    /\ Compare([Popped EXCEPT !.tree = Append(@, Head(ours.todo)), !.last = "none"], lua)
    /\ UNCHANGED <<mode, last_error_kind, failed, odd, vararg, literal, operation>>

(* What is printed next is odd.                                            *)
PrintOdd ==
    /\ Prints({"odd"})
    /\ Meets({Head(ours.todo)[2]})
    /\ ours' = Popped
    /\ UNCHANGED <<mode, lua, last_error_kind, failed, vararg, literal, operation>>

-----------------------------------------------------------------------------
(* One more unit of a string: scan_quoted_string reads it, and             *)
(* emit_string_content prints what it has read.                            *)
Spell ==
    /\ mode = "string" /\ odd = {} /\ text = <<>> /\ Len(points) < MaxPoints
    /\ \E unit \in Units :
         /\ Meets(OddUnit(points, unit))
         /\ points' = points \o Scan(unit)
         /\ text' = EmitString(Scan(unit))
         /\ bytes' = bytes \o LuaString(unit)
    /\ UNCHANGED <<mode, machines, vararg, reader, operation>>

(* Lua 5.1 reads the next character of what has been printed.              *)
ReadPrinted ==
    /\ text # <<>>
    /\ text' = Tail(text)
    /\ reader' = ReadChar(reader, Head(text))
    /\ UNCHANGED <<mode, machines, odd, vararg, points, bytes, operation>>

(* An integer: parse_dec_int or parse_hex_int, and the printed number,     *)
(* which is in the base the source has it in, after its sign.              *)
SpellInteger ==
    /\ mode = "integer" /\ odd = {}
    /\ \E unit \in Integers55 :
         /\ Meets(OddInteger(unit))
         /\ value' = Double(ParseInt(unit.v))
         /\ meant' = LuaInt(unit)
    /\ UNCHANGED <<mode, machines, vararg, literal, call, native>>

-----------------------------------------------------------------------------
(* An operator is applied to the last result: make_bit_call.               *)
Operate ==
    /\ mode = "operator" /\ odd = {} /\ call = NoCall
    /\ \E op \in Operators55, y \in Operands :
         /\ Meets(OddOperation(op, value, y))
         /\ call' = Called(Method(op), value, y)
         /\ meant' = Applied(op, meant, y, Width)
         /\ native' = InLibrary(op, value, y)
    /\ UNCHANGED <<mode, machines, vararg, literal, value>>

Loop ==
    /\ call # NoCall /\ LoopsOn(call)
    /\ call' = Turn(call)
    /\ UNCHANGED <<mode, machines, odd, vararg, literal, value, meant, native>>

Return ==
    /\ call # NoCall /\ ~LoopsOn(call)
    /\ call' = NoCall /\ value' = Returned(call)
    /\ UNCHANGED <<mode, machines, odd, vararg, literal, meant, native>>

Next ==
    \/ Read
    \/ ChooseNode \/ PrintToken \/ PushIndent \/ CompleteNode \/ PrintOdd
    \/ Spell \/ ReadPrinted \/ SpellInteger
    \/ Operate \/ Loop \/ Return

Spec == Init /\ [][Next]_vars

-----------------------------------------------------------------------------
(* What each construct may do: change the tree, be refused by valua alone, *)
(* be accepted by valua alone, be printed as what Lua 5.1 does not load.   *)
OtherTree  == {"one_value", "pointed", "literal_suffix", "negative_power", "bare_base"}
MayRefuse  == {"pointed", "literal_suffix", "wide", "surrogate", "prefix_attribute", "named_vararg", "global"}
MayAccept  == {"pointed", "literal_suffix", "malformed", "odd_escape", "outside_vararg", "no_variable",
               "two_closes", "leftover"}
MayNotLoad == {"paren_start", "bare_base", "goto", "break_inside", "outside_vararg"}

(* The machines are in states the program can be in: the lexer's kind is   *)
(* one of the enum, and only reading refuses (that the emitter refuses     *)
(* floats without a literal is Pipeline's).                                *)
TypeOK ==
    /\ mode \in {"source", "output", "string", "integer", "operator"}
    /\ last_error_kind \in {"UnexpectedChar", "UnterminatedString", "InvalidEscape",
                            "UnterminatedLongString", "InvalidNumber"}
    /\ failed \in Failing \cup {"none"}
    /\ odd \subseteq Constructs
    /\ Refused(ours) => mode = "source"

(* valua's parser makes of a text the tree Lua 5.5 makes of it: it         *)
(* completes the same nodes in the same order, so that precedences and     *)
(* associativity agree and no token of one statement is taken into the one *)
(* before it, unless a construct that changes the tree has been met.       *)
SameTreeRead ==
    mode = "source" /\ odd \cap OtherTree = {} =>
      ~Differ /\ (~Refused(ours) /\ ~Refused(lua) => ours.tree = lua.tree)

(* Lua 5.1 makes of the printed text the tree that was printed: the        *)
(* emitter leaves out no parenthesis that the tree needs, and no line is   *)
(* taken into the one before it, but for the same constructs.              *)
SameTreePrinted ==
    mode = "output" /\ odd \cap OtherTree = {} =>
      ~Differ /\ (Ended(lua) => ours.tree = lua.tree)

(* A text that valua's lexer or parser refuses is refused by Lua 5.5, at   *)
(* the same token, up to seven constructs that valua reads otherwise or    *)
(* not at all.                                                             *)
NothingRefused ==
    mode = "source" /\ Refused(ours) /\ odd \cap MayRefuse = {} => Refused(lua)

(* A text that Lua 5.5 refuses does not get past valua's parser, up to     *)
(* eight constructs it reads though they are no Lua.                       *)
NothingSlipsThrough ==
    mode = "source" /\ Refused(lua) /\ odd \cap MayAccept = {} => Refused(ours)

(* Whatever tree is printed, Lua 5.1 reads the text to its end, unless one *)
(* of five constructs is printed.                                          *)
TextLoads == mode = "output" /\ odd \cap MayNotLoad = {} => ~Refused(lua)

KindOf(lexeme) ==
    CASE lexeme = "wide" -> "InvalidNumber"
      [] lexeme = "open_string" -> "UnterminatedString"
      [] lexeme \in {"bad_escape", "surrogate"} -> "InvalidEscape"
      [] lexeme \in {"open_long", "open_comment"} -> "UnterminatedLongString"
      [] lexeme = "odd_char" -> "UnexpectedChar"

(* The kind tokenize reports is that of the lexeme it fails at, though the *)
(* callbacks of good lexemes set it too; a character that starts no token  *)
(* after one of those is the exception.                                    *)
ErrorNamed == failed # "none" /\ "stale_kind" \notin odd => last_error_kind = KindOf(failed)

(* A literal is worth to Lua 5.1, which reads what is emitted for it, what *)
(* it is worth to Lua 5.5: bytes of strings one by one, and integers of    *)
(* Width bits, but for four spellings.                                     *)
SameLiteral ==
    odd = {} =>
      /\ mode = "string" /\ text = <<>> => Flush(reader).bytes = bytes
      /\ mode = "integer" => value = meant

(* A lowered operator gives what the operator gives in Lua 5.5, unless an  *)
(* operand or a result does not fit BitWidth bits, a count is no position, *)
(* or a negative number is shifted right.                                  *)
SameValue == mode = "operator" /\ call = NoCall /\ odd = {} => value = meant

(* Whatever its operands, the injected library gives what LuaJIT's does.   *)
LikeBitLibrary == mode = "operator" /\ call = NoCall => value = native
=============================================================================
