-------------------------------- MODULE Parser --------------------------------
(***************************************************************************)
(* valua's parser (crates/valua-parser/src/lib.rs): one operator for each  *)
(* of its procedures.  A loop of the code is a procedure that calls        *)
(* itself last; `p` below is what Parse(p) on the stack stands for.        *)
(***************************************************************************)
EXTENDS Descent

(* Wrong: every operator associates to the left.                           *)
BindingPowerLeft(op) ==
    CASE op \in {"or", "and"} -> <<1, 2>>
      [] op \in {"<", ">", "<=", ">=", "==", "~="} -> <<5, 6>>
      [] op \in {"|", "~", "&", "<<", ">>"} -> <<7, 8>>
      [] op = "^"   -> <<23, 24>>
      [] OTHER      -> <<17, 18>>

(* (left, right) binding power: at a call with min_prec, an operator to    *)
(* the left of min_prec ends the expression; its operand is parsed with    *)
(* the right one.                                                          *)
BindingPower(op) ==
    CASE op = "or"  -> <<1, 2>>
      [] op = "and" -> <<3, 4>>
      [] op \in {"<", ">", "<=", ">=", "==", "~="} -> <<5, 6>>
      [] op = "|"   -> <<7, 8>>
      [] op = "~"   -> <<9, 10>>
      [] op = "&"   -> <<11, 12>>
      [] op \in {"<<", ">>"} -> <<13, 14>>
      [] op = ".."  -> <<16, 15>>
      [] op \in {"+", "-"} -> <<17, 18>>
      [] op \in {"*", "/", "//", "%"} -> <<19, 20>>
      [] op = "^"   -> <<24, 23>>

UnaryPrec == 21

MinPrec(op) ==
    CASE op = "none"  -> 0
      [] op = "unary" -> UnaryPrec
      [] OTHER        -> BindingPower(op)[2]

(* parse_expression with the min_prec of what is to its left.              *)
Operand(op) == <<Parse("unary"), Climb(op)>>
Expression  == Operand("none")

(* Procedures that begin alike whatever comes next.                        *)
ParseSuffixed == <<Parse("primary"), Parse("suffixes")>>
ExprList == Expression \o <<Parse("more_exprs")>>
ParseTable == <<Expect("{"), Parse("fields"), Expect("}"), Node("table")>>
ParseReturn == <<Expect("return"), Parse("values"), Node("return")>>
LocalNames == <<Expect("Name"), Parse("attribute"), Parse("more_names")>>
FunctionBody == <<Expect("("), Parse("params"), Expect(")"), Parse("block"), Expect("end")>>
ParseIf == <<Expect("if")>> \o Expression \o
           <<Expect("then"), Parse("block"), Parse("else_clauses"), Expect("end"), Node("if")>>

PeekBinaryOp(op, look) ==
    IF look \in BinaryOps /\ BindingPower(look)[1] >= MinPrec(op)
    THEN <<Expect(look)>> \o Operand(look) \o <<Binop(look), Climb(op)>>
    ELSE <<>>

ParseUnary(look) ==
    IF look \in UnaryOps
    THEN <<Expect(look)>> \o Operand("unary") \o <<Unop(look)>>
    ELSE ParseSuffixed

MoreSuffixes(look) ==
    CASE look = "." -> <<Expect("."), Expect("Name"), Node("index"), Parse("suffixes")>>
      [] look = "[" -> <<Expect("[")>> \o Expression \o
                       <<Expect("]"), Node("index_expr"), Parse("suffixes")>>
      [] look = ":" -> <<Expect(":"), Expect("Name"), Parse("call_args"),
                         Node("method_call"), Parse("suffixes")>>
      [] look \in {"(", "String", "{"} ->
                       <<Parse("call_args"), Node("call"), Parse("suffixes")>>
      [] OTHER      -> <<>>

(* The parentheses leave no node: adjust_span keeps the expression inside. *)
ParsePrimary(look) ==
    CASE look \in Simple  -> <<Expect(look), Node(look)>>
      [] look \in Names   -> <<Expect("Name"), Node("name")>>
      [] look = "("       -> <<Expect("(")>> \o Expression \o <<Expect(")")>>
      [] look = "{"       -> ParseTable
      [] look = "function"-> <<Expect("function")>> \o FunctionBody \o <<Node("function")>>
      [] OTHER            -> <<Fail("none")>>

MoreExprs(look) == IF look = "," THEN <<Expect(",")>> \o ExprList ELSE <<>>

ParseCallArgs(look) ==
    CASE look = "("      -> <<Expect("("), Parse("args"), Expect(")")>>
      [] look = "String" -> <<Expect("String"), Node("String")>>
      [] look = "{"      -> ParseTable
      [] OTHER           -> <<Fail("none")>>

Args(look) == IF look = ")" THEN <<>> ELSE ExprList

(* Wrong: only a comma separates fields.                                   *)
SeparatorComma(look) == IF look = "," THEN <<Expect(look), Parse("fields")>> ELSE <<>>

Fields(look)    == IF look = "}" THEN <<>> ELSE <<Parse("field"), Parse("separator")>>
Separator(look) == IF look \in {",", ";"} THEN <<Expect(look), Parse("fields")>> ELSE <<>>

(* is_name_assign_field looks at the token after a name before the name is *)
(* read; here the name is read first, and what follows decides.            *)
ParseField(look) ==
    CASE look = "["     -> <<Expect("[")>> \o Expression \o <<Expect("]"), Expect("=")>>
                           \o Expression \o <<Node("expr_key")>>
      [] look \in Names -> <<Expect("Name"), Parse("named_field")>>
      [] OTHER          -> Expression \o <<Node("positional")>>

NamedField(look) ==
    IF look = "=" THEN <<Expect("=")>> \o Expression \o <<Node("name_key")>>
    ELSE <<Node("name"), Parse("suffixes"), Climb("none"), Node("positional")>>

-----------------------------------------------------------------------------
ParseBlock(look) ==
    CASE look \in BlockEnds -> <<>>
      [] look = ";"         -> <<Expect(";"), Parse("block")>>
      [] look = "return"    -> ParseReturn \o <<Parse("semicolon")>>
      [] OTHER              -> <<Parse("statement"), Parse("block")>>

(* parse returns the block, whatever token has ended it.                   *)
Chunk == <<Parse("block"), Parse("rest")>>
Rest  == <<>>

Semicolon(look) == IF look = ";" THEN <<Expect(";")>> ELSE <<>>

Values(look) == IF look \in BlockEnds \cup {";"} THEN <<>> ELSE ExprList

ParseStatement(look) ==
    CASE look = "local"    -> <<Expect("local"), Parse("local")>>
      [] look = "function" -> <<Expect("function"), Expect("Name"), Parse("name_parts")>>
                              \o FunctionBody \o <<Node("function_decl")>>
      [] look = "do"       -> <<Expect("do"), Parse("block"), Expect("end"), Node("do")>>
      [] look = "while"    -> <<Expect("while")>> \o Expression \o
                              <<Expect("do"), Parse("block"), Expect("end"), Node("while")>>
      [] look = "repeat"   -> <<Expect("repeat"), Parse("block"), Expect("until")>>
                              \o Expression \o <<Node("repeat")>>
      [] look = "if"       -> ParseIf
      [] look = "for"      -> <<Expect("for"), Expect("Name"), Parse("for")>>
      [] look = "goto"     -> <<Expect("goto"), Expect("Name"), Node("goto")>>
      [] look = "::"       -> <<Expect("::"), Expect("Name"), Expect("::"), Node("label")>>
      [] look = "break"    -> <<Expect("break"), Node("break")>>
      [] OTHER             -> ParseSuffixed \o <<Parse("assign_or_call")>>

ParseLocal(look) ==
    IF look = "function"
    THEN <<Expect("function"), Expect("Name")>> \o FunctionBody \o <<Node("local_function")>>
    ELSE LocalNames \o <<Parse("initializer"), Node("local")>>

MoreNames(look)   == IF look = "," THEN <<Expect(",")>> \o LocalNames ELSE <<>>
Initializer(look) == IF look = "=" THEN <<Expect("=")>> \o ExprList ELSE <<>>

ParseAttribute(look) ==
    IF look = "<" THEN <<Expect("<"), Parse("attribute_name")>> ELSE <<>>

AttributeName(look) ==
    IF look \in {"const", "close"} THEN <<Expect(look), Expect(">"), Node(look)>> ELSE <<Fail("none")>>

NameParts(look) ==
    CASE look = "." -> <<Expect("."), Expect("Name"), Node("part"), Parse("name_parts")>>
      [] look = ":" -> <<Expect(":"), Expect("Name"), Node("method")>>
      [] OTHER      -> <<>>

(* Wrong: what follows the dots is taken for another parameter.            *)
ParamOn(look)    == IF look = "..." THEN <<Expect("..."), Node("is_vararg"), Parse("more_params")>>
                    ELSE <<Expect("Name"), Node("param"), Parse("more_params")>>

Params(look)     == IF look = ")" THEN <<>> ELSE <<Parse("param")>>
Param(look)      == IF look = "..." THEN <<Expect("..."), Node("is_vararg")>>
                    ELSE <<Expect("Name"), Node("param"), Parse("more_params")>>
MoreParams(look) == IF look = "," THEN <<Expect(","), Parse("param")>> ELSE <<>>

ElseClauses(look) ==
    CASE look = "elseif" -> <<Expect("elseif")>> \o Expression \o
                            <<Expect("then"), Parse("block"), Node("elseif"), Parse("else_clauses")>>
      [] look = "else"   -> <<Expect("else"), Parse("block"), Node("else")>>
      [] OTHER           -> <<>>

(* Both loops, after `for` and the first name.                             *)
ParseFor(look) ==
    IF look = "="
    THEN <<Expect("=")>> \o Expression \o <<Expect(",")>> \o Expression \o
         <<Parse("step"), Expect("do"), Parse("block"), Expect("end"), Node("numeric_for")>>
    ELSE <<Parse("for_names"), Expect("in")>> \o ExprList \o
         <<Expect("do"), Parse("block"), Expect("end"), Node("generic_for")>>

Stride(look)   == IF look = "," THEN <<Expect(",")>> \o Expression ELSE <<>>
ForNames(look) == IF look = "," THEN <<Expect(","), Expect("Name"), Parse("for_names")>> ELSE <<>>

(* The statement is an assignment if `=` or `,` follows the expression,    *)
(* whatever it is, and otherwise the expression must be a call.            *)
AssignOrCall(look, last) ==
    CASE look \in {"=", ","} -> <<Parse("targets"), Expect("=")>> \o ExprList \o <<Node("assign")>>
      [] look \notin {"=", ","} /\ last \in {"call", "method_call"} -> <<Node("call_statement")>>
      [] OTHER -> <<Fail("none")>>

Targets(look) == IF look = "," THEN <<Expect(",")>> \o ParseSuffixed \o <<Parse("targets")>> ELSE <<>>

-----------------------------------------------------------------------------
Procedures ==
    {"block", "rest", "semicolon", "values", "statement", "local", "more_names", "initializer",
     "attribute", "attribute_name", "name_parts", "params", "param", "more_params",
     "else_clauses", "for", "step", "for_names", "assign_or_call", "targets", "more_exprs",
     "unary", "suffixes", "primary", "call_args", "args", "fields", "separator", "field",
     "named_field"}

Procedure(p, look, last) ==
    CASE p = "block"         -> ParseBlock(look)
      [] p = "semicolon"     -> Semicolon(look)
      [] p = "values"        -> Values(look)
      [] p = "statement"     -> ParseStatement(look)
      [] p = "local"         -> ParseLocal(look)
      [] p = "more_names"    -> MoreNames(look)
      [] p = "initializer"   -> Initializer(look)
      [] p = "attribute"     -> ParseAttribute(look)
      [] p = "attribute_name"-> AttributeName(look)
      [] p = "name_parts"    -> NameParts(look)
      [] p = "params"        -> Params(look)
      [] p = "param"         -> Param(look)
      [] p = "more_params"   -> MoreParams(look)
      [] p = "else_clauses"  -> ElseClauses(look)
      [] p = "for"           -> ParseFor(look)
      [] p = "step"          -> Stride(look)
      [] p = "for_names"     -> ForNames(look)
      [] p = "assign_or_call"-> AssignOrCall(look, last)
      [] p = "targets"       -> Targets(look)
      [] p = "more_exprs"    -> MoreExprs(look)
      [] p = "unary"         -> ParseUnary(look)
      [] p = "suffixes"      -> MoreSuffixes(look)
      [] p = "primary"       -> ParsePrimary(look)
      [] p = "call_args"     -> ParseCallArgs(look)
      [] p = "args"          -> Args(look)
      [] p = "fields"        -> Fields(look)
      [] p = "separator"     -> Separator(look)
      [] p = "field"         -> ParseField(look)
      [] p = "named_field"   -> NamedField(look)
      [] OTHER               -> Rest

ParserRule(symbol, look, last) ==
    IF symbol[1] = "climb" THEN PeekBinaryOp(symbol[2], look)
    ELSE Procedure(symbol[2], look, last)
=============================================================================
