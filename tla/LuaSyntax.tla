------------------------------ MODULE LuaSyntax ------------------------------
(***************************************************************************)
(* How Lua reads a text: the grammar of the compilers of Lua 5.5, which    *)
(* valua's input is written for, and of Lua 5.1, which has to load its     *)
(* output.  External: the repository has neither.  The procedures are      *)
(* those of Lua's recursive descent, in the form of Descent.  Whether a    *)
(* `...` is inside a vararg function is checked where the machines are     *)
(* given their tokens (Translation's Outside).  Left out are the checks    *)
(* that need more than the open functions: of labels and breaks, of names  *)
(* (globals, const and loop variables), and the compilers' limits (locals, *)
(* upvalues, constants, registers, nesting).                               *)
(***************************************************************************)
EXTENDS Descent

CONSTANT Version    \* "5.5" or "5.1"

Is51 == Version = "5.1"

(* (left, right) priorities: an operator is read at a limit below its left *)
(* priority, its operand with its right one as the limit.                  *)
Priority51(op) ==
    CASE op = "or"  -> <<1, 1>>
      [] op = "and" -> <<2, 2>>
      [] op \in {"<", ">", "<=", ">=", "==", "~="} -> <<3, 3>>
      [] op = ".."  -> <<5, 4>>
      [] op \in {"+", "-"} -> <<6, 6>>
      [] op \in {"*", "/", "%"} -> <<7, 7>>
      [] op = "^"   -> <<10, 9>>

Priority55(op) ==
    CASE op = "or"  -> <<1, 1>>
      [] op = "and" -> <<2, 2>>
      [] op \in {"<", ">", "<=", ">=", "==", "~="} -> <<3, 3>>
      [] op = "|"   -> <<4, 4>>
      [] op = "~"   -> <<5, 5>>
      [] op = "&"   -> <<6, 6>>
      [] op \in {"<<", ">>"} -> <<7, 7>>
      [] op = ".."  -> <<9, 8>>
      [] op \in {"+", "-"} -> <<10, 10>>
      [] op \in {"*", "/", "//", "%"} -> <<11, 11>>
      [] op = "^"   -> <<14, 13>>

Priority(op) == IF Is51 THEN Priority51(op) ELSE Priority55(op)

Operators == IF Is51 THEN BinaryOps \ {"|", "~", "&", "<<", ">>", "//"} ELSE BinaryOps
Prefixes  == IF Is51 THEN UnaryOps \ {"~"} ELSE UnaryOps

Limit(op) ==
    CASE op = "none"  -> 0
      [] op = "unary" -> IF Is51 THEN 8 ELSE 12
      [] OTHER        -> Priority(op)[2]

-----------------------------------------------------------------------------
SubExpr(op) == <<Parse("subexpr"), Climb(op)>>
Expr        == SubExpr("none")
ExpList     == Expr \o <<Parse("explist")>>
Suffixed    == <<Parse("primaryexp"), Parse("suffixedexp")>>
Constructor == <<Expect("{"), Parse("constructor"), Expect("}"), Node("table")>>
Body        == <<Expect("("), Parse("parlist"), Expect(")"), Parse("statlist"), Expect("end")>>
ForBody     == <<Expect("do"), Parse("statlist"), Expect("end")>>
RetStat     == <<Expect("return"), Parse("retstat"), Node("return"), Parse("semicolon")>>

Assignable == {"name", "index", "index_expr"}
Calls      == {"call", "method_call"}

(* The open functions of the compiler that begin with a test.              *)
Statement(look) ==
    CASE look = "if"       -> <<Expect("if")>> \o Expr \o
                              <<Expect("then"), Parse("statlist"), Parse("test_then"),
                                Expect("end"), Node("if")>>
      [] look = "while"    -> <<Expect("while")>> \o Expr \o ForBody \o <<Node("while")>>
      [] look = "do"       -> ForBody \o <<Node("do")>>
      [] look = "for"      -> <<Expect("for"), Expect("Name"), Parse("forstat")>>
      [] look = "repeat"   -> <<Expect("repeat"), Parse("statlist"), Expect("until")>>
                              \o Expr \o <<Node("repeat")>>
      [] look = "function" -> <<Expect("function"), Expect("Name"), Parse("funcname")>>
                              \o Body \o <<Node("function_decl")>>
      [] look = "local"    -> <<Expect("local"), Parse("localstat")>>
      [] look = "::" /\ ~Is51   -> <<Expect("::"), Expect("Name"), Expect("::"), Node("label")>>
      [] look = "goto" /\ ~Is51 -> <<Expect("goto"), Expect("Name"), Node("goto")>>
      [] look = "break" /\ ~Is51 -> <<Expect("break"), Node("break")>>
      [] look = "global" /\ ~Is51 -> <<Expect("global"), Node("name"), Parse("globalstat")>>
      [] OTHER             -> Suffixed \o <<Parse("exprstat")>>

StatList(look) ==
    CASE look \in BlockEnds       -> <<>>
      [] look = "return"          -> RetStat
      [] look = ";" /\ ~Is51      -> <<Expect(";"), Parse("statlist")>>
      [] look = "break" /\ Is51   -> <<Expect("break"), Node("break"), Parse("semicolon")>>
      [] OTHER -> Statement(look) \o
                  (IF Is51 THEN <<Parse("semicolon")>> ELSE <<>>) \o <<Parse("statlist")>>

PrimaryExp(look) ==
    CASE look \in Names \/ (look = "goto" /\ Is51) -> <<Expect(look), Node("name")>>
      [] look \in {"(", LineParen} ->
           <<Expect("(")>> \o Expr \o <<Expect(")"), Parse("discharge")>>
      [] look \in Simple \cup {"{", "function"} -> <<Fail("no_variable")>>
      [] OTHER -> <<Fail("none")>>

(* Parentheses make one value of a call or of `...`, and no variable.      *)
Discharge(last) ==
    (IF last \in Calls \cup {"..."} THEN <<Node("one_value")>> ELSE <<>>) \o <<Shape("paren")>>

FuncArgs(look) ==
    CASE look = "(" \/ (look = LineParen /\ ~Is51)
                         -> <<Expect("("), Parse("args"), Expect(")")>>
      [] look = "String" -> <<Expect("String"), Node("String")>>
      [] look = "{"      -> Constructor
      [] OTHER           -> <<Fail("none")>>

SuffixedExp(look) ==
    CASE look = "." -> <<Expect("."), Expect("Name"), Node("index"), Parse("suffixedexp")>>
      [] look = "[" -> <<Expect("[")>> \o Expr \o
                       <<Expect("]"), Node("index_expr"), Parse("suffixedexp")>>
      [] look = ":" -> <<Expect(":"), Expect("Name"), Parse("funcargs"), Node("method_call"),
                         Parse("suffixedexp")>>
      [] look \in {"(", LineParen, "String", "{"} ->
                       <<Parse("funcargs"), Node("call"), Parse("suffixedexp")>>
      [] OTHER      -> <<>>

(* A prefix operator and its operand, or simpleexp.                        *)
SubExprStart(look) ==
    CASE look \in Prefixes   -> <<Expect(look)>> \o SubExpr("unary") \o <<Unop(look)>>
      [] look \in Simple     -> <<Expect(look), Node(look)>>
      [] look = "{"          -> Constructor
      [] look = "function"   -> <<Expect("function")>> \o Body \o <<Node("function")>>
      [] OTHER               -> Suffixed

BinaryOp(op, look) ==
    IF look \in Operators /\ Priority(look)[1] > Limit(op)
    THEN <<Expect(look)>> \o SubExpr(look) \o <<Binop(look), Climb(op)>>
    ELSE <<>>

(* Assignment or call; each target must be a variable.  Refusals of what   *)
(* is neither a variable nor a call for that reason are named.             *)
ExprStat(look, last) ==
    CASE look = "," /\ last \in Assignable -> <<Expect(",")>> \o Suffixed \o <<Parse("restassign")>>
      [] look = "=" /\ last \in Assignable -> <<Expect("=")>> \o ExpList \o <<Node("assign")>>
      [] look \notin {",", "="} /\ last \in Calls -> <<Node("call_statement")>>
      [] look \in {",", "="} /\ last \notin Assignable -> <<Fail("no_variable")>>
      [] look \notin {",", "="} /\ last = "paren" -> <<Fail("no_variable")>>
      [] OTHER -> <<Fail("none")>>

RestAssign(look, last) ==
    IF look \in {",", "="} THEN ExprStat(look, last) ELSE <<Fail("none")>>

-----------------------------------------------------------------------------
LocalStat(look) ==
    IF look = "function"
    THEN <<Expect("function"), Expect("Name")>> \o Body \o <<Node("local_function")>>
    ELSE (IF Is51 THEN <<>> ELSE <<Parse("attrib")>>) \o
         <<Expect("Name"), Parse("attrib"), Parse("attnamelist"), Parse("init"), Node("local")>>

Attrib(look) ==
    IF look = "<" /\ ~Is51 THEN <<Expect("<"), Parse("attname")>> ELSE <<>>

AttName(look) ==
    IF look \in {"const", "close"} THEN <<Expect(look), Expect(">"), Node(look)>> ELSE <<Fail("none")>>

(* One variable of a declaration may be `close`, no more.                  *)
AttNameList(look, last) ==
    IF look # "," THEN <<>>
    ELSE IF last = "close" THEN <<Expect(","), Expect("Name"), Parse("closed"), Parse("closedlist")>>
    ELSE <<Expect(","), Expect("Name"), Parse("attrib"), Parse("attnamelist")>>

Closed(look) == IF look = "<" THEN <<Expect("<"), Expect("const"), Expect(">"), Node("const")>>
                ELSE <<>>

ClosedList(look) ==
    IF look = "," THEN <<Expect(","), Expect("Name"), Parse("closed"), Parse("closedlist")>>
    ELSE <<>>

(* `global` declares if a name, an attribute, `*` or `function` follows.   *)
GlobalStat(look) ==
    CASE look = "function" -> <<Expect("function"), Expect("Name")>> \o Body \o <<Node("global")>>
      [] look = "*"        -> <<Expect("*"), Node("global")>>
      [] look \in Names \cup {"<"} ->
           <<Parse("attrib"), Expect("Name"), Parse("attrib"), Parse("attnamelist"), Node("global")>>
      [] OTHER -> <<Parse("suffixedexp"), Parse("exprstat")>>

ForStat(look) ==
    IF look = "=" THEN <<Expect("=")>> \o Expr \o <<Expect(",")>> \o Expr \o
                       <<Parse("fornum")>> \o ForBody \o <<Node("numeric_for")>>
    ELSE <<Parse("forlist"), Expect("in")>> \o ExpList \o ForBody \o <<Node("generic_for")>>

TestThen(look) ==
    CASE look = "elseif" -> <<Expect("elseif")>> \o Expr \o
                            <<Expect("then"), Parse("statlist"), Node("elseif"), Parse("test_then")>>
      [] look = "else"   -> <<Expect("else"), Parse("statlist"), Node("else")>>
      [] OTHER           -> <<>>

FuncName(look) ==
    CASE look = "." -> <<Expect("."), Expect("Name"), Node("part"), Parse("funcname")>>
      [] look = ":" -> <<Expect(":"), Expect("Name"), Node("method")>>
      [] OTHER      -> <<>>

Parameter(look) ==
    IF look = "..." THEN <<Expect("..."), Node("is_vararg")>> \o
                         (IF Is51 THEN <<>> ELSE <<Parse("vararg_name")>>)
    ELSE <<Expect("Name"), Node("param"), Parse("morepars")>>

Field(look) ==
    CASE look = "["     -> <<Expect("[")>> \o Expr \o <<Expect("]"), Expect("=")>> \o Expr
                           \o <<Node("expr_key")>>
      [] look \in Names -> <<Expect("Name"), Parse("recfield")>>
      [] OTHER          -> Expr \o <<Node("positional")>>

RecField(look) ==
    IF look = "=" THEN <<Expect("=")>> \o Expr \o <<Node("name_key")>>
    ELSE <<Node("name"), Parse("suffixedexp"), Climb("none"), Node("positional")>>

(* What may stand there or not, and starts with one of a few tokens.       *)
Optional(p, look) ==
    CASE p = "semicolon" /\ look = ";"    -> <<Expect(";")>>
      [] p = "retstat" /\ look \notin BlockEnds \cup {";"} -> ExpList
      [] p = "explist" /\ look = ","      -> <<Expect(",")>> \o ExpList
      [] p = "init" /\ look = "="         -> <<Expect("=")>> \o ExpList
      [] p = "args" /\ look # ")"         -> ExpList
      [] p = "parlist" /\ look # ")"      -> <<Parse("parameter")>>
      [] p = "morepars" /\ look = ","     -> <<Expect(","), Parse("parameter")>>
      [] p = "vararg_name" /\ look \in Names -> <<Expect("Name")>>
      [] p = "constructor" /\ look # "}"  -> <<Parse("field"), Parse("fieldsep")>>
      [] p = "fieldsep" /\ look \in {",", ";"} -> <<Expect(look), Parse("constructor")>>
      [] p = "fornum" /\ look = ","       -> <<Expect(",")>> \o Expr
      [] p = "forlist" /\ look = ","      -> <<Expect(","), Expect("Name"), Parse("forlist")>>
      [] OTHER                            -> <<>>

-----------------------------------------------------------------------------
LuaProcedures ==
    {"statlist", "primaryexp", "suffixedexp", "discharge", "funcargs", "subexpr", "exprstat",
     "restassign", "localstat", "attrib", "attname", "attnamelist", "closed", "closedlist",
     "globalstat", "forstat", "test_then", "funcname", "parameter", "field", "recfield",
     "semicolon", "retstat", "explist", "init", "args", "parlist", "morepars", "vararg_name",
     "constructor", "fieldsep", "fornum", "forlist"}

LuaProcedure(p, look, last) ==
    CASE p = "statlist"    -> StatList(look)
      [] p = "primaryexp"  -> PrimaryExp(look)
      [] p = "suffixedexp" -> SuffixedExp(look)
      [] p = "discharge"   -> Discharge(last)
      [] p = "funcargs"    -> FuncArgs(look)
      [] p = "subexpr"     -> SubExprStart(look)
      [] p = "exprstat"    -> ExprStat(look, last)
      [] p = "restassign"  -> RestAssign(look, last)
      [] p = "localstat"   -> LocalStat(look)
      [] p = "attrib"      -> Attrib(look)
      [] p = "attname"     -> AttName(look)
      [] p = "attnamelist" -> AttNameList(look, last)
      [] p = "closed"      -> Closed(look)
      [] p = "closedlist"  -> ClosedList(look)
      [] p = "globalstat"  -> GlobalStat(look)
      [] p = "forstat"     -> ForStat(look)
      [] p = "test_then"   -> TestThen(look)
      [] p = "funcname"    -> FuncName(look)
      [] p = "parameter"   -> Parameter(look)
      [] p = "field"       -> Field(look)
      [] p = "recfield"    -> RecField(look)
      [] OTHER             -> Optional(p, look)

LuaRule(symbol, look, last) ==
    IF symbol[1] = "climb" THEN BinaryOp(symbol[2], look)
    ELSE LuaProcedure(symbol[2], look, last)
=============================================================================
