------------------------------- MODULE Emitter -------------------------------
(***************************************************************************)
(* valua's code generator (crates/valua-codegen/src/lib.rs) as a machine   *)
(* of Descent's form that prints: its stack holds what is still to be      *)
(* printed, and the tree is chosen while it is printed.  Printed(symbol)   *)
(* is the set of what may stand for a symbol, one element per node the     *)
(* tree may have there; further symbols are                                *)
(*                                                                         *)
(*   Say(t)            print the token t                                   *)
(*   Part(p)          print a part of the tree                             *)
(*   Operand(op, side) print the expression on that side of operator op    *)
(*   Line              start a line                                        *)
(*   Odd(c)            what follows is a construct named c, which Lua 5.1  *)
(*                     does not read as it was meant                       *)
(*                                                                         *)
(* The trees are those the parser and the passes leave of a program that   *)
(* Lua accepts: targets of assignments are variables, a statement that is  *)
(* an expression is a call, operators are those Lua 5.1 has.               *)
(***************************************************************************)
EXTENDS Descent

Say(t)            == <<"say", t>>
Part(p)          == <<"print", p>>
Operand(op, side) == <<"operand", op, side>>
Line              == <<"line", "none">>        \* push_indent: a new line starts
Odd(c)            == <<"odd", c>>

Comma == Say(",")

CONSTANT EmittedOps    \* the binary operators in the trees that are printed

BinaryPrec(op) ==
    CASE op = "or"  -> 1
      [] op = "and" -> 3
      [] op \in {"<", ">", "<=", ">=", "==", "~="} -> 5
      [] op = "|"   -> 7
      [] op = "~"   -> 9
      [] op = "&"   -> 11
      [] op \in {"<<", ">>"} -> 13
      [] op = ".."  -> 16
      [] op \in {"+", "-"} -> 17
      [] op \in {"*", "/", "//", "%"} -> 19
      [] op = "^"   -> 24

(* Wrong: every operator is printed as if it associated to the left.       *)
LeftAssoc(op) == FALSE

RightAssoc(op) == op \in {"^", ".."}

MaxPrec == 255

(* Wrong: what a suffix is printed after needs no parentheses.             *)
OperandPrecBare(op, side) ==
    CASE op \in {"none", "base"} -> 0
      [] op = "unary"        -> 21
      [] OTHER -> BinaryPrec(op) + (IF RightAssoc(op) = (side = "left") THEN 1 ELSE 0)

(* min_prec of the operand of op on one side; "unary" is any prefix        *)
(* operator, "base" what a suffix is printed after, "none" no operator.    *)
OperandPrec(op, side) ==
    CASE op = "none"  -> 0
      [] op = "unary" -> 21
      [] op = "base"  -> MaxPrec
      [] OTHER -> BinaryPrec(op) + (IF RightAssoc(op) = (side = "left") THEN 1 ELSE 0)

Inner(op) == <<Operand(op, "left"), Say(op), Operand(op, "right"), Binop(op)>>
Expr      == <<Operand("none", "none")>>
ExprList  == Expr \o <<Part("more_exprs")>>
Body      == <<Say("("), Part("params"), Say(")"), Part("block"), Say("end")>>
Loop      == <<Say("do"), Part("block"), Say("end")>>

(* emit_expr_prec: parentheses where the expression binds less tightly     *)
(* than its place wants.                                                   *)
Parens(prec, min, symbols) ==
    IF prec < min THEN <<Say("(")>> \o symbols \o <<Say(")")>> ELSE symbols

Index == {<<Operand("base", "none"), Say("."), Say("Name"), Node("index")>>,
          <<Operand("base", "none"), Say("[")>> \o Expr \o <<Say("]"), Node("index_expr")>>}

Call  == {<<Operand("base", "none"), Say("("), Part("args"), Say(")"), Node("call")>>,
          <<Operand("base", "none"), Say(":"), Say("Name"), Say("("), Part("args"), Say(")"),
            Node("method_call")>>}

Variable == {<<Say("Name"), Node("name")>>} \cup Index

Table == <<Say("{"), Part("fields"), Say("}"), Node("table")>>

(* Expressions that are no variable, no call and no operation.             *)
Values == {<<Say(v), Node(v)>> : v \in Simple} \cup
          {<<Say("function")>> \o Body \o <<Node("function")>>,
           Table}

(* An integer the lexer has wrapped around is printed with a sign.         *)
Negative == <<Say("-"), Say("Literal"), Node("Literal"), Unop("-")>>

PrintedOperand(op, side) ==
    LET min == OperandPrec(op, side)
        odd(c) == IF c THEN <<Odd("bare_base")>> ELSE <<>>
    IN  Variable \cup Call
        \cup {odd(op = "base") \o v : v \in Values}
        \cup {(IF op = "^" /\ side = "left" THEN <<Odd("negative_power")>> ELSE odd(op = "base"))
              \o Negative}
        \cup {Parens(BinaryPrec(o), min, Inner(o)) : o \in EmittedOps}
        \cup {Parens(21, min, <<Say(u), Operand("unary", "none"), Unop(u)>>) : u \in UnaryOps \ {"~"}}

-----------------------------------------------------------------------------
(* emit_statement, by statement.  Statements that end a block apart.       *)
Statements ==
    {<<Say("local"), Say("Name"), Part("more_names"), Part("values"), Node("local")>>,
     <<Say("do"), Part("block"), Say("end"), Node("do")>>,
     <<Say("while")>> \o Expr \o Loop \o <<Node("while")>>,
     <<Say("repeat"), Part("block"), Say("until")>> \o Expr \o <<Node("repeat")>>,
     <<Say("if")>> \o Expr \o <<Say("then"), Part("block"), Part("else_clauses"), Say("end"),
       Node("if")>>,
     <<Say("for"), Say("Name"), Say("=")>> \o Expr \o <<Comma>> \o Expr \o <<Part("step")>>
       \o Loop \o <<Node("numeric_for")>>,
     <<Say("for"), Say("Name"), Part("more_names"), Say("in")>> \o ExprList \o Loop
       \o <<Node("generic_for")>>,
     <<Say("function"), Say("Name"), Part("name_parts")>> \o Body \o <<Node("function_decl")>>,
     <<Say("local"), Say("function"), Say("Name")>> \o Body \o <<Node("local_function")>>,
     <<Odd("goto"), Say("goto"), Say("Name"), Node("goto")>>,
     <<Odd("goto"), Say("::"), Say("Name"), Say("::"), Node("label")>>}
    \cup {v \o <<Part("targets"), Say("=")>> \o ExprList \o <<Node("assign")>> : v \in Variable}
    \cup {c \o <<Node("call_statement")>> : c \in Call}

Break  == <<Say("break"), Node("break")>>
Return == <<Say("return"), Part("returned"), Node("return")>>

Further == {<<Line>> \o s \o <<Part("block")>> : s \in Statements}

PrintedPart(p) ==
    CASE p = "block" ->
           {<<>>, Return, Break, <<Odd("break_inside")>> \o Break \o <<Part("statements")>>}
           \cup Further
      [] p = "statements"   -> Further
      [] p = "more_names"   -> {<<>>, <<Comma, Say("Name"), Part("more_names")>>}
      [] p = "values"       -> {<<>>, <<Say("=")>> \o ExprList}
      [] p = "returned"     -> {<<>>, ExprList}
      [] p = "args"         -> {<<>>, ExprList}
      [] p = "more_exprs"   -> {<<>>, <<Comma>> \o ExprList}
      [] p = "targets"      -> {<<>>} \cup {<<Comma>> \o v \o <<Part("targets")>> : v \in Variable}
      [] p = "step"         -> {<<>>, <<Comma>> \o Expr}
      [] p = "else_clauses" -> {<<>>, <<Say("else"), Part("block"), Node("else")>>,
                                <<Say("elseif")>> \o Expr \o
                                <<Say("then"), Part("block"), Node("elseif"), Part("else_clauses")>>}
      [] p = "name_parts"   -> {<<>>, <<Say("."), Say("Name"), Node("part"), Part("name_parts")>>,
                                <<Say(":"), Say("Name"), Node("method")>>}
      [] p = "params"       -> {<<>>, <<Say("..."), Node("is_vararg")>>,
                                <<Say("Name"), Node("param"), Part("more_params")>>}
      [] p = "more_params"  -> {<<>>, <<Comma, Say("..."), Node("is_vararg")>>,
                                <<Comma, Say("Name"), Node("param"), Part("more_params")>>}
      [] p = "fields"       -> {<<>>, <<Part("field"), Part("more_fields")>>}
      [] p = "more_fields"  -> {<<>>, <<Comma, Part("field"), Part("more_fields")>>}
      [] p = "field"        -> {Expr \o <<Node("positional")>>,
                                <<Say("Name"), Say("=")>> \o Expr \o <<Node("name_key")>>,
                                <<Say("[")>> \o Expr \o <<Say("]"), Say("=")>> \o Expr
                                \o <<Node("expr_key")>>}

Printed(symbol) ==
    IF symbol[1] = "operand" THEN PrintedOperand(symbol[2], symbol[3]) ELSE PrintedPart(symbol[2])
=============================================================================
