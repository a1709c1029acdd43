------------------------------- MODULE Descent -------------------------------
(***************************************************************************)
(* Recursive descent as a machine.  The procedures of a parser that are    *)
(* being executed are a stack `todo` of what they still have to do, next   *)
(* thing first.  A symbol of the stack is a pair:                          *)
(*                                                                         *)
(*   Expect(t)   read the token t, or fail                                 *)
(*   Parse(p)    run procedure p, which looks at the next token            *)
(*   Climb(op)   read the binary operators that bind tighter than op, the  *)
(*               operator to the left ("none" where there is none)         *)
(*   Node(n)     complete a node of the syntax tree                        *)
(*   Shape(n)    remember what kind of expression has just been read       *)
(*                                                                         *)
(* A procedure is an operator that says, from the next token and from the  *)
(* kind of the expression just read, what to do in its place.  The tree is *)
(* the sequence of its nodes in the order they are completed.  valua's     *)
(* parser and the Lua compilers it is compared with are such machines.     *)
(***************************************************************************)
EXTENDS Integers, Sequences

Expect(t) == <<"expect", t>>
Parse(p)  == <<"parse", p>>
Climb(op) == <<"climb", op>>
Node(n)   == <<"node", n>>
Shape(n)  == <<"shape", n>>
Fail(why) == <<"fail", why>>

Unop(op)  == <<"unary", op>>
Binop(op) == <<"binary", op>>

-----------------------------------------------------------------------------
(* Tokens.  The literals nil, true, false and the numbers are one token;   *)
(* const, close, global and goto are identifiers with these names (goto    *)
(* only in Lua 5.1); a parenthesis that is the first token of its line is  *)
(* told apart from others because Lua 5.1 looks at that.                   *)
Keywords  == {"if", "then", "else", "elseif", "end", "do", "while", "repeat", "until", "for", "in",
              "function", "local", "return", "break", "goto"}
Marks     == {"(", ")", "{", "}", "[", "]", ";", ":", "::", ",", ".", "="}
BinaryOps == {"or", "and", "<", ">", "<=", ">=", "==", "~=", "|", "~", "&", "<<", ">>",
              "..", "+", "-", "*", "/", "//", "%", "^"}
UnaryOps  == {"-", "not", "#", "~"}
Names     == {"Name", "const", "close", "global"}
Simple    == {"Literal", "String", "..."}     \* leaves that no suffix can follow in Lua
BlockEnds == {"end", "else", "elseif", "until", "eof"}
LineParen == "newline ("

TokenKinds == Keywords \cup Marks \cup BinaryOps \cup UnaryOps \cup Names \cup Simple \cup {"eof"}

(* Nodes of the syntax tree; "one_value" and "global" are Lua's alone.     *)
NodeKinds ==
    {"assign", "break", "call", "call_statement", "const", "close", "do", "else", "elseif", "expr_key",
     "function", "function_decl", "generic_for", "global", "goto", "if", "index", "index_expr",
     "is_vararg", "label", "local", "local_function", "method", "method_call", "name", "name_key",
     "numeric_for", "one_value", "param", "part", "positional", "repeat", "return", "table", "while"}

Fits(token, t) ==
    \/ token = t
    \/ t = "Name" /\ token \in Names
    \/ t = "(" /\ token = LineParen

-----------------------------------------------------------------------------
Start(todo) == [input |-> <<>>, todo |-> todo, tree |-> <<>>, last |-> "none"]

(* A machine that has failed stays so, and says why (mostly "none").       *)
Refusal(why) == Start(<<Fail(why)>>)
Ended(m)     == m.todo = <<>>
Refused(m)   == ~Ended(m) /\ Head(m.todo)[1] = "fail"

Reads(symbol) == symbol[1] \in {"expect", "parse", "climb"}
Waiting(m)    == ~Ended(m) /\ Reads(Head(m.todo)) /\ m.input = <<>>
Running(m)    == ~Ended(m) /\ ~Refused(m) /\ ~Waiting(m)

(* A sequence of symbols in place of the first one.                        *)
Replace(m, symbols) ==
    IF symbols # <<>> /\ Head(symbols)[1] = "fail" THEN Start(symbols)
    ELSE [m EXCEPT !.todo = symbols \o Tail(@)]

(* One step of machine m; if it is a procedure's turn, `does` is what the  *)
(* procedure does.  A closing parenthesis does not change what was read    *)
(* last.                                                                   *)
Step(m, does) ==
    LET top == Head(m.todo) IN
    CASE top[1] = "expect" ->
           IF Fits(Head(m.input), top[2])
           THEN [m EXCEPT !.todo = Tail(@), !.input = Tail(@),
                            !.last = IF top[2] = ")" THEN @ ELSE "none"]
           ELSE Refusal("none")
      [] top[1] \in {"parse", "climb"} ->
           Replace(m, does)
      [] top[1] = "shape" ->
           [m EXCEPT !.todo = Tail(@), !.last = top[2]]
      [] OTHER ->
           [m EXCEPT !.todo = Tail(@), !.last = top[2], !.tree = Append(@, top)]
=============================================================================
